---------------------------- MODULE Session_proof ----------------------------
(* Client sessions, for any numbers of clients, phones and requests: the   *)
(* host identity and the records that they share with the pairing and the  *)
(* mDNS tasks, where a Connect goes, and how requests are answered.        *)
EXTENDS Session, Sums_proof, TLAPS

Hosts == Callers \cup {AnotherHost, None}

IdentityTypes ==
  /\ disk \in [Files -> [state : {"absent", "torn", "whole"},
                            host : Hosts, buid : Hosts]]
  /\ identity \in [Callers -> [pc : {"idle", "start", "dirty", "writing", "done"},
                               host : Hosts, buid : Hosts, after : SUBSET Callers,
                               alone : BOOLEAN, kept : BOOLEAN]]

(* The file holds the identity of the call a, and nobody is about to write *)
(* another one.                                                            *)
Settled(a) ==
  /\ disk[SystemConfiguration].host = identity[a].host
  /\ disk[SystemConfiguration].buid = identity[a].buid
  /\ None \notin {identity[a].host, identity[a].buid}
  /\ \A c \in Callers : identity[c].pc \notin {"dirty", "writing"}
  /\ \A b \in Callers :
       identity[b].pc = "done" /\ a \in identity[b].after =>
         identity[b].host = identity[a].host /\ identity[b].buid = identity[a].buid

(* A call that is alone is; one that is to write has an identity and has   *)
(* not kept it yet; what a call comes after is over; and a call that was   *)
(* alone and kept its identity has settled it.                             *)
IdentityInv ==
  /\ IdentityTypes
  /\ \A c \in Callers : Busy(c) /\ identity[c].alone => \A d \in Callers \ {c} : ~Busy(d)
  /\ \A c \in Callers : identity[c].pc \in {"dirty", "writing"} =>
       None \notin {identity[c].host, identity[c].buid}
  /\ \A c \in Callers : Busy(c) => ~identity[c].kept
  /\ \A b \in Callers : \A a \in identity[b].after : identity[a].pc = "done"
  /\ \A a \in Callers :
       identity[a].pc = "done" /\ identity[a].alone /\ identity[a].kept => Settled(a)

LEMMA CallersAreNobody == None \notin Callers /\ SystemConfiguration \notin Phones
<1> QED BY StoreAssumption DEF Callers

LEMMA SharedIfSettled == IdentityInv => IdentityShared
<1> QED BY DEF IdentityInv, IdentityShared, Settled

(* A step that leaves the calls and the file with the identity alone. *)
LEMMA IdentityKept ==
  ASSUME IdentityInv, IdentityTypes', SystemConfiguration \in Files,
         UNCHANGED <<identity, disk[SystemConfiguration]>>
  PROVE  IdentityInv'
<1> QED BY DEF IdentityInv, Settled, Busy

LEMMA CallKept ==
  ASSUME IdentityInv, NEW c \in Callers, CallIdentity(c),
         disk' \in [Files -> [state : {"absent", "torn", "whole"}, host : Hosts, buid : Hosts]],
         disk'[SystemConfiguration] = disk[SystemConfiguration]
  PROVE  IdentityInv'
<1> DEFINE done == {b \in Callers : identity[b].pc = "done"}
           free == \A b \in Callers : ~Busy(b)
<1>0. IdentityTypes /\ free \in BOOLEAN /\ done \subseteq Callers
  BY DEF IdentityInv
<1>1. /\ identity[c].pc = "idle"
      /\ identity'[c] = [NoCall EXCEPT !.pc = "start", !.after = done, !.alone = free]
      /\ \A d \in Callers \ {c} :
           identity'[d] = IF Busy(d) THEN [identity[d] EXCEPT !.alone = FALSE] ELSE identity[d]
      /\ DOMAIN identity' = Callers
      /\ identity' = [d \in Callers |-> identity'[d]]
  BY DEF CallIdentity
<1>2. identity'[c] = [pc |-> "start", host |-> None, buid |-> None, after |-> done,
                      alone |-> free, kept |-> FALSE]
  BY <1>1 DEF NoCall
<1>3. ASSUME NEW d \in Callers, d # c
      PROVE  /\ identity'[d].pc = identity[d].pc /\ identity'[d].host = identity[d].host
             /\ identity'[d].buid = identity[d].buid /\ identity'[d].after = identity[d].after
             /\ identity'[d].kept = identity[d].kept
             /\ identity'[d].alone => identity[d].alone /\ ~Busy(d)
             /\ ~Busy(d) => identity'[d] = identity[d]
             /\ identity'[d] \in [pc : {"idle", "start", "dirty", "writing", "done"},
                                  host : Hosts, buid : Hosts, after : SUBSET Callers,
                                  alone : BOOLEAN, kept : BOOLEAN]
  <2>1. identity[d] \in [pc : {"idle", "start", "dirty", "writing", "done"},
                         host : Hosts, buid : Hosts, after : SUBSET Callers,
                         alone : BOOLEAN, kept : BOOLEAN]
    BY <1>0 DEF IdentityTypes
  <2>2. CASE Busy(d)
    <3>1. identity'[d] = [identity[d] EXCEPT !.alone = FALSE]
      BY <1>1, <1>3, <2>2
    <3> QED BY <2>1, <2>2, <3>1
  <2>3. CASE ~Busy(d)
    BY <1>1, <1>3, <2>1, <2>3
  <2> QED BY <2>2, <2>3
<1>4. identity'[c] \in [pc : {"idle", "start", "dirty", "writing", "done"},
                        host : Hosts, buid : Hosts, after : SUBSET Callers,
                        alone : BOOLEAN, kept : BOOLEAN]
  <2> HIDE DEF done, free
  <2> QED BY <1>0, <1>2 DEF Hosts
<1>5. IdentityTypes'
  <2>1. \A d \in Callers : identity'[d] \in
           [pc : {"idle", "start", "dirty", "writing", "done"},
            host : Hosts, buid : Hosts, after : SUBSET Callers,
            alone : BOOLEAN, kept : BOOLEAN]
    BY <1>3, <1>4
  <2> QED BY <1>1, <2>1 DEF IdentityTypes
<1>6. /\ identity'[c].pc = "start" /\ identity'[c].after = done
      /\ identity'[c].alone = free /\ ~identity'[c].kept
  BY <1>2
<1>7. \A b \in Callers : Busy(b)' <=> Busy(b) \/ b = c
  BY <1>1, <1>3, <1>6 DEF Busy
<1>8. \A b \in Callers : Busy(b)' /\ identity'[b].alone => \A d \in Callers \ {b} : ~Busy(d)'
  <2>1. ASSUME Busy(c)', identity'[c].alone, NEW d \in Callers, d # c PROVE ~Busy(d)'
    BY <1>6, <1>7, <2>1
  <2>2. ASSUME NEW b \in Callers, b # c, Busy(b)', identity'[b].alone PROVE FALSE
    BY <1>3, <1>7, <2>2
  <2> QED BY <2>1, <2>2
<1>9. \A b \in Callers : identity'[b].pc \in {"dirty", "writing"} =>
        None \notin {identity'[b].host, identity'[b].buid}
  BY <1>3, <1>6 DEF IdentityInv
<1>10. \A b \in Callers : Busy(b)' => ~identity'[b].kept
  BY <1>3, <1>6, <1>7 DEF IdentityInv
<1>11. \A b \in Callers : \A a \in identity'[b].after : identity'[a].pc = "done"
  <2>1. \A a \in done : a \in Callers /\ a # c /\ identity'[a].pc = "done"
    BY <1>1, <1>3
  <2>2. ASSUME NEW b \in Callers, b # c, NEW a \in identity[b].after
        PROVE  identity'[a].pc = "done"
    <3>1. a \in Callers /\ identity[a].pc = "done"
      BY <1>0 DEF IdentityInv, IdentityTypes
    <3> QED BY <1>1, <1>3, <3>1
  <2> QED BY <1>3, <1>6, <2>1, <2>2
<1>12. ASSUME NEW a \in Callers, identity'[a].pc = "done", identity'[a].alone, identity'[a].kept
       PROVE  Settled(a)'
  <2>1. a # c /\ identity'[a] = identity[a] /\ Settled(a)
    BY <1>3, <1>6, <1>12 DEF IdentityInv, Busy
  <2> QED BY <1>3, <1>6, <2>1 DEF Settled
<1> QED BY <1>5, <1>8, <1>9, <1>10, <1>11, <1>12 DEF IdentityInv

Entry == [pc : {"idle", "start", "dirty", "writing", "done"}, host : Hosts, buid : Hosts,
          after : SUBSET Callers, alone : BOOLEAN, kept : BOOLEAN]

(* A call reads the file. *)
LEMMA ReadKept ==
  ASSUME IdentityInv, NEW c \in Callers, ReadIdentity(c)
  PROVE  IdentityInv'
<1> DEFINE f == disk[SystemConfiguration]
           h == IF f.host = None THEN c ELSE f.host
           b == IF f.buid = None THEN c ELSE f.buid
           lacks == None \in {f.host, f.buid}
<1>0. /\ IdentityTypes /\ None \notin Callers /\ SystemConfiguration \in Files
      /\ f.host \in Hosts /\ f.buid \in Hosts
  BY CallersAreNobody DEF IdentityInv, IdentityTypes, Files
<1>1. /\ identity[c] \in Entry /\ identity[c].pc = "start" /\ disk' = disk
      /\ identity' = [identity EXCEPT ![c] = [identity[c] EXCEPT !.host = h, !.buid = b,
                        !.pc = IF lacks THEN "dirty" ELSE "done", !.kept = ~lacks]]
  <2>1. identity[c] \in Entry
    BY <1>0 DEF IdentityTypes, Entry
  <2>2. /\ identity[c].pc = "start" /\ disk' = disk
        /\ identity' = [identity EXCEPT ![c].host = h, ![c].buid = b,
                          ![c].pc = IF lacks THEN "dirty" ELSE "done", ![c].kept = ~lacks]
    BY DEF ReadIdentity
  <2> HIDE DEF h, b, lacks
  <2> QED BY <1>0, <2>1, <2>2 DEF IdentityTypes
<1>2. h \in Hosts /\ b \in Hosts /\ None \notin {h, b} /\ lacks \in BOOLEAN
  BY <1>0 DEF Hosts
<1>3. ~lacks => h = f.host /\ b = f.buid
  OBVIOUS
<1> HIDE DEF h, b, lacks
<1> DEFINE pc == IF lacks THEN "dirty" ELSE "done"
           keeps == ~lacks
<1>4. /\ identity' = [identity EXCEPT ![c] = [identity[c] EXCEPT !.host = h, !.buid = b, !.pc = pc,
                                                               !.kept = keeps]]
      /\ pc \in {"dirty", "done"} /\ keeps \in BOOLEAN
  BY <1>1
<1>5. /\ IdentityTypes'
      /\ \A d \in Callers : d # c => identity'[d] = identity[d]
      /\ identity'[c].pc = (IF lacks THEN "dirty" ELSE "done")
      /\ identity'[c].host = h /\ identity'[c].buid = b
      /\ identity'[c].after = identity[c].after /\ identity'[c].alone = identity[c].alone
      /\ identity'[c].kept = ~lacks
  <2> HIDE DEF pc, keeps
  <2>1. /\ \A d \in Callers : d # c => identity'[d] = identity[d]
        /\ identity'[c] \in Entry
        /\ identity'[c].pc = pc /\ identity'[c].host = h /\ identity'[c].buid = b
        /\ identity'[c].after = identity[c].after /\ identity'[c].alone = identity[c].alone
        /\ identity'[c].kept = keeps
    <3> DEFINE r == identity[c]
               q == [r EXCEPT !.host = h, !.buid = b, !.pc = pc, !.kept = keeps]
    <3>1. r \in Entry
      BY <1>1
    <3>2. identity'[c] = q /\ \A d \in Callers : d # c => identity'[d] = identity[d]
      BY <1>0, <1>4 DEF IdentityTypes
    <3> HIDE DEF r
    <3>3. /\ q \in Entry /\ q.pc = pc /\ q.host = h /\ q.buid = b
          /\ q.after = r.after /\ q.alone = r.alone /\ q.kept = keeps
      BY <1>2, <1>4, <3>1 DEF Entry
    <3> HIDE DEF q
    <3> QED BY <3>2, <3>3 DEF r
  <2>2. IdentityTypes'
    BY <1>0, <1>1, <1>4, <2>1 DEF IdentityTypes, Entry
  <2> QED BY <2>1, <2>2 DEF pc, keeps
<1> HIDE DEF pc, keeps
<1>6. Busy(c) /\ \A d \in Callers : Busy(d)' => Busy(d)
  BY <1>1, <1>5 DEF Busy
<1>7. \A d \in Callers : Busy(d)' /\ identity'[d].alone => \A e \in Callers \ {d} : ~Busy(e)'
  BY <1>5, <1>6 DEF IdentityInv
<1>8. \A d \in Callers : identity'[d].pc \in {"dirty", "writing"} =>
        None \notin {identity'[d].host, identity'[d].buid}
  BY <1>2, <1>5 DEF IdentityInv
<1>9. \A d \in Callers : Busy(d)' => ~identity'[d].kept
  BY <1>5, <1>6 DEF IdentityInv, Busy
<1>10. \A d \in Callers : \A a \in identity'[d].after : identity'[a].pc = "done"
  <2>1. ASSUME NEW d \in Callers, NEW a \in identity[d].after PROVE identity'[a].pc = "done"
    BY <1>0, <1>1, <1>5 DEF IdentityInv, IdentityTypes
  <2> QED BY <1>5, <2>1
<1>11. ASSUME NEW a \in Callers, identity'[a].pc = "done", identity'[a].alone, identity'[a].kept
       PROVE  Settled(a)'
  <2>1. CASE a = c
    <3>1. ~lacks /\ \A d \in Callers \ {c} : ~Busy(d)
      BY <1>5, <1>6, <1>11, <2>1 DEF IdentityInv
    <3>2. \A d \in Callers : identity'[d].pc \notin {"dirty", "writing"}
      BY <1>5, <3>1 DEF Busy
    <3>3. \A d \in Callers : c \notin identity'[d].after
      BY <1>1, <1>5 DEF IdentityInv
    <3> QED BY <1>1, <1>2, <1>3, <1>5, <2>1, <3>1, <3>2, <3>3 DEF Settled
  <2>2. CASE a # c
    <3>1. identity'[a] = identity[a] /\ Settled(a)
      BY <1>5, <1>11, <2>2 DEF IdentityInv
    <3>2. ~lacks /\ h = identity[a].host /\ b = identity[a].buid
      BY <1>3, <3>1 DEF Settled, lacks
    <3> QED BY <1>1, <1>5, <3>1, <3>2 DEF Settled
  <2> QED BY <2>1, <2>2
<1> QED BY <1>5, <1>7, <1>8, <1>9, <1>10, <1>11 DEF IdentityInv

(* A call that has made up its identity goes on to write it: it moves to   *)
(* "pc", and what it leaves in the file is its identity if it claims so.   *)
LEMMA WriteKept ==
  ASSUME IdentityInv, NEW c \in Callers, identity[c].pc \in {"dirty", "writing"},
         NEW pc \in {"writing", "done"}, NEW kept \in BOOLEAN,
         identity' = [identity EXCEPT ![c] = [identity[c] EXCEPT !.pc = pc, !.kept = kept]],
         disk' \in [Files -> [state : {"absent", "torn", "whole"}, host : Hosts, buid : Hosts]],
         pc = "writing" => ~kept,
         kept => /\ disk'[SystemConfiguration].host = identity[c].host
                 /\ disk'[SystemConfiguration].buid = identity[c].buid
  PROVE  IdentityInv'
<1>0. IdentityTypes /\ identity[c] \in Entry /\ Busy(c)
  BY DEF IdentityInv, IdentityTypes, Entry, Busy
<1>1. /\ \A d \in Callers : d # c => identity'[d] = identity[d]
      /\ identity'[c] \in Entry
      /\ identity'[c].pc = pc /\ identity'[c].host = identity[c].host
      /\ identity'[c].buid = identity[c].buid /\ identity'[c].after = identity[c].after
      /\ identity'[c].alone = identity[c].alone /\ identity'[c].kept = kept
  BY <1>0 DEF IdentityTypes, Entry
<1>2. IdentityTypes'
  BY <1>0, <1>1 DEF IdentityTypes, Entry
<1>3. \A d \in Callers : Busy(d)' => Busy(d)
  BY <1>0, <1>1 DEF Busy
<1>4. \A d \in Callers : Busy(d)' /\ identity'[d].alone => \A e \in Callers \ {d} : ~Busy(e)'
  BY <1>0, <1>1, <1>3 DEF IdentityInv
<1>5. \A d \in Callers : identity'[d].pc \in {"dirty", "writing"} =>
        None \notin {identity'[d].host, identity'[d].buid}
  BY <1>1 DEF IdentityInv
<1>6. \A d \in Callers : Busy(d)' => ~identity'[d].kept
  BY <1>1, <1>3 DEF IdentityInv, Busy
<1>7. ASSUME NEW d \in Callers, NEW a \in identity'[d].after PROVE identity'[a].pc = "done"
  <2>1. a \in identity[d].after /\ a \in Callers
    BY <1>0, <1>1, <1>7 DEF IdentityTypes
  <2>2. identity[a].pc = "done"
    BY <2>1 DEF IdentityInv
  <2> QED BY <1>1, <2>1, <2>2
<1>8. ASSUME NEW a \in Callers, identity'[a].pc = "done", identity'[a].alone, identity'[a].kept
      PROVE  Settled(a)'
  <2>1. a = c
    BY <1>1, <1>8 DEF IdentityInv, Settled
  <2>2. \A d \in Callers \ {c} : ~Busy(d)
    BY <1>0, <1>1, <1>8, <2>1 DEF IdentityInv
  <2>3. \A d \in Callers : identity'[d].pc \notin {"dirty", "writing"}
    BY <1>1, <1>8, <2>1, <2>2 DEF Busy
  <2>4. \A d \in Callers : c \notin identity'[d].after
    BY <1>1 DEF IdentityInv
  <2>5. None \notin {identity[c].host, identity[c].buid}
    BY DEF IdentityInv
  <2> QED BY <1>1, <1>8, <2>1, <2>3, <2>4, <2>5 DEF Settled
<1> QED BY <1>2, <1>4, <1>5, <1>6, <1>7, <1>8 DEF IdentityInv

LEMMA TruncateKept ==
  ASSUME IdentityInv, NEW c \in Callers, TruncateIdentity(c)
  PROVE  IdentityInv'
<1>1. identity' = [identity EXCEPT ![c] = [identity[c] EXCEPT !.pc = "writing", !.kept = FALSE]]
  <2>1. identity[c] \in Entry /\ Busy(c) /\ ~identity[c].kept
    BY DEF IdentityInv, IdentityTypes, Entry, Busy, TruncateIdentity
  <2>2. [identity[c] EXCEPT !.pc = "writing", !.kept = FALSE]
        = [identity[c] EXCEPT !.pc = "writing"]
    BY <2>1 DEF Entry
  <2>3. identity' = [identity EXCEPT ![c] = [identity[c] EXCEPT !.pc = "writing"]]
    BY DEF TruncateIdentity
  <2> QED BY <2>2, <2>3
<1>2. disk' \in [Files -> [state : {"absent", "torn", "whole"}, host : Hosts, buid : Hosts]]
  BY DEF TruncateIdentity, Torn, Absent, IdentityInv, IdentityTypes, Hosts
<1> QED BY <1>1, <1>2, WriteKept DEF TruncateIdentity

LEMMA WriteDoneKept ==
  ASSUME IdentityInv, NEW c \in Callers, WriteIdentity(c)
  PROVE  IdentityInv'
<1>0. IdentityTypes /\ identity[c] \in Entry /\ SystemConfiguration \in Files
  BY DEF IdentityInv, IdentityTypes, Entry, Files
<1>1. /\ identity' = [identity EXCEPT ![c] = [identity[c] EXCEPT !.pc = "done", !.kept = TRUE]]
      /\ disk' = [disk EXCEPT ![SystemConfiguration]
                    = [state |-> "whole", host |-> identity[c].host, buid |-> identity[c].buid]]
      /\ identity[c].pc \in {"dirty", "writing"}
  BY <1>0 DEF WriteIdentity, Whole
<1>2. identity[c].host \in Hosts /\ identity[c].buid \in Hosts
  BY <1>0 DEF Entry
<1>3. /\ disk' \in [Files -> [state : {"absent", "torn", "whole"}, host : Hosts, buid : Hosts]]
      /\ disk'[SystemConfiguration].host = identity[c].host
      /\ disk'[SystemConfiguration].buid = identity[c].buid
  BY <1>0, <1>1, <1>2 DEF IdentityTypes
<1> QED BY <1>1, <1>3, WriteKept

LEMMA WriteFailsKept ==
  ASSUME IdentityInv, NEW c \in Callers, WriteIdentityFails(c)
  PROVE  IdentityInv'
<1>1. /\ identity[c] \in Entry /\ Busy(c) /\ ~identity[c].kept
      /\ identity[c].pc \in {"dirty", "writing"} /\ disk' = disk
      /\ identity' = [identity EXCEPT ![c] = [identity[c] EXCEPT !.pc = "done"]]
  BY DEF IdentityInv, IdentityTypes, Entry, Busy, WriteIdentityFails
<1>2. [identity[c] EXCEPT !.pc = "done", !.kept = FALSE] = [identity[c] EXCEPT !.pc = "done"]
  BY <1>1 DEF Entry
<1>3. identity' = [identity EXCEPT ![c] = [identity[c] EXCEPT !.pc = "done", !.kept = FALSE]]
  BY <1>1, <1>2
<1>4. disk' \in [Files -> [state : {"absent", "torn", "whole"}, host : Hosts, buid : Hosts]]
  BY <1>1 DEF IdentityInv, IdentityTypes
<1> QED BY <1>1, <1>3, <1>4, WriteKept

(* The steps of a phone's task change records, never the host's own file;  *)
(* one of them begins a call.                                              *)
LEMMA PairingKept ==
  ASSUME IdentityInv, NEW p \in Phones, PairingStep(p)
  PROVE  IdentityInv'
<1>0. /\ IdentityTypes /\ SystemConfiguration \in Files /\ p # SystemConfiguration
      /\ p \in Callers /\ AnotherHost \in Hosts /\ None \in Hosts
  BY CallersAreNobody DEF IdentityInv, Files, Callers, Hosts
<1> DEFINE Stored == [state : {"absent", "torn", "whole"}, host : Hosts, buid : Hosts]
<1>1. /\ disk' \in [Files -> Stored] /\ disk'[SystemConfiguration] = disk[SystemConfiguration]
      /\ CallIdentity(p) \/ UNCHANGED identity
  <2>0. disk \in [Files -> Stored] /\ identity[p].host \in Hosts
    BY <1>0 DEF IdentityTypes
  <2>1. CASE PlugIn(p)
    <3>1. UNCHANGED disk \/ disk' = [disk EXCEPT ![p] = [state |-> "absent", host |-> None, buid |-> None]]
      BY <2>1 DEF PlugIn, Absent
    <3>2. CallIdentity(p) \/ UNCHANGED identity
      BY <2>1 DEF PlugIn
    <3> QED BY <1>0, <2>0, <3>1, <3>2
  <2>2. CASE Trusted(p) \/ PairingFails(p) \/ Forget(p)
    BY <2>0, <2>2 DEF Trusted, PairingFails, Forget
  <2>3. CASE WritePairing(p)
    <3>1. \/ disk' = [disk EXCEPT ![p] = [state |-> "torn", host |-> None, buid |-> None]]
          \/ disk' = [disk EXCEPT ![p] = [state |-> "whole", host |-> identity[p].host, buid |-> None]]
      BY <2>3 DEF WritePairing, Truncate, SaveRecord, Torn, Absent, Whole
    <3>2. UNCHANGED identity
      BY <2>3 DEF WritePairing
    <3> QED BY <1>0, <2>0, <3>1, <3>2
  <2> QED BY <2>1, <2>2, <2>3 DEF PairingStep
<1>2. CASE CallIdentity(p)
  BY <1>0, <1>1, <1>2, CallKept
<1>3. CASE UNCHANGED identity
  <2>1. IdentityTypes'
    BY <1>0, <1>1, <1>3 DEF IdentityTypes
  <2> QED BY <1>0, <1>1, <1>3, <2>1, IdentityKept
<1> QED BY <1>1, <1>2, <1>3

LEMMA IdentityStarts == StoreInit => IdentityInv
<1> SUFFICES ASSUME StoreInit PROVE IdentityInv
  OBVIOUS
<1>1. PICK old \in SUBSET OldRecords, fresh \in BOOLEAN :
        disk = [f \in Files |->
                  IF f \in old THEN Whole(AnotherHost, None)
                  ELSE IF f = SystemConfiguration /\ ~fresh THEN Whole(None, AnotherHost)
                  ELSE Absent]
  BY DEF StoreInit
<1>2. disk \in [Files -> [state : {"absent", "torn", "whole"}, host : Hosts, buid : Hosts]]
  BY <1>1 DEF Whole, Absent, Hosts
<1>3. identity = [c \in Callers |->
                    [pc |-> "idle", host |-> None, buid |-> None, after |-> {}, alone |-> TRUE,
                     kept |-> FALSE]]
  BY DEF StoreInit, NoCall
<1> QED BY <1>2, <1>3 DEF IdentityInv, IdentityTypes, Busy, Settled, Hosts

LEMMA IdentityInvKept == IdentityInv /\ [StoreNext]_storeVars => IdentityInv'
<1> SUFFICES ASSUME IdentityInv, [StoreNext]_storeVars PROVE IdentityInv'
  OBVIOUS
<1>0. IdentityTypes /\ SystemConfiguration \in Files
  BY DEF IdentityInv, Files
<1>1. CASE UNCHANGED <<identity, disk>>
  <2>1. IdentityTypes'
    BY <1>0, <1>1 DEF IdentityTypes
  <2> QED BY <1>0, <1>1, <2>1, IdentityKept
<1>2. ASSUME NEW c \in Callers, IdentityStep(c) PROVE IdentityInv'
  BY <1>2, ReadKept, TruncateKept, WriteDoneKept, WriteFailsKept DEF IdentityStep
<1>3. ASSUME NEW c \in Readers, ReadBuid(c) PROVE IdentityInv'
  <2>1. c \in Callers /\ CallIdentity(c) /\ disk' = disk
    BY <1>3 DEF ReadBuid, Callers
  <2> QED BY <1>0, <2>1, CallKept DEF IdentityTypes
<1>4. ASSUME NEW p \in Phones, PairingStep(p) PROVE IdentityInv'
  BY <1>4, PairingKept
<1>5. CASE MdnsStep
  <2>1. UNCHANGED <<identity, disk>>
    BY <1>5 DEF MdnsStep, Resolve, CacheFile, MatchAgain, Reported
  <2> QED BY <1>1, <2>1
<1>6. CASE UNCHANGED storeVars
  BY <1>1, <1>6 DEF storeVars
<1> QED BY <1>2, <1>3, <1>4, <1>5, <1>6 DEF StoreNext

(* "writing the file back so other muxers see the same identity": a call   *)
(* that begins after one that ran alone and got its identity into the file *)
(* returns the same identity (get_host_identity).                          *)
THEOREM IdentityIsShared == StoreSpec => []IdentityShared
<1>1. StoreInit => IdentityInv
  BY IdentityStarts
<1>2. IdentityInv /\ [StoreNext]_storeVars => IdentityInv'
  BY IdentityInvKept
<1>3. IdentityInv => IdentityShared
  BY SharedIfSettled
<1> QED BY <1>1, <1>2, <1>3, PTL DEF StoreSpec
-----------------------------------------------------------------------------
(* What the mDNS task finds. While it reads the directory, the record of a *)
(* phone that it is bound to find stays as it is, and once it was read it  *)
(* is in both caches.                                                      *)

LookupType ==
  [pc : {"idle", "found", "caching", "unknown"}, phone : Phones \cup {None},
   by : {"txt", "mac"}, left : SUBSET Files, found : Files \cup {None}, sure : BOOLEAN]

(* A phone never comes to trust "no host". *)
HostsKnown ==
  /\ \A c \in Callers : identity[c].pc = "done" => identity[c].host # None
  /\ trusts \in [Phones -> SUBSET (Hosts \ {None})]

Bound(p) == disk[p].state = "whole" /\ disk[p].host \in trusts[p]

Cached(p) == p \in DOMAIN hostIds /\ hostIds[p] = disk[p].host /\ p \in macs

FoundInv ==
  /\ HostsKnown
  /\ lookup \in LookupType /\ DOMAIN hostIds \subseteq Files
  /\ lookup.pc \in {"caching", "unknown"} => lookup.phone \in Phones
  /\ lookup.pc = "caching" /\ lookup.sure =>
       Bound(lookup.phone) /\ (lookup.phone \notin lookup.left => Cached(lookup.phone))
  /\ PairedPhoneFound

LEMMA HostsKept ==
  ASSUME IdentityInv, HostsKnown, NEW c \in Callers, IdentityStep(c)
  PROVE  HostsKnown'
<1>0. IdentityTypes /\ identity[c] \in Entry /\ c # None /\ trusts' = trusts
  BY CallersAreNobody DEF IdentityInv, IdentityTypes, Entry, IdentityStep, ReadIdentity,
     TruncateIdentity, WriteIdentity, WriteIdentityFails
<1>1. CASE ReadIdentity(c)
  <2>1. /\ \A d \in Callers : d # c => identity'[d] = identity[d]
        /\ identity'[c].host # None
    BY <1>0, <1>1 DEF ReadIdentity, IdentityTypes, Entry
  <2> QED BY <1>0, <2>1 DEF HostsKnown
<1>2. CASE TruncateIdentity(c)
  <2>1. /\ \A d \in Callers : d # c => identity'[d] = identity[d]
        /\ identity'[c].pc = "writing"
    BY <1>0, <1>2 DEF TruncateIdentity, IdentityTypes, Entry
  <2> QED BY <1>0, <2>1 DEF HostsKnown
<1>3. CASE WriteIdentity(c) \/ WriteIdentityFails(c)
  <2>1. /\ \A d \in Callers : d # c => identity'[d] = identity[d]
        /\ identity'[c].host = identity[c].host /\ identity[c].pc \in {"dirty", "writing"}
    BY <1>0, <1>3 DEF WriteIdentity, WriteIdentityFails, IdentityTypes, Entry
  <2>2. identity[c].host # None
    BY <2>1 DEF IdentityInv
  <2> QED BY <1>0, <2>1, <2>2 DEF HostsKnown
<1> QED BY <1>1, <1>2, <1>3 DEF IdentityStep

LEMMA HostsKeptByCall ==
  ASSUME IdentityInv, HostsKnown, NEW c \in Callers, CallIdentity(c), trusts' = trusts
  PROVE  HostsKnown'
<1>1. ASSUME NEW d \in Callers, identity'[d].pc = "done"
      PROVE  identity[d].pc = "done" /\ identity'[d].host = identity[d].host
  <2>1. IdentityTypes /\ identity[d] \in Entry
    BY DEF IdentityInv, IdentityTypes, Entry
  <2>2. CASE d = c
    BY <1>1, <2>2 DEF CallIdentity, NoCall
  <2>3. CASE d # c /\ Busy(d)
    <3>1. identity'[d] = [identity[d] EXCEPT !.alone = FALSE]
      BY <2>3 DEF CallIdentity
    <3> QED BY <1>1, <2>1, <3>1 DEF Entry
  <2>4. CASE d # c /\ ~Busy(d)
    BY <1>1, <2>4 DEF CallIdentity
  <2> QED BY <2>2, <2>3, <2>4
<1> QED BY <1>1 DEF HostsKnown

(* A step of others that leaves the record alone, or disturbs the lookup.  *)
LEMMA FoundKept ==
  ASSUME FoundInv, HostsKnown', UNCHANGED <<hostIds, macs>>,
         \/ UNCHANGED lookup
         \/ \E p \in Phones \cup {None} : Disturb(p),
         lookup'.sure => \A q \in Phones : q = lookup.phone =>
                           disk'[q] = disk[q] /\ trusts[q] \subseteq trusts'[q]
  PROVE  FoundInv'
<1>1. /\ lookup' \in LookupType
      /\ lookup'.pc = lookup.pc /\ lookup'.phone = lookup.phone /\ lookup'.left = lookup.left
      /\ lookup'.sure => lookup.sure
  <2>1. CASE UNCHANGED lookup
    BY <2>1 DEF FoundInv
  <2>2. CASE \E p \in Phones \cup {None} : Disturb(p)
    BY <2>2 DEF Disturb, FoundInv, LookupType
  <2> QED BY <2>1, <2>2
<1>2. ASSUME lookup'.pc = "caching", lookup'.sure
      PROVE  /\ Bound(lookup.phone)'
             /\ lookup'.phone \notin lookup'.left => Cached(lookup.phone)'
  <2>1. /\ lookup.phone \in Phones /\ Bound(lookup.phone)
        /\ lookup.phone \notin lookup.left => Cached(lookup.phone)
    BY <1>1, <1>2 DEF FoundInv
  <2>2. /\ disk'[lookup.phone] = disk[lookup.phone]
        /\ trusts[lookup.phone] \subseteq trusts'[lookup.phone]
    BY <1>2, <2>1
  <2> QED BY <1>1, <2>1, <2>2 DEF Bound, Cached
<1> QED BY <1>1, <1>2 DEF FoundInv, Bound, Cached, PairedPhoneFound

LEMMA FoundKeptByPairing ==
  ASSUME IdentityInv, FoundInv, NEW p \in Phones, PairingStep(p)
  PROVE  FoundInv'
<1>0. /\ p \in Callers /\ disk \in [Files -> [state : {"absent", "torn", "whole"},
                                               host : Hosts, buid : Hosts]]
      /\ identity[p].host \in Hosts /\ trusts \in [Phones -> SUBSET (Hosts \ {None})]
      /\ \A q \in Phones : q \in Files
  BY DEF IdentityInv, IdentityTypes, FoundInv, HostsKnown, Callers, Files
<1>1. UNCHANGED <<hostIds, macs>>
  BY DEF PairingStep, PlugIn, Trusted, PairingFails, WritePairing, Forget
<1>2. CASE PlugIn(p)
  <2>1. HostsKnown'
    <3>1. trusts' = trusts /\ (CallIdentity(p) \/ UNCHANGED identity)
      BY <1>2 DEF PlugIn
    <3>2. CASE UNCHANGED identity
      BY <3>1, <3>2 DEF FoundInv, HostsKnown
    <3> QED BY <1>0, <3>1, <3>2, HostsKeptByCall DEF FoundInv
  <2>2. trusts' = trusts
    BY <1>2 DEF PlugIn
  <2>3. CASE UNCHANGED <<disk, lookup>>
    BY <1>1, <2>1, <2>2, <2>3, FoundKept
  <2>4. CASE disk' = [disk EXCEPT ![p] = Absent] /\ Disturb(p)
    <3>1. lookup'.sure => p # lookup.phone
      BY <2>4 DEF Disturb, FoundInv, LookupType
    <3> QED BY <1>0, <1>1, <2>1, <2>2, <2>4, <3>1, FoundKept
  <2> QED BY <1>2, <2>3, <2>4 DEF PlugIn
<1>3. CASE Trusted(p)
  <2>1. identity[p].host # None
    BY <1>0, <1>3 DEF Trusted, FoundInv, HostsKnown
  <2>2. /\ trusts' \in [Phones -> SUBSET (Hosts \ {None})]
        /\ \A q \in Phones : trusts[q] \subseteq trusts'[q]
    BY <1>0, <1>3, <2>1 DEF Trusted
  <2>3. UNCHANGED <<disk, identity, lookup>>
    BY <1>3 DEF Trusted
  <2>4. HostsKnown'
    BY <2>2, <2>3 DEF FoundInv, HostsKnown
  <2> QED BY <1>1, <2>2, <2>3, <2>4, FoundKept
<1>4. CASE PairingFails(p)
  <2>1. UNCHANGED <<disk, trusts, identity, lookup>>
    BY <1>4 DEF PairingFails
  <2>2. HostsKnown'
    BY <2>1 DEF FoundInv, HostsKnown
  <2> QED BY <1>1, <2>1, <2>2, FoundKept
<1>5. CASE WritePairing(p)
  <2>1. /\ UNCHANGED <<trusts, identity>> /\ Disturb(p)
        /\ disk' = [disk EXCEPT ![p] = Torn] \/ disk' = [disk EXCEPT ![p] = Whole(identity[p].host, None)]
    BY <1>5 DEF WritePairing, Truncate, SaveRecord
  <2>2. HostsKnown'
    BY <2>1 DEF FoundInv, HostsKnown
  <2>3. lookup'.sure => p # lookup.phone
    BY <2>1 DEF Disturb, FoundInv, LookupType
  <2> QED BY <1>0, <1>1, <2>1, <2>2, <2>3, FoundKept
<1>6. CASE Forget(p)
  <2>1. UNCHANGED <<disk, identity>> /\ Disturb(p) /\ trusts' = [trusts EXCEPT ![p] = {}]
    BY <1>6 DEF Forget
  <2>2. HostsKnown'
    BY <1>0, <2>1 DEF FoundInv, HostsKnown
  <2>3. lookup'.sure => p # lookup.phone
    BY <2>1 DEF Disturb, FoundInv, LookupType
  <2> QED BY <1>0, <1>1, <2>1, <2>2, <2>3, FoundKept
<1> QED BY <1>2, <1>3, <1>4, <1>5, <1>6 DEF PairingStep

LEMMA FoundKeptByLookup ==
  ASSUME IdentityInv, FoundInv, MdnsStep
  PROVE  FoundInv'
<1>0. /\ UNCHANGED <<disk, trusts, identity>> /\ lookup \in LookupType
      /\ \A q \in Phones : q \in Files /\ trusts[q] \subseteq Hosts \ {None}
  BY DEF MdnsStep, Resolve, CacheFile, MatchAgain, Reported, FoundInv, HostsKnown, Files
<1>1. HostsKnown'
  BY <1>0 DEF FoundInv, HostsKnown
<1>2. ASSUME NEW p \in Phones, NEW by \in {"txt", "mac"}, Resolve(p, by) PROVE FoundInv'
  <2> DEFINE new == [NoLookup EXCEPT !.phone = p, !.by = by, !.sure = Bound(p)]
             hit == Matching(p, by, hostIds, macs)
  <2>1. /\ UNCHANGED <<hostIds, macs>>
        /\ \/ \E f \in hit : lookup' = [new EXCEPT !.pc = "found", !.found = f]
           \/ lookup' = [new EXCEPT !.pc = "caching", !.left = Files]
    BY <1>2 DEF Resolve, Bound
  <2>2. \A f \in hit : f \in Files
    BY <1>0 DEF Matching, FoundInv
  <2>3. Bound(p) \in BOOLEAN
    BY DEF Bound
  <2>4. CASE \E f \in hit : lookup' = [new EXCEPT !.pc = "found", !.found = f]
    <3>1. lookup' \in LookupType /\ lookup'.pc = "found"
      BY <2>2, <2>3, <2>4 DEF LookupType, NoLookup
    <3> QED BY <1>1, <2>1, <3>1 DEF FoundInv, PairedPhoneFound
  <2>5. CASE lookup' = [new EXCEPT !.pc = "caching", !.left = Files]
    <3>1. /\ lookup' \in LookupType /\ lookup'.pc = "caching" /\ lookup'.phone = p
          /\ lookup'.left = Files /\ lookup'.sure = Bound(p)
      BY <2>3, <2>5 DEF LookupType, NoLookup
    <3>2. Bound(p)' = Bound(p)
      BY <1>0 DEF Bound
    <3>3. lookup'.sure => Bound(p)'
      BY <3>1, <3>2
    <3> QED BY <1>0, <1>1, <2>1, <3>1, <3>3 DEF FoundInv, PairedPhoneFound, Bound
  <2> QED BY <2>1, <2>4, <2>5
<1>3. ASSUME NEW f \in Files, CacheFile(f) PROVE FoundInv'
  <2>0. PICK p \in Phones : p = lookup.phone
    BY <1>3 DEF CacheFile, FoundInv
  <2>1. /\ lookup.pc = "caching" /\ lookup' \in LookupType /\ lookup'.pc = "caching"
        /\ lookup'.phone = p /\ lookup'.left = lookup.left \ {f} /\ lookup'.sure = lookup.sure
    BY <1>0, <1>3, <2>0 DEF CacheFile, LookupType
  <2>2. /\ DOMAIN hostIds' \subseteq Files
        /\ \A g \in DOMAIN hostIds : g \in DOMAIN hostIds' /\ (g # f => hostIds'[g] = hostIds[g])
        /\ disk[f].host # None => f \in DOMAIN hostIds' /\ hostIds'[f] = disk[f].host
        /\ macs \subseteq macs'
        /\ f \in Phones /\ disk[f].state = "whole" => f \in macs'
    BY <1>3 DEF CacheFile, FoundInv
  <2>3. ASSUME lookup'.sure
        PROVE  Bound(p)' /\ (p \notin lookup'.left => Cached(p)')
    <3>1. Bound(p) /\ (p \notin lookup.left => Cached(p))
      BY <2>0, <2>1, <2>3 DEF FoundInv
    <3>2. Bound(p)' /\ disk[p].host # None
      BY <1>0, <2>1, <3>1 DEF Bound
    <3>3. CASE p = f
      <4>1. /\ p \in DOMAIN hostIds' /\ hostIds'[p] = disk[p].host /\ p \in macs'
            /\ disk' = disk
        BY <1>0, <2>1, <2>2, <3>1, <3>2, <3>3 DEF Bound
      <4> QED BY <3>2, <4>1 DEF Cached
    <3>4. CASE p # f
      <4>1. p \notin lookup'.left => p \notin lookup.left
        BY <2>1, <3>4
      <4>2. Cached(p) => Cached(p)'
        BY <1>0, <2>2, <3>4 DEF Cached
      <4> QED BY <3>1, <3>2, <4>1, <4>2
    <3> QED BY <3>2, <3>3, <3>4
  <2> QED BY <1>1, <2>0, <2>1, <2>2, <2>3 DEF FoundInv, PairedPhoneFound, Bound, Cached
<1>4. CASE MatchAgain
  <2> DEFINE hit == Matching(lookup.phone, lookup.by, hostIds, macs)
  <2>1. /\ UNCHANGED <<hostIds, macs>> /\ lookup.pc = "caching" /\ lookup.left = {}
        /\ lookup.phone \in Phones
        /\ \/ \E f \in hit : lookup' = [lookup EXCEPT !.pc = "found", !.found = f]
           \/ hit = {} /\ lookup' = [lookup EXCEPT !.pc = "unknown"]
    BY <1>4 DEF MatchAgain, FoundInv
  <2>2. \A f \in hit : f \in Files
    BY <1>0, <2>1 DEF Matching, FoundInv
  <2>3. CASE \E f \in hit : lookup' = [lookup EXCEPT !.pc = "found", !.found = f]
    <3>1. lookup' \in LookupType /\ lookup'.pc = "found"
      BY <1>0, <2>2, <2>3 DEF LookupType
    <3> QED BY <1>1, <2>1, <3>1 DEF FoundInv, PairedPhoneFound
  <2>4. CASE hit = {} /\ lookup' = [lookup EXCEPT !.pc = "unknown"]
    <3>1. /\ lookup' \in LookupType /\ lookup'.pc = "unknown" /\ lookup'.phone = lookup.phone
          /\ lookup'.sure = lookup.sure
      BY <1>0, <2>4 DEF LookupType
    <3>2. ~lookup.sure
      <4> SUFFICES ASSUME lookup.sure PROVE FALSE
        OBVIOUS
      <4>1. Bound(lookup.phone) /\ Cached(lookup.phone)
        BY <2>1 DEF FoundInv
      <4>2. lookup.phone \in hit
        BY <4>1 DEF Bound, Cached, Matching
      <4> QED BY <2>4, <4>2
    <3> QED BY <1>1, <2>1, <3>1, <3>2 DEF FoundInv, PairedPhoneFound
  <2> QED BY <2>1, <2>3, <2>4
<1>5. CASE Reported
  <2>1. /\ lookup' \in LookupType /\ lookup'.pc = "idle" /\ UNCHANGED <<hostIds, macs>>
    BY <1>5 DEF Reported, NoLookup, LookupType
  <2> QED BY <1>1, <2>1 DEF FoundInv, PairedPhoneFound
<1> QED BY <1>2, <1>3, <1>4, <1>5 DEF MdnsStep

LEMMA FoundStarts == StoreInit => FoundInv
<1> SUFFICES ASSUME StoreInit PROVE FoundInv
  OBVIOUS
<1>1. /\ trusts \in [Phones -> {{}, {AnotherHost}}] /\ AnotherHost \in Hosts \ {None}
      /\ \A c \in Callers : identity[c].pc = "idle"
  BY StoreAssumption DEF StoreInit, NoCall, Hosts
<1>2. HostsKnown
  BY <1>1 DEF HostsKnown
<1>3. lookup \in LookupType /\ lookup.pc = "idle" /\ DOMAIN hostIds \subseteq Files
  BY DEF StoreInit, NoLookup, LookupType
<1> QED BY <1>2, <1>3 DEF FoundInv, PairedPhoneFound

(* Calls for the host identity change the host's own file at most.         *)
LEMMA FoundKeptByCalls ==
  ASSUME IdentityInv, FoundInv, NEW c \in Callers, IdentityStep(c) \/ CallIdentity(c),
         IdentityStep(c) \/ UNCHANGED <<disk, trusts, hostIds, macs, lookup>>
  PROVE  FoundInv'
<1>1. HostsKnown'
  BY HostsKept, HostsKeptByCall DEF FoundInv
<1>2. /\ UNCHANGED <<trusts, hostIds, macs, lookup>>
      /\ \A q \in Phones : disk'[q] = disk[q]
  <2>1. \A q \in Phones : q # SystemConfiguration /\ q \in Files
    BY StoreAssumption DEF Files
  <2>2. DOMAIN disk = Files
    BY DEF IdentityInv, IdentityTypes
  <2> QED BY <2>1, <2>2 DEF IdentityStep, ReadIdentity, TruncateIdentity, WriteIdentity,
        WriteIdentityFails
<1> QED BY <1>1, <1>2, FoundKept

LEMMA FoundInvKept == IdentityInv /\ FoundInv /\ [StoreNext]_storeVars => FoundInv'
<1> SUFFICES ASSUME IdentityInv, FoundInv, [StoreNext]_storeVars PROVE FoundInv'
  OBVIOUS
<1>1. ASSUME NEW c \in Callers, IdentityStep(c) PROVE FoundInv'
  BY <1>1, FoundKeptByCalls
<1>2. ASSUME NEW c \in Readers, ReadBuid(c) PROVE FoundInv'
  BY <1>2, FoundKeptByCalls DEF ReadBuid, Callers
<1>3. CASE UNCHANGED storeVars
  <2>1. HostsKnown'
    BY <1>3 DEF storeVars, FoundInv, HostsKnown
  <2> QED BY <1>3, <2>1, FoundKept DEF storeVars
<1> QED BY <1>1, <1>2, <1>3, FoundKeptByPairing, FoundKeptByLookup DEF StoreNext

(* A phone whose record is on disk, whole and valid, while it is looked up *)
(* is not reported unknown, whatever an earlier pass left in the caches    *)
(* and whichever phones are paired meanwhile (find_udid_from_txt,          *)
(* get_udid_from_mac, update_cache).                                       *)
THEOREM PairedPhonesFound == StoreSpec => []PairedPhoneFound
<1>1. StoreInit => IdentityInv /\ FoundInv
  BY IdentityStarts, FoundStarts
<1>2. IdentityInv /\ FoundInv /\ [StoreNext]_storeVars => IdentityInv' /\ FoundInv'
  BY IdentityInvKept, FoundInvKept
<1>3. FoundInv => PairedPhoneFound
  BY DEF FoundInv
<1> QED BY <1>1, <1>2, <1>3, PTL DEF StoreSpec
-----------------------------------------------------------------------------
(* Clients. *)

RequestType == [kind : Kinds \cup {"none"}, id : Nat, phone : Phones \cup {None},
                owner : {"none", "manager", "upstream"}]

(* A request was read and is not answered yet. *)
Serving == {"forward", "awaiting", "local", "saving", "identity", "lookup", "dialing",
            "handover", "listen"}
Places == Serving \cup {"waiting", "closed", "spliced", "tunnel", "subscribing", "listening"}
ByManager == {"lookup", "dialing", "spliced"}
ByUpstream == {"handover", "tunnel"}

SessionType == [pc : Places, request : RequestType, epoch : Nat]

SessionTypes ==
  /\ scene \in Scenes
  /\ announced \subseteq LocalIds
  /\ upstream \in [up : BOOLEAN, devices : SUBSET UpIds, epoch : Nat]
  /\ session \in [Sessions -> SessionType]
  /\ asked \in [Sessions -> Seq(Kinds)]
  /\ replies \in [Sessions -> Seq(Nat)]

(* Every request before n, or with a type that is known, has its answer.   *)
AnsweredBefore(c, n) ==
  \A t \in 1..(n - 1) : asked[c][t] # "Unknown" => t \in Range(replies[c])

(* The answers of a session are increasing and name requests that were     *)
(* read; the last request is the one it serves, and has no answer.         *)
InTurn(c) ==
  /\ \A i \in DOMAIN replies[c] : replies[c][i] \in 1..Len(asked[c])
  /\ \A i, j \in DOMAIN replies[c] : i < j => replies[c][i] < replies[c][j]
  /\ At(c, "waiting") => AnsweredBefore(c, Len(asked[c]) + 1)
  /\ session[c].pc \in Serving \cup {"tunnel"} => Len(asked[c]) > 0
  /\ session[c].pc \in Serving =>
       /\ asked[c][Len(asked[c])] = Request(c).kind
       /\ Len(asked[c]) \notin Range(replies[c])
       /\ AnsweredBefore(c, Len(asked[c]))

SessionInv == SessionTypes /\ RoutedToOwner /\ \A c \in Sessions : InTurn(c)
-----------------------------------------------------------------------------
(* How a step moves a session.                                             *)

(* Only c moves, to pc, with the request it has. *)
Moved(c, pc) ==
  /\ \A d \in Sessions \ {c} :
       session'[d] = session[d] /\ asked'[d] = asked[d] /\ replies'[d] = replies[d]
  /\ session'[c].pc = pc /\ session'[c].request = session[c].request
  /\ asked'[c] = asked[c]
  /\ pc \in ByManager => session[c].pc \in ByManager
  /\ pc \in ByUpstream => session[c].pc \in ByUpstream

Answered(c, pc) ==
  /\ Moved(c, pc) /\ pc \notin Serving
  /\ \/ session[c].pc \in Serving
     \/ session[c].pc = "tunnel" /\ pc = "tunnel" /\ Len(asked[c]) \notin Range(replies[c])
  /\ replies'[c] = Append(replies[c], Len(asked[c]))

Unanswered(c, pc) ==
  /\ Moved(c, pc) /\ replies'[c] = replies[c]
  /\ \/ pc \notin Serving \cup {"waiting", "tunnel"}
     \/ pc \in Serving \cup {"tunnel"} /\ session[c].pc \in Serving
     \/ pc = "waiting" /\ session[c].pc \in Serving /\ Request(c).kind = "Unknown"

Asked(c, r) ==
  /\ At(c, "waiting")
  /\ \A d \in Sessions \ {c} : session'[d] = session[d] /\ asked'[d] = asked[d]
  /\ replies' = replies
  /\ asked'[c] = Append(asked[c], r.kind)
  /\ session'[c].pc = First(r) /\ session'[c].request = r

LEMMA IdsOfMuxers ==
  /\ Base \in Nat /\ UpIds \subseteq Nat /\ \A id \in UpIds : id < Base
  /\ \A s \in Scenes : s.shim \in BOOLEAN /\ s.kinds \subseteq Kinds
<1> QED BY SessionAssumption

LEMMA RequestsTyped ==
  ASSUME SessionTypes, NEW r \in Requests
  PROVE  /\ r \in RequestType /\ r.kind \in Kinds
         /\ r.kind = "Connect" => r.owner = IF ForUpstream(r.id) THEN "upstream" ELSE "manager"
<1>0. /\ scene.shim \in BOOLEAN /\ scene.kinds \subseteq Kinds
      /\ Base \in Nat /\ UpIds \subseteq Nat /\ \A id \in UpIds : id < Base
      /\ LocalDevices \in Nat
  BY IdsOfMuxers, SessionAssumption DEF SessionTypes
<1>1. \A id \in announced : id \in Nat /\ (scene.shim => id >= Base)
  BY <1>0 DEF SessionTypes, LocalIds, FirstId
<1>2. CASE r.kind # "Connect"
  BY <1>0, <1>2 DEF Requests, RequestType
<1>3. CASE r.kind = "Connect"
  <2>1. PICK id, o : /\ r = [kind |-> "Connect", id |-> id, phone |-> None, owner |-> o]
                     /\ \/ id \in announced /\ o = "manager"
                        \/ id \in UpIds /\ o = "upstream" /\ scene.shim
    BY <1>0, <1>3 DEF Requests
  <2>2. CASE id \in announced /\ o = "manager"
    <3>1. id \in Nat /\ ~ForUpstream(id)
      BY <1>0, <1>1, <2>2 DEF ForUpstream
    <3> QED BY <1>3, <2>1, <2>2, <3>1 DEF RequestType, Kinds
  <2>3. CASE id \in UpIds /\ o = "upstream" /\ scene.shim
    <3>1. id \in Nat /\ ForUpstream(id)
      BY <1>0, <2>3 DEF ForUpstream
    <3> QED BY <1>3, <2>1, <2>3, <3>1 DEF RequestType, Kinds
  <2> QED BY <2>1, <2>2, <2>3
<1> QED BY <1>2, <1>3

LEMMA FirstPlaces ==
  ASSUME SessionTypes, NEW r \in Requests
  PROVE  /\ First(r) \in Places /\ First(r) \notin {"spliced", "tunnel", "listening"}
         /\ First(r) = "waiting" => r.kind = "Unknown"
         /\ First(r) \in ByManager => r.kind = "Connect" /\ ~ForUpstream(r.id)
         /\ First(r) \in ByUpstream => r.kind = "Connect" /\ ForUpstream(r.id)
<1>1. r.kind \in Kinds /\ scene.shim \in BOOLEAN
  BY RequestsTyped, IdsOfMuxers DEF SessionTypes
<1> DEFINE up == ForUpstream(r.id)
           shim == scene.shim
<1>2. First(r) = CASE r.kind = "Malformed" -> "closed"
                   [] r.kind = "Listen" -> "listen"
                   [] r.kind = "Connect" -> IF up THEN "handover" ELSE "lookup"
                   [] r.kind = "Unknown" /\ ~shim -> "waiting"
                   [] OTHER -> IF shim THEN "forward" ELSE "local"
  BY DEF First
<1>3. up \in BOOLEAN
  BY <1>1 DEF ForUpstream
<1> HIDE DEF up, shim
<1> QED BY <1>1, <1>2, <1>3 DEF First, Kinds, Places, Serving, ByManager, ByUpstream, up

LEMMA GotoMoves ==
  ASSUME SessionTypes, NEW c \in Sessions, NEW pc \in Places, Goto(c, pc)
  PROVE  /\ session' \in [Sessions -> SessionType]
         /\ \A d \in Sessions \ {c} : session'[d] = session[d]
         /\ session'[c].pc = pc /\ session'[c].request = session[c].request
<1>1. /\ session \in [Sessions -> SessionType] /\ session[c] \in SessionType
      /\ session' = [session EXCEPT ![c] = [session[c] EXCEPT !.pc = pc]]
  BY DEF SessionTypes, Goto
<1>2. /\ [session[c] EXCEPT !.pc = pc] \in SessionType
      /\ [session[c] EXCEPT !.pc = pc].pc = pc
      /\ [session[c] EXCEPT !.pc = pc].request = session[c].request
  BY <1>1 DEF SessionType
<1> QED BY <1>1, <1>2

(* The same, for a session that connects to the upstream. *)
LEMMA ConnectMoves ==
  ASSUME SessionTypes, NEW c \in Sessions, NEW pc \in Places,
         session' = [session EXCEPT ![c].pc = pc, ![c].epoch = upstream.epoch]
  PROVE  /\ session' \in [Sessions -> SessionType]
         /\ \A d \in Sessions \ {c} : session'[d] = session[d]
         /\ session'[c].pc = pc /\ session'[c].request = session[c].request
<1>1. /\ session \in [Sessions -> SessionType] /\ session[c] \in SessionType
      /\ upstream.epoch \in Nat
      /\ session' = [session EXCEPT ![c] = [session[c] EXCEPT !.pc = pc, !.epoch = upstream.epoch]]
  BY DEF SessionTypes
<1> DEFINE r == [session[c] EXCEPT !.pc = pc, !.epoch = upstream.epoch]
<1>2. r \in SessionType /\ r.pc = pc /\ r.request = session[c].request
  BY <1>1 DEF SessionType
<1> QED BY <1>1, <1>2

LEMMA ReplyAppends ==
  ASSUME SessionTypes, NEW c \in Sessions, Reply(c)
  PROVE  /\ replies' \in [Sessions -> Seq(Nat)]
         /\ \A d \in Sessions \ {c} : replies'[d] = replies[d]
         /\ replies'[c] = Append(replies[c], Len(asked[c]))
<1>1. replies[c] \in Seq(Nat) /\ Len(asked[c]) \in Nat
  BY DEF SessionTypes
<1>2. Append(replies[c], Len(asked[c])) \in Seq(Nat)
  BY <1>1
<1> QED BY <1>1, <1>2 DEF SessionTypes, Reply

(* What a step of a session that stays with its request comes to.          *)
Stays(c) == \E pc \in Places : Answered(c, pc) \/ Unanswered(c, pc)

LEMMA AnswerGoto ==
  ASSUME SessionTypes, NEW c \in Sessions, NEW pc \in Places,
         Reply(c), Goto(c, pc), UNCHANGED asked,
         session[c].pc \in Serving, pc \notin Serving,
         pc \in ByManager => session[c].pc \in ByManager,
         pc \in ByUpstream => session[c].pc \in ByUpstream
  PROVE  Stays(c) /\ session' \in [Sessions -> SessionType] /\ replies' \in [Sessions -> Seq(Nat)]
<1> QED BY GotoMoves, ReplyAppends DEF Stays, Answered, Moved

LEMMA SilentGoto ==
  ASSUME SessionTypes, NEW c \in Sessions, NEW pc \in Places,
         Goto(c, pc) \/ session' = [session EXCEPT ![c].pc = pc, ![c].epoch = upstream.epoch],
         UNCHANGED <<asked, replies>>,
         \/ pc \notin Serving \cup {"waiting", "tunnel"}
         \/ pc \in Serving \cup {"tunnel"} /\ session[c].pc \in Serving
         \/ pc = "waiting" /\ session[c].pc \in Serving /\ Request(c).kind = "Unknown",
         pc \in ByManager => session[c].pc \in ByManager,
         pc \in ByUpstream => session[c].pc \in ByUpstream
  PROVE  Stays(c) /\ session' \in [Sessions -> SessionType] /\ replies' \in [Sessions -> Seq(Nat)]
<1>1. replies' \in [Sessions -> Seq(Nat)]
  BY DEF SessionTypes
<1>2. /\ session' \in [Sessions -> SessionType]
      /\ \A d \in Sessions \ {c} : session'[d] = session[d]
      /\ session'[c].pc = pc /\ session'[c].request = session[c].request
  BY GotoMoves, ConnectMoves
<1> QED BY <1>1, <1>2 DEF Stays, Unanswered, Moved

Typed == session' \in [Sessions -> SessionType] /\ replies' \in [Sessions -> Seq(Nat)]

(* The cases of SilentGoto that occur.                                     *)
LEMMA EndsGoto ==
  ASSUME SessionTypes, NEW c \in Sessions, NEW pc \in {"closed", "listening"}, Goto(c, pc),
         UNCHANGED asked, UNCHANGED replies
  PROVE  Stays(c) /\ Typed
<1>1. /\ pc \in Places /\ pc \notin Serving \cup {"waiting", "tunnel"}
      /\ pc \notin ByManager /\ pc \notin ByUpstream
  BY DEF Places, Serving, ByManager, ByUpstream
<1> QED BY <1>1, SilentGoto DEF Typed

LEMMA ServesGoto ==
  ASSUME SessionTypes, NEW c \in Sessions,
         NEW pc \in {"local", "saving", "identity", "dialing"}, Goto(c, pc),
         UNCHANGED asked, UNCHANGED replies, session[c].pc \in Serving,
         pc = "dialing" => session[c].pc = "lookup"
  PROVE  Stays(c) /\ Typed
<1>1. /\ pc \in Places /\ pc \in Serving /\ pc \notin ByUpstream
      /\ pc \in ByManager => session[c].pc \in ByManager
  BY DEF Places, Serving, ByManager, ByUpstream
<1> QED BY <1>1, SilentGoto DEF Typed

LEMMA ServesConnecting ==
  ASSUME SessionTypes, NEW c \in Sessions, NEW pc \in {"awaiting", "tunnel"},
         session' = [session EXCEPT ![c].pc = pc, ![c].epoch = upstream.epoch],
         UNCHANGED asked, UNCHANGED replies, session[c].pc \in Serving,
         pc = "tunnel" => session[c].pc = "handover"
  PROVE  Stays(c) /\ Typed
<1>1. /\ pc \in Places /\ pc \in Serving \cup {"tunnel"} /\ pc \notin ByManager
      /\ pc \in ByUpstream => session[c].pc \in ByUpstream
  BY DEF Places, Serving, ByManager, ByUpstream
<1> QED BY <1>1, SilentGoto DEF Typed

LEMMA SkipsGoto ==
  ASSUME SessionTypes, NEW c \in Sessions, Goto(c, "waiting"),
         UNCHANGED asked, UNCHANGED replies, session[c].pc \in Serving,
         Request(c).kind = "Unknown"
  PROVE  Stays(c) /\ Typed
<1>1. "waiting" \in Places /\ "waiting" \notin ByManager \cup ByUpstream
  BY DEF Places, ByManager, ByUpstream
<1> QED BY <1>1, SilentGoto DEF Typed

(* One lemma per group of steps: forwarding, local answers, Connect, Listen. *)
LEMMA ForwardStays ==
  ASSUME SessionTypes, NEW c \in Sessions, Forward(c) \/ UpstreamAnswers(c) \/ UpstreamLost(c)
  PROVE  Stays(c) /\ Typed
<1> USE DEF Typed, Places, Serving, ByManager, ByUpstream
<1>1. ASSUME FallBack(c), session[c].pc \in {"forward", "awaiting"}, UNCHANGED <<asked, replies>>
      PROVE  Stays(c) /\ Typed
  <2>1. CASE Request(c).kind = "Unknown" /\ Goto(c, "waiting")
    BY <1>1, <2>1, SkipsGoto
  <2>2. CASE Goto(c, "local")
    BY <1>1, <2>2, ServesGoto
  <2> QED BY <1>1, <2>1, <2>2 DEF FallBack
<1>2. CASE Forward(c)
  <2>1. CASE session' = [session EXCEPT ![c].pc = "awaiting", ![c].epoch = upstream.epoch]
    BY <1>2, <2>1, ServesConnecting DEF Forward, At, SessionStep
  <2>2. CASE FallBack(c)
    BY <1>1, <1>2, <2>2 DEF Forward, At, SessionStep
  <2> QED BY <1>2, <2>1, <2>2 DEF Forward
<1>3. CASE UpstreamAnswers(c)
  BY <1>3, AnswerGoto DEF UpstreamAnswers, At, SessionStep
<1>4. CASE UpstreamLost(c)
  BY <1>1, <1>4 DEF UpstreamLost, At, SessionStep
<1> QED BY <1>2, <1>3, <1>4

LEMMA LocalStays ==
  ASSUME SessionTypes, NEW c \in Sessions, LocalStep(c)
  PROVE  Stays(c) /\ Typed
<1> USE DEF Typed, Places, Serving, ByManager, ByUpstream
<1>1. session[c].pc \in {"local", "saving", "identity"} /\ UNCHANGED asked
  BY DEF LocalStep, AnswerListDevices, AnswerReadPairRecord, BeginSavePairRecord,
         EndSavePairRecord, BeginReadBuid, EndReadBuid, Local_, At, SessionStep
<1>2. \/ Reply(c) /\ Goto(c, "waiting")
      \/ UNCHANGED replies /\ (Goto(c, "closed") \/ Goto(c, "saving") \/ Goto(c, "identity"))
  BY DEF LocalStep, AnswerListDevices, AnswerReadPairRecord, BeginSavePairRecord,
         EndSavePairRecord, BeginReadBuid, EndReadBuid
<1>3. CASE Reply(c) /\ Goto(c, "waiting")
  BY <1>1, <1>3, AnswerGoto
<1>4. CASE UNCHANGED replies /\ Goto(c, "closed")
  BY <1>1, <1>4, EndsGoto
<1>5. CASE UNCHANGED replies /\ Goto(c, "saving")
  BY <1>1, <1>5, ServesGoto
<1>6. CASE UNCHANGED replies /\ Goto(c, "identity")
  BY <1>1, <1>6, ServesGoto
<1> QED BY <1>2, <1>3, <1>4, <1>5, <1>6

LEMMA ConnectStays ==
  ASSUME SessionTypes, NEW c \in Sessions, ConnectStep(c)
  PROVE  Stays(c) /\ Typed
<1> USE DEF Typed, Places, Serving, ByManager, ByUpstream
<1>0. UNCHANGED asked
  BY DEF ConnectStep, Lookup, Dial, HandOver, TunnelAnswers, SessionStep
<1>1. CASE Lookup(c)
  <2>1. CASE Goto(c, "dialing") /\ UNCHANGED replies
    BY <1>0, <1>1, <2>1, ServesGoto DEF Lookup, At
  <2>2. CASE Reply(c) /\ Goto(c, "waiting")
    BY <1>0, <1>1, <2>2, AnswerGoto DEF Lookup, At
  <2> QED BY <1>1, <2>1, <2>2 DEF Lookup
<1>2. CASE Dial(c)
  <2>1. CASE Goto(c, "spliced")
    BY <1>0, <1>2, <2>1, AnswerGoto DEF Dial, At
  <2>2. CASE Goto(c, "waiting")
    BY <1>0, <1>2, <2>2, AnswerGoto DEF Dial, At
  <2> QED BY <1>2, <2>1, <2>2 DEF Dial
<1>3. CASE HandOver(c)
  <2>1. CASE /\ session' = [session EXCEPT ![c].pc = "tunnel", ![c].epoch = upstream.epoch]
             /\ UNCHANGED replies
    BY <1>0, <1>3, <2>1, ServesConnecting DEF HandOver, At
  <2>2. CASE Reply(c) /\ Goto(c, "waiting")
    BY <1>0, <1>3, <2>2, AnswerGoto DEF HandOver, At
  <2> QED BY <1>3, <2>1, <2>2 DEF HandOver
<1>4. CASE TunnelAnswers(c)
  <2>1. Answered(c, "tunnel")
    BY <1>0, <1>4, ReplyAppends DEF TunnelAnswers, Answered, Moved, At
  <2>2. Typed
    BY <1>4, ReplyAppends DEF TunnelAnswers, SessionTypes
  <2> QED BY <2>1, <2>2 DEF Stays
<1> QED BY <1>1, <1>2, <1>3, <1>4 DEF ConnectStep

LEMMA ListenStays ==
  ASSUME SessionTypes, NEW c \in Sessions,
         Listen(c) \/ Subscribe(c) \/ ListenEnds(c) \/ ClientCloses(c)
  PROVE  Stays(c) /\ Typed
<1> USE DEF Typed, Places, Serving, ByManager, ByUpstream
<1>1. CASE Listen(c)
  BY <1>1, AnswerGoto DEF Listen, At, SessionStep
<1>2. CASE Subscribe(c)
  BY <1>2, EndsGoto DEF Subscribe
<1>3. CASE ListenEnds(c)
  BY <1>3, EndsGoto DEF ListenEnds
<1>4. CASE ClientCloses(c)
  BY <1>4, EndsGoto DEF ClientCloses
<1> QED BY <1>1, <1>2, <1>3, <1>4

LEMMA ReadAsks ==
  ASSUME SessionTypes, NEW c \in Sessions, ReadRequest(c)
  PROVE  /\ \E r \in Requests : Asked(c, r)
         /\ session' \in [Sessions -> SessionType] /\ asked' \in [Sessions -> Seq(Kinds)]
<1>1. PICK r \in Requests :
        /\ asked' = [asked EXCEPT ![c] = Append(@, r.kind)]
        /\ session' = [session EXCEPT ![c].pc = First(r), ![c].request = r]
  BY DEF ReadRequest
<1> DEFINE pc == First(r)
<1>2. r \in RequestType /\ r.kind \in Kinds /\ pc \in Places
  BY RequestsTyped, FirstPlaces
<1> HIDE DEF pc
<1>3. /\ session \in [Sessions -> SessionType] /\ session[c] \in SessionType
      /\ asked \in [Sessions -> Seq(Kinds)] /\ asked[c] \in Seq(Kinds)
  BY DEF SessionTypes
<1> DEFINE q == [session[c] EXCEPT !.pc = pc, !.request = r]
<1>4. session' = [session EXCEPT ![c] = q]
  BY <1>1, <1>3 DEF pc
<1>5. q \in SessionType /\ q.pc = pc /\ q.request = r
  BY <1>2, <1>3 DEF SessionType
<1> HIDE DEF q
<1>6. Append(asked[c], r.kind) \in Seq(Kinds)
  BY <1>2, <1>3
<1>7. Asked(c, r)
  BY <1>1, <1>3, <1>4, <1>5 DEF Asked, ReadRequest, pc
<1> QED BY <1>1, <1>3, <1>4, <1>5, <1>6, <1>7

(* What is around the sessions keeps its type.                             *)
LEMMA SessionActsLeave ==
  ASSUME NEW c \in Sessions,
         \/ ReadRequest(c) \/ Serve(c) \/ ClientCloses(c)
         \/ RelayLocal(c) \/ RelayUpstream(c) \/ ListenEnds(c) \/ PumpAct(c) \/ PumpAborted(c)
  PROVE  UNCHANGED scene /\ UNCHANGED announced /\ UNCHANGED upstream
<1>1. CASE Forward(c) \/ UpstreamAnswers(c) \/ UpstreamLost(c) \/ LocalStep(c)
  BY <1>1 DEF Forward, UpstreamAnswers, UpstreamLost, LocalStep, AnswerListDevices,
       AnswerReadPairRecord, BeginSavePairRecord, EndSavePairRecord, BeginReadBuid, EndReadBuid,
       SessionStep, managerVars
<1>2. CASE ConnectStep(c) \/ Listen(c)
  BY <1>2 DEF ConnectStep, Lookup, Dial, HandOver, TunnelAnswers, Listen,
       SessionStep, managerVars
<1>3. CASE Subscribe(c)
  BY <1>3 DEF Subscribe, Local!Join
<1>4. CASE ReadRequest(c) \/ ClientCloses(c) \/ RelayLocal(c) \/ RelayUpstream(c) \/ ListenEnds(c)
  BY <1>4 DEF ReadRequest, ClientCloses, RelayLocal, RelayUpstream, ListenEnds, managerVars
<1>5. CASE PumpAct(c) \/ PumpAborted(c)
  BY <1>5 DEF PumpAct, PumpConnects, PumpOpens, PumpReads, PumpDropped, PumpWakes, PumpAborted,
       PumpStep, managerVars
<1> QED BY <1>1, <1>2, <1>3, <1>4, <1>5 DEF Serve

LEMMA UpstreamTyped ==
  ASSUME SessionTypes,
         \/ \E id \in UpIds : UpstreamAttaches(id) \/ UpstreamDetaches(id)
         \/ UpstreamCrashes \/ UpstreamRestarts
         \/ \E c \in Sessions : StreamDrops(c) \/ FrameLost(c)
  PROVE  /\ upstream' \in [up : BOOLEAN, devices : SUBSET UpIds, epoch : Nat]
         /\ UNCHANGED scene /\ UNCHANGED announced /\ UNCHANGED <<session, asked, replies>>
<1> DEFINE Upstream == [up : BOOLEAN, devices : SUBSET UpIds, epoch : Nat]
<1>1. upstream \in Upstream
  BY DEF SessionTypes
<1>2. ASSUME NEW id \in UpIds, UpstreamAttaches(id) \/ UpstreamDetaches(id)
      PROVE  upstream' \in Upstream
  <2>1. \E S \in SUBSET UpIds : upstream' = [upstream EXCEPT !.devices = S]
    BY <1>1, <1>2 DEF UpstreamAttaches, UpstreamDetaches
  <2> QED BY <1>1, <2>1
<1>3. ASSUME UpstreamCrashes PROVE upstream' \in Upstream
  <2>1. \E u \in BOOLEAN, S \in SUBSET UpIds :
          upstream' = [upstream EXCEPT !.up = u, !.devices = S]
    BY <1>3 DEF UpstreamCrashes
  <2> QED BY <1>1, <2>1
<1>4. ASSUME UpstreamRestarts PROVE upstream' \in Upstream
  <2>1. \E S \in SUBSET UpIds :
          upstream' = [up |-> TRUE, devices |-> S, epoch |-> upstream.epoch + 1]
    BY <1>4 DEF UpstreamRestarts
  <2> QED BY <1>1, <2>1
<1>5. UNCHANGED scene /\ UNCHANGED announced /\ UNCHANGED <<session, asked, replies>>
  BY DEF UpstreamAttaches, UpstreamDetaches, UpstreamCrashes, UpstreamRestarts, StreamDrops,
         FrameLost, UpstreamStep, managerVars
<1>6. ASSUME NEW c \in Sessions, StreamDrops(c) \/ FrameLost(c) PROVE upstream' \in Upstream
  BY <1>1, <1>6 DEF StreamDrops, FrameLost
<1> QED BY <1>2, <1>3, <1>4, <1>5, <1>6

LEMMA NextMoves ==
  ASSUME SessionTypes, [Next]_vars
  PROVE  /\ SessionTypes' /\ UNCHANGED scene
         /\ \/ UNCHANGED <<session, asked, replies>>
            \/ \E c \in Sessions, r \in Requests : Asked(c, r)
            \/ \E c \in Sessions : Stays(c)
<1> DEFINE Around == UNCHANGED scene /\ announced' \subseteq LocalIds'
                       /\ upstream' \in [up : BOOLEAN, devices : SUBSET UpIds, epoch : Nat]
           Still == UNCHANGED <<session, asked, replies>>
<1>1. ASSUME UNCHANGED scene, UNCHANGED announced, UNCHANGED upstream PROVE Around
  BY <1>1 DEF SessionTypes, LocalIds, FirstId
<1>2. ASSUME Around, Still PROVE SessionTypes'
  BY <1>2 DEF SessionTypes
<1>3. ASSUME NEW c \in Sessions, ReadRequest(c)
      PROVE  SessionTypes' /\ Around /\ \E r \in Requests : Asked(c, r)
  BY <1>1, <1>3, ReadAsks, SessionActsLeave DEF SessionTypes, Asked
<1>4. ASSUME NEW c \in Sessions, Serve(c) \/ ClientCloses(c) \/ ListenEnds(c)
      PROVE  SessionTypes' /\ Around /\ Stays(c)
  <2>1. Stays(c) /\ Typed
    BY <1>4, ForwardStays, LocalStays, ConnectStays, ListenStays DEF Serve
  <2>2. Around
    BY <1>1, <1>4, SessionActsLeave
  <2>3. UNCHANGED asked
    BY <1>4 DEF Serve, Forward, UpstreamAnswers, UpstreamLost, LocalStep, AnswerListDevices,
       AnswerReadPairRecord, BeginSavePairRecord, EndSavePairRecord, BeginReadBuid, EndReadBuid,
       ConnectStep, Lookup, Dial, HandOver, TunnelAnswers, Listen, Subscribe,
       ClientCloses, ListenEnds, SessionStep
  <2> QED BY <2>1, <2>2, <2>3 DEF SessionTypes, Typed
<1>5. ASSUME NEW c \in Sessions,
             RelayLocal(c) \/ RelayUpstream(c) \/ PumpAct(c) \/ PumpAborted(c)
      PROVE  SessionTypes' /\ Around /\ Still
  <2>1. Still
    BY <1>5 DEF RelayLocal, RelayUpstream, PumpAct, PumpConnects, PumpOpens, PumpReads,
       PumpDropped, PumpWakes, PumpAborted, PumpStep
  <2> QED BY <1>1, <1>2, <1>5, <2>1, SessionActsLeave
<1>6. CASE \/ \E id \in UpIds : UpstreamAttaches(id) \/ UpstreamDetaches(id)
           \/ UpstreamCrashes \/ UpstreamRestarts
           \/ \E c \in Sessions : StreamDrops(c) \/ FrameLost(c)
  <2>1. Around /\ Still
    BY <1>6, UpstreamTyped DEF SessionTypes, LocalIds, FirstId
  <2> QED BY <1>2, <2>1
<1>7. CASE ManagerStep
  <2>1. Still /\ UNCHANGED <<scene, upstream>>
    BY <1>7 DEF ManagerStep
  <2>2. \E id \in LocalIds : announced' \subseteq announced \cup {id}
    BY <1>7 DEF ManagerStep, Local!Announce, Local!Withdraw
  <2>3. Around
    BY <2>1, <2>2 DEF SessionTypes, LocalIds, FirstId
  <2> QED BY <1>2, <2>1, <2>3
<1>8. CASE StoreStep \/ \E c \in Callers : IdentityCall(c)
  <2>1. Still /\ UNCHANGED scene /\ UNCHANGED announced /\ UNCHANGED upstream
    BY <1>8 DEF StoreStep, IdentityCall, managerVars
  <2> QED BY <1>1, <1>2, <2>1
<1>9. CASE UNCHANGED vars
  <2>1. Still /\ UNCHANGED scene /\ UNCHANGED announced /\ UNCHANGED upstream
    BY <1>9 DEF vars, managerVars
  <2> QED BY <1>1, <1>2, <2>1
<1> QED BY <1>3, <1>4, <1>5, <1>6, <1>7, <1>8, <1>9 DEF Next
-----------------------------------------------------------------------------
(* What such a move keeps.                                                 *)

LEMMA RoutedKept ==
  ASSUME SessionTypes, RoutedToOwner, UNCHANGED scene,
         \/ UNCHANGED <<session, asked, replies>>
         \/ \E c \in Sessions, r \in Requests : Asked(c, r)
         \/ \E c \in Sessions : Stays(c)
  PROVE  RoutedToOwner'
<1> DEFINE Right(c) == /\ session[c].pc \in ByUpstream => session[c].request.owner = "upstream"
                       /\ session[c].pc \in ByManager => session[c].request.owner = "manager"
<1>1. RoutedToOwner <=> \A c \in Sessions : Right(c)
  BY DEF RoutedToOwner, Request, ByManager, ByUpstream
<1>2. RoutedToOwner' <=> \A c \in Sessions : Right(c)'
  BY DEF RoutedToOwner, Request, ByManager, ByUpstream
<1>3. ASSUME NEW c \in Sessions, NEW r \in Requests, Asked(c, r), NEW d \in Sessions
      PROVE  Right(d)'
  <2>1. CASE d = c
    BY <1>3, <2>1, FirstPlaces, RequestsTyped DEF Asked
  <2>2. CASE d # c
    BY <1>1, <1>3, <2>2 DEF Asked
  <2> QED BY <2>1, <2>2
<1>4. ASSUME NEW c \in Sessions, Stays(c), NEW d \in Sessions
      PROVE  Right(d)'
  <2>1. PICK pc \in Places : Moved(c, pc)
    BY <1>4 DEF Stays, Answered, Unanswered
  <2> QED BY <1>1, <2>1 DEF Moved
<1> QED BY <1>1, <1>2, <1>3, <1>4

LEMMA UntouchedInTurn ==
  ASSUME NEW d \in Sessions, InTurn(d),
         session'[d] = session[d], asked'[d] = asked[d], replies'[d] = replies[d]
  PROVE  InTurn(d)'
<1> QED BY DEF InTurn, AnsweredBefore, At, Request

LEMMA AskedInTurn ==
  ASSUME SessionTypes, NEW c \in Sessions, NEW r \in Requests, InTurn(c), Asked(c, r)
  PROVE  InTurn(c)'
<1> DEFINE n == Len(asked[c])
           m == Len(asked'[c])
<1>1. /\ asked[c] \in Seq(Kinds) /\ r.kind \in Kinds /\ replies[c] \in Seq(Nat)
      /\ replies'[c] = replies[c] /\ asked'[c] = Append(asked[c], r.kind)
      /\ session'[c].pc = First(r) /\ session'[c].request = r
  BY RequestsTyped DEF Asked, SessionTypes
<1>2. n \in Nat /\ m = n + 1 /\ asked'[c][m] = r.kind /\ \A t \in 1..n : asked'[c][t] = asked[c][t]
  BY <1>1
<1>3. /\ \A i \in DOMAIN replies[c] : replies[c][i] \in 1..n
      /\ \A i, j \in DOMAIN replies[c] : i < j => replies[c][i] < replies[c][j]
      /\ \A t \in 1..n : asked[c][t] # "Unknown" => t \in Range(replies[c])
  BY <1>2 DEF InTurn, AnsweredBefore, Asked
<1> HIDE DEF n, m
<1>4. \A t \in 1..(m - 1) : asked'[c][t] # "Unknown" => t \in Range(replies'[c])
  <2>1. 1..(m - 1) = 1..n
    BY <1>2
  <2> QED BY <1>1, <1>2, <1>3, <2>1
<1>5. m \notin Range(replies'[c])
  BY <1>1, <1>2, <1>3 DEF Range
<1>6. First(r) = "waiting" => \A t \in 1..((m + 1) - 1) : asked'[c][t] # "Unknown" => t \in Range(replies'[c])
  BY <1>2, <1>4, FirstPlaces
<1>7. \A i \in DOMAIN replies'[c] : replies'[c][i] \in 1..m
  BY <1>1, <1>2, <1>3
<1> QED BY <1>1, <1>2, <1>3, <1>4, <1>5, <1>6, <1>7 DEF InTurn, AnsweredBefore, At, Request, n, m

LEMMA AnsweredInTurn ==
  ASSUME SessionTypes, NEW c \in Sessions, NEW pc \in Places, InTurn(c), Answered(c, pc)
  PROVE  InTurn(c)'
<1> DEFINE n == Len(asked[c])
           k == Len(replies[c])
<1>1. /\ replies[c] \in Seq(Nat) /\ k \in Nat /\ n \in Nat
      /\ asked'[c] = asked[c] /\ replies'[c] = Append(replies[c], n)
      /\ session'[c].pc = pc /\ pc \notin Serving
      /\ n > 0 /\ n \notin Range(replies[c])
      /\ pc = "waiting" => AnsweredBefore(c, n)
  BY DEF SessionTypes, Answered, Moved, InTurn, Serving
<1>2. /\ \A i \in 1..k : replies[c][i] \in 1..n
      /\ \A i, j \in 1..k : i < j => replies[c][i] < replies[c][j]
  BY <1>1 DEF InTurn
<1>3. /\ DOMAIN replies'[c] = 1..(k + 1) /\ replies'[c][k + 1] = n
      /\ \A i \in 1..k : replies'[c][i] = replies[c][i]
  BY <1>1
<1> HIDE DEF n, k
<1>4. \A i \in 1..k : replies[c][i] < n
  BY <1>1, <1>2 DEF Range, k
<1>5. \A i \in DOMAIN replies'[c] : replies'[c][i] \in 1..n
  BY <1>1, <1>2, <1>3
<1>6. \A i, j \in DOMAIN replies'[c] : i < j => replies'[c][i] < replies'[c][j]
  BY <1>1, <1>2, <1>3, <1>4
<1>7. /\ n \in Range(replies'[c])
      /\ \A t \in Range(replies[c]) : t \in Range(replies'[c])
  <2>1. DOMAIN replies[c] = 1..k
    BY <1>1 DEF k
  <2>2. k + 1 \in DOMAIN replies'[c] /\ replies'[c][k + 1] = n
    BY <1>1, <1>3
  <2>3. ASSUME NEW i \in DOMAIN replies[c]
        PROVE  i \in DOMAIN replies'[c] /\ replies'[c][i] = replies[c][i]
    BY <1>1, <1>3, <2>1
  <2> QED BY <2>2, <2>3 DEF Range
<1>8. pc = "waiting" => \A t \in 1..((n + 1) - 1) : asked'[c][t] # "Unknown" => t \in Range(replies'[c])
  <2>1. ASSUME pc = "waiting", NEW t \in 1..n, asked[c][t] # "Unknown"
        PROVE  t \in Range(replies'[c])
    BY <1>1, <1>7, <2>1 DEF AnsweredBefore
  <2> QED BY <1>1, <2>1
<1> QED BY <1>1, <1>5, <1>6, <1>8 DEF InTurn, AnsweredBefore, At, n

LEMMA UnansweredInTurn ==
  ASSUME SessionTypes, NEW c \in Sessions, NEW pc \in Places, InTurn(c), Unanswered(c, pc)
  PROVE  InTurn(c)'
<1> DEFINE n == Len(asked[c])
<1>1. /\ n \in Nat /\ asked'[c] = asked[c] /\ replies'[c] = replies[c]
      /\ session'[c].pc = pc /\ session'[c].request = session[c].request
      /\ \/ pc \notin Serving \cup {"waiting", "tunnel"}
         \/ pc \in Serving \cup {"tunnel"} /\ session[c].pc \in Serving
         \/ pc = "waiting" /\ session[c].pc \in Serving /\ Request(c).kind = "Unknown"
  BY DEF SessionTypes, Unanswered, Moved
<1>2. pc \in Serving \cup {"waiting", "tunnel"} =>
        /\ n > 0 /\ asked[c][n] = Request(c).kind /\ n \notin Range(replies[c])
        /\ AnsweredBefore(c, n)
  BY <1>1 DEF InTurn
<1>3. pc = "waiting" => AnsweredBefore(c, n + 1)
  <2>1. pc = "waiting" => asked[c][n] = "Unknown"
    BY <1>1, <1>2 DEF Serving
  <2> HIDE DEF n
  <2> QED BY <1>1, <1>2, <2>1 DEF AnsweredBefore
<1> QED BY <1>1, <1>2, <1>3 DEF InTurn, AnsweredBefore, At, Request, Serving

LEMMA InTurnKept ==
  ASSUME SessionTypes, \A c \in Sessions : InTurn(c),
         \/ UNCHANGED <<session, asked, replies>>
         \/ \E c \in Sessions, r \in Requests : Asked(c, r)
         \/ \E c \in Sessions : Stays(c)
  PROVE  \A c \in Sessions : InTurn(c)'
<1> TAKE d \in Sessions
<1>1. CASE UNCHANGED <<session, asked, replies>>
  BY <1>1, UntouchedInTurn
<1>2. ASSUME NEW c \in Sessions, NEW r \in Requests, Asked(c, r) PROVE InTurn(d)'
  <2>1. CASE d = c
    BY <1>2, <2>1, AskedInTurn
  <2>2. CASE d # c
    BY <1>2, <2>2, UntouchedInTurn DEF Asked
  <2> QED BY <2>1, <2>2
<1>3. ASSUME NEW c \in Sessions, Stays(c) PROVE InTurn(d)'
  <2>1. PICK pc \in Places : Answered(c, pc) \/ Unanswered(c, pc)
    BY <1>3 DEF Stays
  <2>2. CASE d = c
    BY <2>1, <2>2, AnsweredInTurn, UnansweredInTurn
  <2>3. CASE d # c
    BY <2>1, <2>3, UntouchedInTurn DEF Answered, Unanswered, Moved
  <2> QED BY <2>2, <2>3
<1> QED BY <1>1, <1>2, <1>3
-----------------------------------------------------------------------------
LEMMA SessionStarts == Init => SessionInv
<1> SUFFICES ASSUME Init PROVE SessionInv
  OBVIOUS
<1>1. /\ scene \in Scenes /\ scene.shim \in BOOLEAN /\ announced = {}
      /\ upstream = [up |-> scene.shim, devices |-> {}, epoch |-> 1]
      /\ session = [c \in Sessions |->
           [pc |-> "waiting", epoch |-> 0,
            request |-> [kind |-> "none", id |-> 0, phone |-> None, owner |-> "none"]]]
      /\ asked = [c \in Sessions |-> <<>>] /\ replies = [c \in Sessions |-> <<>>]
  BY IdsOfMuxers DEF Init, Local!Init, NoRequest
<1> DEFINE up == scene.shim
<1>2. up \in BOOLEAN /\ upstream = [up |-> up, devices |-> {}, epoch |-> 1]
  BY <1>1
<1>3. upstream \in [up : BOOLEAN, devices : SUBSET UpIds, epoch : Nat]
  <2> HIDE DEF up
  <2> QED BY <1>2
<1>4. \A c \in Sessions : session[c] \in SessionType
  BY <1>1 DEF SessionType, RequestType, Places
<1>5. SessionTypes
  BY <1>1, <1>3, <1>4 DEF SessionTypes
<1>6. \A c \in Sessions : session[c].pc = "waiting" /\ asked[c] = <<>> /\ replies[c] = <<>>
  BY <1>1
<1>7. RoutedToOwner
  BY <1>6 DEF RoutedToOwner
<1>8. \A c \in Sessions : InTurn(c)
  BY <1>6 DEF InTurn, AnsweredBefore, Serving
<1> QED BY <1>5, <1>7, <1>8 DEF SessionInv

LEMMA SessionInvKept == SessionInv /\ [Next]_vars => SessionInv'
<1> SUFFICES ASSUME SessionInv, [Next]_vars PROVE SessionInv'
  OBVIOUS
<1>1. SessionTypes /\ RoutedToOwner /\ \A c \in Sessions : InTurn(c)
  BY DEF SessionInv
<1> QED BY <1>1, NextMoves, RoutedKept, InTurnKept DEF SessionInv

(* A Connect goes to the muxer that announced the id, also at the limit of *)
(* their ranges (handle_stream, SHIM_NETWORK_ID_BASE).                     *)
THEOREM ConnectsRouted == Spec => []RoutedToOwner
<1>1. SessionInv => RoutedToOwner
  BY DEF SessionInv
<1> QED BY <1>1, SessionStarts, SessionInvKept, PTL DEF Spec

(* Requests are answered once and in turn, whichever of upstream and       *)
(* fallback does it (handle_stream).                                       *)
THEOREM AnsweredInOrder == Spec => []RepliesInTurn
<1>1. ASSUME SessionInv PROVE RepliesInTurn
  <2>1. ASSUME NEW c \in Sessions, At(c, "waiting"), NEW t \in DOMAIN asked[c],
               asked[c][t] # "Unknown"
        PROVE  t \in Range(replies[c])
    <3>1. t \in 1..((Len(asked[c]) + 1) - 1)
      BY <1>1, <2>1 DEF SessionInv, SessionTypes
    <3> QED BY <1>1, <2>1, <3>1 DEF SessionInv, InTurn, AnsweredBefore
  <2> QED BY <1>1, <2>1 DEF SessionInv, InTurn, RepliesInTurn
<1> QED BY <1>1, SessionStarts, SessionInvKept, PTL DEF Spec
-----------------------------------------------------------------------------
(* The host identity, with clients that save records and ask for the BUID. *)

LEMMA IdentityKeptBySessions ==
  ASSUME SessionTypes, IdentityInv, Next
  PROVE  IdentityInv'
<1> DEFINE Stored == [state : {"absent", "torn", "whole"}, host : Hosts, buid : Hosts]
<1>0. /\ IdentityTypes /\ SystemConfiguration \in Files /\ disk \in [Files -> Stored]
      /\ AnotherHost \in Hosts /\ None \in Hosts
  BY DEF IdentityInv, IdentityTypes, Files, Hosts
<1>1. ASSUME UNCHANGED identity, disk' \in [Files -> Stored],
             disk'[SystemConfiguration] = disk[SystemConfiguration]
      PROVE  IdentityInv'
  <2>1. IdentityTypes'
    BY <1>0, <1>1 DEF IdentityTypes
  <2> QED BY <1>0, <1>1, <2>1, IdentityKept
<1>2. ASSUME UNCHANGED identity, UNCHANGED disk PROVE IdentityInv'
  BY <1>0, <1>1, <1>2
<1>3. ASSUME NEW c \in Sessions, BeginSavePairRecord(c) \/ EndSavePairRecord(c)
      PROVE  IdentityInv'
  <2> DEFINE p == Request(c).phone
  <2>1. /\ UNCHANGED identity
        /\ \/ UNCHANGED disk
           \/ disk' = [disk EXCEPT ![p] = [state |-> "torn", host |-> None, buid |-> None]]
           \/ disk' = [disk EXCEPT ![p] = [state |-> "whole", host |-> AnotherHost, buid |-> None]]
    BY <1>3 DEF BeginSavePairRecord, EndSavePairRecord, Truncate, SaveRecord, Torn, Absent, Whole
  <2>2. p # SystemConfiguration
    BY StoreAssumption DEF SessionTypes, SessionType, RequestType, Request
  <2> HIDE DEF p
  <2> QED BY <1>0, <1>1, <2>1, <2>2
<1>4. ASSUME NEW c \in Sessions, BeginReadBuid(c) PROVE IdentityInv'
  <2>1. c \in Callers /\ UNCHANGED disk /\ (CallIdentity(c) \/ UNCHANGED identity)
    BY <1>4 DEF BeginReadBuid, Callers, Sessions
  <2> QED BY <1>0, <1>2, <2>1, CallKept
<1>5. ASSUME NEW c \in Callers, IdentityStep(c) PROVE IdentityInv'
  BY <1>5, IdentityInvKept DEF StoreNext
<1>6. CASE MdnsStep
  BY <1>6, IdentityInvKept DEF StoreNext
<1>7. ASSUME NEW p \in Phones, PairingStep(p) PROVE IdentityInv'
  BY <1>7, PairingKept
<1>8. ASSUME NEW c \in Sessions,
             \/ ReadRequest(c) \/ ClientCloses(c) \/ Forward(c) \/ UpstreamAnswers(c)
             \/ UpstreamLost(c) \/ AnswerListDevices(c) \/ AnswerReadPairRecord(c)
             \/ EndReadBuid(c) \/ ConnectStep(c) \/ Listen(c) \/ Subscribe(c)
      PROVE  IdentityInv'
  <2>1. UNCHANGED identity /\ UNCHANGED disk
    BY <1>8 DEF ReadRequest, ClientCloses, Forward, UpstreamAnswers, UpstreamLost,
       AnswerListDevices, AnswerReadPairRecord, EndReadBuid, ConnectStep, Lookup, Dial, HandOver,
       TunnelAnswers, Listen, Subscribe, storeVars
  <2> QED BY <1>2, <2>1
<1>9. ASSUME NEW c \in Sessions,
             \/ RelayLocal(c) \/ RelayUpstream(c) \/ ListenEnds(c)
             \/ PumpAct(c) \/ PumpAborted(c)
      PROVE  IdentityInv'
  <2>1. UNCHANGED identity /\ UNCHANGED disk
    BY <1>9 DEF RelayLocal, RelayUpstream, ListenEnds, PumpAct, PumpConnects, PumpOpens,
       PumpReads, PumpDropped, PumpWakes, PumpAborted, PumpStep, storeVars
  <2> QED BY <1>2, <2>1
<1>10. CASE \/ \E id \in UpIds : UpstreamAttaches(id) \/ UpstreamDetaches(id)
            \/ UpstreamCrashes \/ UpstreamRestarts \/ ManagerStep
            \/ \E c \in Sessions : StreamDrops(c) \/ FrameLost(c)
  <2>1. UNCHANGED identity /\ UNCHANGED disk
    BY <1>10 DEF UpstreamAttaches, UpstreamDetaches, UpstreamCrashes, UpstreamRestarts,
       StreamDrops, FrameLost, UpstreamStep, ManagerStep, storeVars
  <2> QED BY <1>2, <2>1
<1> QED BY <1>3, <1>4, <1>5, <1>6, <1>7, <1>8, <1>9, <1>10
      DEF Next, Serve, LocalStep, StoreStep, IdentityCall

(* "writing the file back so other muxers see the same identity", also     *)
(* while clients save records and ask for the BUID (get_host_identity,     *)
(* handle_stream).                                                         *)
THEOREM IdentitySharedWithClients == Spec => []IdentityShared
<1>1. Init => SessionInv /\ IdentityInv
  BY SessionStarts, IdentityStarts DEF Init
<1>2. SessionInv /\ IdentityInv /\ [Next]_vars => IdentityInv'
  <2> SUFFICES ASSUME SessionInv, IdentityInv, [Next]_vars PROVE IdentityInv'
    OBVIOUS
  <2>1. CASE Next
    BY <2>1, IdentityKeptBySessions DEF SessionInv
  <2>2. CASE UNCHANGED vars
    BY <2>2, IdentityInvKept DEF vars
  <2> QED BY <2>1, <2>2
<1>3. IdentityInv => IdentityShared
  BY SharedIfSettled
<1> QED BY <1>1, <1>2, <1>3, SessionInvKept, PTL DEF Spec
-----------------------------------------------------------------------------
(* What the mDNS task finds, with clients that save records.               *)

LEMMA FoundKeptBySessions ==
  ASSUME SessionTypes, IdentityInv, FoundInv, Next
  PROVE  FoundInv'
<1>1. ASSUME UNCHANGED <<disk, trusts, identity, hostIds, macs, lookup>> PROVE FoundInv'
  <2>1. HostsKnown'
    BY <1>1 DEF FoundInv, HostsKnown
  <2> QED BY <1>1, <2>1, FoundKept
<1>2. ASSUME NEW c \in Sessions, BeginSavePairRecord(c) \/ EndSavePairRecord(c)
      PROVE  FoundInv'
  <2> DEFINE p == Request(c).phone
  <2>1. /\ UNCHANGED <<trusts, identity, hostIds, macs>>
        /\ \/ UNCHANGED <<disk, lookup>>
           \/ disk' = [disk EXCEPT ![p] = Torn] /\ Disturb(p)
           \/ disk' = [disk EXCEPT ![p] = Whole(AnotherHost, None)] /\ Disturb(p)
    BY <1>2 DEF BeginSavePairRecord, EndSavePairRecord, Truncate, SaveRecord
  <2>2. p \in Phones \cup {None}
    BY DEF SessionTypes, SessionType, RequestType, Request
  <2> HIDE DEF p
  <2>3. CASE UNCHANGED <<disk, lookup>>
    BY <1>1, <2>1, <2>3
  <2>4. CASE /\ disk' = [disk EXCEPT ![p] = Torn]
                \/ disk' = [disk EXCEPT ![p] = Whole(AnotherHost, None)]
             /\ Disturb(p)
    <3>1. HostsKnown'
      BY <2>1 DEF FoundInv, HostsKnown
    <3>2. \A q \in Phones : q # p => disk'[q] = disk[q]
      <4>1. \A q \in Phones : q \in DOMAIN disk
        BY DEF IdentityInv, IdentityTypes, Files
      <4>2. CASE disk' = [disk EXCEPT ![p] = Torn]
        BY <4>1, <4>2
      <4>3. CASE disk' = [disk EXCEPT ![p] = Whole(AnotherHost, None)]
        BY <4>1, <4>3
      <4> QED BY <2>4, <4>2, <4>3
    <3>3. lookup'.sure => lookup.phone # p
      BY <2>4 DEF Disturb, FoundInv, LookupType
    <3> QED BY <2>1, <2>2, <2>4, <3>1, <3>2, <3>3, FoundKept
  <2> QED BY <2>1, <2>3, <2>4
<1>3. ASSUME NEW c \in Sessions, BeginReadBuid(c) PROVE FoundInv'
  <2>1. c \in Callers /\ UNCHANGED <<disk, trusts, hostIds, macs, lookup>>
        /\ (CallIdentity(c) \/ UNCHANGED identity)
    BY <1>3 DEF BeginReadBuid, Callers, Sessions
  <2> QED BY <1>1, <2>1, FoundKeptByCalls
<1>4. ASSUME NEW c \in Callers, IdentityStep(c) PROVE FoundInv'
  BY <1>4, FoundKeptByCalls
<1>5. CASE MdnsStep
  BY <1>5, FoundKeptByLookup
<1>6. ASSUME NEW p \in Phones, PairingStep(p) PROVE FoundInv'
  BY <1>6, FoundKeptByPairing
<1>7. CASE UNCHANGED storeVars
  BY <1>1, <1>7 DEF storeVars
<1>8. ASSUME NEW c \in Sessions,
             \/ ReadRequest(c) \/ ClientCloses(c) \/ Forward(c) \/ UpstreamAnswers(c)
             \/ UpstreamLost(c) \/ AnswerListDevices(c) \/ AnswerReadPairRecord(c)
             \/ EndReadBuid(c) \/ ConnectStep(c) \/ Listen(c) \/ Subscribe(c)
      PROVE  UNCHANGED storeVars
  BY <1>8 DEF ReadRequest, ClientCloses, Forward, UpstreamAnswers, UpstreamLost,
     AnswerListDevices, AnswerReadPairRecord, EndReadBuid, ConnectStep, Lookup, Dial, HandOver,
     TunnelAnswers, Listen, Subscribe
<1>9. ASSUME NEW c \in Sessions,
             \/ RelayLocal(c) \/ RelayUpstream(c) \/ ListenEnds(c)
             \/ PumpAct(c) \/ PumpAborted(c)
      PROVE  UNCHANGED storeVars
  BY <1>9 DEF RelayLocal, RelayUpstream, ListenEnds, PumpAct, PumpConnects, PumpOpens,
     PumpReads, PumpDropped, PumpWakes, PumpAborted, PumpStep
<1>10. CASE \/ \E id \in UpIds : UpstreamAttaches(id) \/ UpstreamDetaches(id)
            \/ UpstreamCrashes \/ UpstreamRestarts \/ ManagerStep
            \/ \E c \in Sessions : StreamDrops(c) \/ FrameLost(c)
  <2>1. UNCHANGED storeVars
    BY <1>10 DEF UpstreamAttaches, UpstreamDetaches, UpstreamCrashes, UpstreamRestarts,
       StreamDrops, FrameLost, UpstreamStep, ManagerStep
  <2> QED BY <1>7, <2>1
<1> QED BY <1>2, <1>3, <1>4, <1>5, <1>6, <1>7, <1>8, <1>9, <1>10
      DEF Next, Serve, LocalStep, StoreStep, IdentityCall

(* A phone with a valid record is not reported unknown, also while clients *)
(* save records for it and for others (handle_stream, find_udid_from_txt,  *)
(* get_udid_from_mac).                                                     *)
THEOREM PairedPhonesFoundWithClients == Spec => []PairedPhoneFound
<1>1. Init => SessionInv /\ IdentityInv /\ FoundInv
  BY SessionStarts, IdentityStarts, FoundStarts DEF Init
<1>2. SessionInv /\ IdentityInv /\ FoundInv /\ [Next]_vars => IdentityInv' /\ FoundInv'
  <2> SUFFICES ASSUME SessionInv, IdentityInv, FoundInv, [Next]_vars
               PROVE  IdentityInv' /\ FoundInv'
    OBVIOUS
  <2>1. CASE Next
    BY <2>1, IdentityKeptBySessions, FoundKeptBySessions DEF SessionInv
  <2>2. CASE UNCHANGED vars
    BY <2>2, IdentityInvKept, FoundInvKept DEF vars
  <2> QED BY <2>1, <2>2
<1>3. FoundInv => PairedPhoneFound
  BY DEF FoundInv
<1> QED BY <1>1, <1>2, <1>3, SessionInvKept, PTL DEF Spec
-----------------------------------------------------------------------------
(* What listening clients are shown of the upstream's devices.             *)

(* A frame of one of the first connections of a pump; a Result names no    *)
(* device.                                                                 *)
Frames(n) ==
  [type : {"Result"}, id : {0}, connection : 0..n]
    \cup [type : {"Attached", "Detached"}, id : UpIds, connection : 0..n]

(* All that was said to c came over the first connections of its pump.     *)
Heard(c, n) ==
  /\ told[c].up \in [UpIds -> 0..n]
  /\ relay[c] \in Seq(Frames(n)) /\ link[c] \in Seq(Frames(n))

Right(c) ==
  \A i \in UpIds : Shows(told[c].up, relay[c] \o link[c], i, pump[c].connection)
                   <=> i \in upstream.devices

PumpType ==
  [pc : {"off", "connecting", "opening", "reading", "sleeping"}, connection : Nat,
   linked : BOOLEAN, aborted : BOOLEAN]

(* Nothing was heard over a connection that is not made yet; as long as a  *)
(* pump opens, the Result is ahead of everything.                          *)
ViewOf(c) ==
  /\ DOMAIN told[c] = {"local", "up"} /\ pump[c] \in PumpType
  /\ Heard(c, pump[c].connection)
  /\ ~At(c, "listening") /\ ~At(c, "closed") => pump[c].pc = "off"
  /\ Attend(c) => upstream.up /\ pump[c].connection # 0
  /\ At(c, "listening") /\ Attend(c) => Right(c)
  /\ Attend(c) /\ pump[c].pc = "opening" => link[c] # <<>> /\ Head(link[c]).type = "Result"

ViewInv ==
  /\ DOMAIN told = Sessions /\ DOMAIN pump = Sessions
  /\ DOMAIN relay = Sessions /\ DOMAIN link = Sessions
  /\ \A c \in Sessions : ViewOf(c)
-----------------------------------------------------------------------------
(* How what is shown changes with the frames.                              *)

LEMMA FrameFacts ==
  ASSUME NEW n \in Nat, NEW f \in Frames(n)
  PROVE  /\ f.type \in {"Result", "Attached", "Detached"} /\ f.connection \in 0..n
         /\ f.type = "Result" => f.id \notin UpIds
         /\ f.type # "Result" => f.id \in UpIds
         /\ \A m \in Nat : n <= m => f \in Frames(m)
         /\ \A m \in Nat : f.connection <= m => f \in Frames(m)
<1>1. 0 \notin UpIds
  BY SessionAssumption
<1>2. CASE f \in [type : {"Result"}, id : {0}, connection : 0..n]
  BY <1>1, <1>2 DEF Frames
<1>3. CASE f \in [type : {"Attached", "Detached"}, id : UpIds, connection : 0..n]
  BY <1>3 DEF Frames
<1> QED BY <1>2, <1>3 DEF Frames

LEMMA AppliedTyped ==
  ASSUME NEW n \in Nat, NEW f \in Frames(n), NEW view \in [UpIds -> 0..n]
  PROVE  Applied(view, f) \in [UpIds -> 0..n]
<1>1. f.type \in {"Result", "Attached", "Detached"} /\ f.connection \in 0..n
  BY FrameFacts
<1>2. 0 \in 0..n
  OBVIOUS
<1>3. Applied(view, f) \in {view, [view EXCEPT ![f.id] = f.connection], [view EXCEPT ![f.id] = 0]}
  BY <1>1 DEF Applied
<1>4. ASSUME NEW x \in 0..n PROVE [view EXCEPT ![f.id] = x] \in [UpIds -> 0..n]
  OBVIOUS
<1> HIDE DEF Applied
<1> QED BY <1>1, <1>2, <1>3, <1>4

LEMMA ShowsApplied ==
  ASSUME NEW n \in Nat, NEW w \in Seq(Frames(n)), w # <<>>, NEW view \in [UpIds -> 0..n],
         NEW i \in UpIds, NEW e \in Nat \ {0}
  PROVE  Shows(Applied(view, Head(w)), Tail(w), i, e) <=> Shows(view, w, i, e)
<1> DEFINE f == Head(w)
           t == Tail(w)
           v == Applied(view, f)
           F == Frames(n)
<1>0. w \in Seq(F)
  OBVIOUS
<1>1. f \in F /\ f = w[1] /\ t \in Seq(F) /\ Len(t) = Len(w) - 1 /\ Len(w) \in Nat \ {0}
      /\ \A k \in DOMAIN t : t[k] = w[k + 1] /\ k + 1 \in DOMAIN w
  <2> HIDE DEF F
  <2> QED BY <1>0
<1>2. /\ f.type \in {"Result", "Attached", "Detached"} /\ f.connection \in 0..n
      /\ f.type = "Result" => f.id \notin UpIds
      /\ f.type # "Result" => f.id \in UpIds
  BY <1>1, FrameFacts
<1>3. /\ v \in [UpIds -> 0..n]
      /\ f.id # i => v[i] = view[i]
      /\ f.id = i => v[i] = IF f.type = "Attached" THEN f.connection ELSE 0
  BY <1>2 DEF Applied
<1>4. DOMAIN w = 1..Len(w) /\ DOMAIN t = 1..(Len(w) - 1) /\ 1 \in DOMAIN w
  <2> HIDE DEF F, t
  <2> QED BY <1>0, <1>1
<1> HIDE DEF t, v, f, F
<1>5. ASSUME Shows(view, w, i, e) PROVE Shows(v, t, i, e)
  <2>1. CASE view[i] = e /\ \A k \in DOMAIN w : w[k].id # i
    BY <1>1, <1>3, <1>4, <2>1 DEF Shows
  <2>2. ASSUME NEW k \in DOMAIN w, w[k].id = i, w[k].type = "Attached", w[k].connection = e,
               \A j \in DOMAIN w : w[j].id = i => j <= k
        PROVE  Shows(v, t, i, e)
    <3>1. CASE k = 1
      <4>1. \A j \in DOMAIN t : t[j].id # i
        <5> SUFFICES ASSUME NEW j \in DOMAIN t, t[j].id = i PROVE FALSE
          OBVIOUS
        <5>1. j + 1 <= k /\ j \in Nat \ {0}
          BY <1>1, <1>4, <2>2
        <5> QED BY <3>1, <5>1
      <4>2. v[i] = e
        BY <1>1, <1>3, <2>2, <3>1
      <4> QED BY <4>1, <4>2 DEF Shows
    <3>2. CASE k # 1
      <4> DEFINE h == k - 1
      <4>1. h \in DOMAIN t /\ h + 1 = k
        BY <1>1, <1>4, <3>2
      <4> HIDE DEF h
      <4>2. t[h] = w[k]
        BY <1>1, <4>1
      <4>3. \A j \in DOMAIN t : t[j].id = i => j <= h
        BY <1>1, <1>4, <2>2, <4>1
      <4> QED BY <2>2, <4>1, <4>2, <4>3 DEF Shows
    <3> QED BY <3>1, <3>2
  <2> QED BY <1>5, <2>1, <2>2 DEF Shows
<1>6. ASSUME Shows(v, t, i, e) PROVE Shows(view, w, i, e)
  <2>1. CASE v[i] = e /\ \A k \in DOMAIN t : t[k].id # i
    <3>1. \A j \in DOMAIN w : w[j].id = i => j <= 1
      <4> SUFFICES ASSUME NEW j \in DOMAIN w, w[j].id = i, j > 1 PROVE FALSE
        BY <1>1, <1>4
      <4> DEFINE h == j - 1
      <4>1. h \in DOMAIN t /\ h + 1 = j
        BY <1>1, <1>4
      <4> HIDE DEF h
      <4> QED BY <1>1, <2>1, <4>1
    <3>2. CASE f.id = i
      BY <1>1, <1>3, <1>4, <2>1, <3>1, <3>2 DEF Shows
    <3>3. CASE f.id # i
      BY <1>1, <1>3, <1>4, <2>1, <3>1, <3>3 DEF Shows
    <3> QED BY <3>2, <3>3
  <2>2. ASSUME NEW k \in DOMAIN t, t[k].id = i, t[k].type = "Attached", t[k].connection = e,
               \A j \in DOMAIN t : t[j].id = i => j <= k
        PROVE  Shows(view, w, i, e)
    <3> DEFINE h == k + 1
    <3>1. h \in DOMAIN w /\ w[h] = t[k] /\ k \in Nat
      BY <1>1, <1>4
    <3>2. \A j \in DOMAIN w : w[j].id = i => j <= h
      <4> SUFFICES ASSUME NEW j \in DOMAIN w, w[j].id = i, j > 1 PROVE j <= h
        BY <1>1, <1>4, <3>1
      <4> DEFINE g == j - 1
      <4>1. g \in DOMAIN t /\ g + 1 = j
        BY <1>1, <1>4
      <4> HIDE DEF g
      <4>2. g <= k
        BY <1>1, <2>2, <4>1
      <4> QED BY <1>4, <1>1, <3>1, <4>1, <4>2
    <3> HIDE DEF h
    <3> QED BY <2>2, <3>1, <3>2 DEF Shows
  <2> QED BY <1>6, <2>1, <2>2 DEF Shows
<1> QED BY <1>3, <1>5, <1>6 DEF v, t, f

LEMMA ShowsAppended ==
  ASSUME NEW n \in Nat, NEW w \in Seq(Frames(n)), NEW f \in Frames(n), NEW view,
         NEW i \in UpIds, NEW e
  PROVE  Shows(view, Append(w, f), i, e)
           <=> IF f.id = i THEN f.type = "Attached" /\ f.connection = e ELSE Shows(view, w, i, e)
<1> DEFINE x == Append(w, f)
           F == Frames(n)
           m == Len(w) + 1
<1>1. /\ Len(w) \in Nat /\ DOMAIN w = 1..Len(w) /\ DOMAIN x = 1..m /\ x[m] = f
      /\ \A k \in DOMAIN w : x[k] = w[k]
  <2> HIDE DEF F
  <2>1. w \in Seq(F) /\ f \in F
    BY DEF F
  <2> QED BY <2>1
<1>2. m \in DOMAIN x /\ \A j \in DOMAIN x : j <= m /\ (j # m => j \in DOMAIN w)
  BY <1>1
<1>3. \A j \in DOMAIN w : j \in DOMAIN x /\ j < m
  BY <1>1
<1> HIDE DEF x, m
<1>4. CASE f.id = i
  <2>1. ASSUME Shows(view, x, i, e) PROVE f.type = "Attached" /\ f.connection = e
    <3>1. PICK k \in DOMAIN x : /\ x[k].type = "Attached" /\ x[k].connection = e
                                /\ \A j \in DOMAIN x : x[j].id = i => j <= k
      BY <1>1, <1>2, <1>4, <2>1 DEF Shows
    <3>2. k = m
      <4>1. m <= k /\ k <= m
        BY <1>1, <1>2, <1>4, <3>1
      <4>2. k \in Nat /\ m \in Nat
        BY <1>1 DEF m
      <4> QED BY <4>1, <4>2
    <3> QED BY <1>1, <3>1, <3>2
  <2>2. ASSUME f.type = "Attached", f.connection = e PROVE Shows(view, x, i, e)
    BY <1>1, <1>2, <1>4, <2>2 DEF Shows
  <2> QED BY <1>4, <2>1, <2>2 DEF x
<1>5. CASE f.id # i
  <2>1. ASSUME Shows(view, x, i, e) PROVE Shows(view, w, i, e)
    <3>1. CASE view[i] = e /\ \A k \in DOMAIN x : x[k].id # i
      BY <1>1, <1>3, <3>1 DEF Shows
    <3>2. ASSUME NEW k \in DOMAIN x, x[k].id = i, x[k].type = "Attached", x[k].connection = e,
                 \A j \in DOMAIN x : x[j].id = i => j <= k
          PROVE  Shows(view, w, i, e)
      <4>1. k \in DOMAIN w
        BY <1>1, <1>2, <1>5, <3>2
      <4> QED BY <1>1, <1>3, <3>2, <4>1 DEF Shows
    <3> QED BY <2>1, <3>1, <3>2 DEF Shows
  <2>2. ASSUME Shows(view, w, i, e) PROVE Shows(view, x, i, e)
    <3>1. CASE view[i] = e /\ \A k \in DOMAIN w : w[k].id # i
      BY <1>1, <1>2, <1>5, <3>1 DEF Shows
    <3>2. ASSUME NEW k \in DOMAIN w, w[k].id = i, w[k].type = "Attached", w[k].connection = e,
                 \A j \in DOMAIN w : w[j].id = i => j <= k
          PROVE  Shows(view, x, i, e)
      BY <1>1, <1>2, <1>3, <1>5, <3>2 DEF Shows
    <3> QED BY <2>2, <3>1, <3>2 DEF Shows
  <2> QED BY <1>5, <2>1, <2>2 DEF x
<1> QED BY <1>4, <1>5

LEMMA Joined ==
  ASSUME NEW F, NEW a \in Seq(F), NEW b \in Seq(F)
  PROVE  /\ Len(a) \in Nat /\ Len(b) \in Nat /\ DOMAIN a = 1..Len(a) /\ DOMAIN b = 1..Len(b)
         /\ a \o b \in Seq(F) /\ DOMAIN (a \o b) = 1..(Len(a) + Len(b))
         /\ \A k \in DOMAIN a : (a \o b)[k] = a[k]
         /\ \A k \in DOMAIN b : (a \o b)[Len(a) + k] = b[k]
<1> QED OBVIOUS

(* The Result that opens a connection says nothing of a device.            *)
LEMMA ShowsOpened ==
  ASSUME NEW n \in Nat, NEW a \in Seq(Frames(n)), NEW b \in Seq(Frames(n)), b # <<>>,
         Head(b).type = "Result", NEW view, NEW i \in UpIds, NEW e
  PROVE  Shows(view, a \o Tail(b), i, e) <=> Shows(view, a \o b, i, e)
<1> DEFINE t == Tail(b)
           F == Frames(n)
           x == a \o b
           y == a \o t
           m == Len(a)
<1>0. a \in Seq(F) /\ b \in Seq(F) /\ b[1] \in F /\ b[1] = Head(b)
  <2> HIDE DEF F
  <2>1. a \in Seq(F) /\ b \in Seq(F)
    BY DEF F
  <2> QED BY <2>1
<1>1. b[1].id # i
  BY <1>0, FrameFacts
<1> HIDE DEF F
<1>2. t \in Seq(F) /\ Len(t) = Len(b) - 1 /\ \A k \in 1..Len(t) : t[k] = b[k + 1]
  BY <1>0
<1> HIDE DEF t
<1>3. /\ m \in Nat /\ Len(b) \in Nat \ {0} /\ DOMAIN a = 1..m /\ DOMAIN b = 1..Len(b)
      /\ DOMAIN x = 1..(m + Len(b)) /\ DOMAIN t = 1..(Len(b) - 1)
      /\ DOMAIN y = 1..(m + (Len(b) - 1))
      /\ \A k \in DOMAIN a : x[k] = a[k] /\ y[k] = a[k]
  <2>1. Len(b) # 0
    BY <1>0
  <2>2. /\ m \in Nat /\ Len(b) \in Nat /\ DOMAIN a = 1..m /\ DOMAIN b = 1..Len(b)
        /\ DOMAIN x = 1..(m + Len(b)) /\ \A k \in DOMAIN a : x[k] = a[k]
    BY <1>0, Joined
  <2>3. /\ DOMAIN t = 1..Len(t) /\ DOMAIN y = 1..(m + Len(t)) /\ \A k \in DOMAIN a : y[k] = a[k]
    <3>1. a \in Seq(F) /\ t \in Seq(F)
      BY <1>0, <1>2
    <3>2. /\ DOMAIN t = 1..Len(t) /\ DOMAIN (a \o t) = 1..(Len(a) + Len(t))
          /\ \A k \in DOMAIN a : (a \o t)[k] = a[k]
      BY <3>1, Joined
    <3> QED BY <3>2
  <2> QED BY <1>2, <2>1, <2>2, <2>3
<1>4. \A k \in DOMAIN y : k > m => x[k + 1] = y[k] /\ k + 1 \in DOMAIN x
  <2> SUFFICES ASSUME NEW k \in DOMAIN y, k > m PROVE x[k + 1] = y[k] /\ k + 1 \in DOMAIN x
    OBVIOUS
  <2> DEFINE h == k - m
             g == h + 1
  <2> HIDE DEF x, y, m
  <2>0. /\ m \in Nat /\ Len(b) \in Nat /\ DOMAIN b = 1..Len(b)
        /\ DOMAIN x = 1..(m + Len(b)) /\ DOMAIN t = 1..(Len(b) - 1)
        /\ DOMAIN y = 1..(m + (Len(b) - 1))
    BY <1>3
  <2>1. h \in DOMAIN t /\ g \in DOMAIN b /\ k = m + h /\ k + 1 = m + g /\ k + 1 \in DOMAIN x
    BY <2>0
  <2>2. t[h] = b[g]
    BY <1>2, <1>3, <2>1
  <2> HIDE DEF g, h
  <2>3. y[m + h] = t[h] /\ x[m + g] = b[g]
    BY <1>0, <1>2, <2>1, Joined DEF x, y, m
  <2> QED BY <2>1, <2>2, <2>3
<1>5. \A k \in DOMAIN x : x[k].id = i => k # m + 1
  <2>1. 1 \in DOMAIN b
    BY <1>3
  <2>2. x[m + 1] = b[1]
    BY <1>0, <2>1, Joined
  <2> QED BY <1>1, <2>2
<1> HIDE DEF x, y, m
<1>6. \A k \in DOMAIN y : k \in Nat /\ (k <= m => k \in DOMAIN x /\ x[k] = y[k])
  BY <1>3
<1>7. \A j \in DOMAIN x : \/ j \in Nat /\ j <= m /\ j \in DOMAIN y
                         \/ j = m + 1
                         \/ \E k \in DOMAIN y : k > m /\ j = k + 1
  <2> SUFFICES ASSUME NEW j \in DOMAIN x, j > m + 1 PROVE \E k \in DOMAIN y : k > m /\ j = k + 1
    BY <1>3
  <2> DEFINE k == j - 1
  <2>1. k \in DOMAIN y /\ k > m /\ j = k + 1
    BY <1>3
  <2> HIDE DEF k
  <2> QED BY <2>1
<1>8. ASSUME Shows(view, x, i, e) PROVE Shows(view, y, i, e)
  <2>1. CASE view[i] = e /\ \A k \in DOMAIN x : x[k].id # i
    BY <1>3, <1>4, <1>6, <2>1 DEF Shows
  <2>2. ASSUME NEW j \in DOMAIN x, x[j].id = i, x[j].type = "Attached", x[j].connection = e,
               \A k \in DOMAIN x : x[k].id = i => k <= j
        PROVE  Shows(view, y, i, e)
    <3>1. CASE j <= m /\ j \in DOMAIN y
      <4>1. \A k \in DOMAIN y : y[k].id = i => k <= j
        <5> SUFFICES ASSUME NEW k \in DOMAIN y, y[k].id = i, k > m PROVE k <= j
          BY <1>3, <1>6, <2>2, <3>1
        <5>1. k + 1 <= j /\ k \in Nat
          BY <1>4, <1>6, <2>2
        <5> QED BY <5>1, <1>3, <3>1
      <4> QED BY <1>6, <2>2, <3>1, <4>1 DEF Shows
    <3>2. ASSUME NEW h \in DOMAIN y, h > m, j = h + 1 PROVE Shows(view, y, i, e)
      <4>1. \A k \in DOMAIN y : y[k].id = i => k <= h
        <5> SUFFICES ASSUME NEW k \in DOMAIN y, y[k].id = i, k > m PROVE k <= h
          BY <1>3, <1>6, <3>2
        <5>1. k + 1 <= h + 1 /\ k \in Nat /\ h \in Nat
          BY <1>4, <1>6, <2>2, <3>2
        <5> QED BY <5>1
      <4>2. y[h] = x[j]
        BY <1>4, <3>2
      <4> QED BY <2>2, <3>2, <4>1, <4>2 DEF Shows
    <3> QED BY <1>5, <1>7, <2>2, <3>1, <3>2
  <2> QED BY <1>8, <2>1, <2>2 DEF Shows
<1>9. ASSUME Shows(view, y, i, e) PROVE Shows(view, x, i, e)
  <2>1. CASE view[i] = e /\ \A k \in DOMAIN y : y[k].id # i
    <3>1. \A j \in DOMAIN x : x[j].id # i
      BY <1>4, <1>5, <1>6, <1>7, <2>1
    <3> QED BY <2>1, <3>1 DEF Shows
  <2>2. ASSUME NEW k \in DOMAIN y, y[k].id = i, y[k].type = "Attached", y[k].connection = e,
               \A j \in DOMAIN y : y[j].id = i => j <= k
        PROVE  Shows(view, x, i, e)
    <3>1. CASE k <= m
      <4>1. \A j \in DOMAIN x : x[j].id = i => j <= k
        <5> SUFFICES ASSUME NEW j \in DOMAIN x, x[j].id = i PROVE j <= k
          OBVIOUS
        <5>1. CASE j <= m /\ j \in DOMAIN y
          BY <1>6, <2>2, <5>1
        <5>2. ASSUME NEW h \in DOMAIN y, h > m, j = h + 1 PROVE FALSE
          <6>1. h <= k
            BY <1>4, <2>2, <5>2
          <6> QED BY <1>3, <1>6, <3>1, <5>2, <6>1
        <5> QED BY <1>5, <1>7, <5>1, <5>2
      <4> QED BY <1>6, <2>2, <3>1, <4>1 DEF Shows
    <3>2. CASE k > m
      <4> DEFINE g == k + 1
      <4>1. g \in DOMAIN x /\ x[g] = y[k]
        BY <1>4, <3>2
      <4>2. \A j \in DOMAIN x : x[j].id = i => j <= g
        <5> SUFFICES ASSUME NEW j \in DOMAIN x, x[j].id = i PROVE j <= g
          OBVIOUS
        <5>1. CASE j <= m /\ j \in Nat
          BY <1>3, <1>6, <3>2, <5>1
        <5>2. ASSUME NEW h \in DOMAIN y, h > m, j = h + 1 PROVE j <= g
          <6>1. h <= k
            BY <1>4, <2>2, <5>2
          <6> QED BY <1>6, <5>2, <6>1
        <5> QED BY <1>5, <1>7, <5>1, <5>2
      <4> HIDE DEF g
      <4> QED BY <2>2, <4>1, <4>2 DEF Shows
    <3> QED BY <1>3, <1>6, <3>1, <3>2
  <2> QED BY <1>9, <2>1, <2>2 DEF Shows
<1> QED BY <1>8, <1>9 DEF x, y, t

(* The devices a connection begins with, after what earlier ones said.     *)
Says(b, i) == \E k \in DOMAIN b : b[k].id = i
SaysOnce(b, i, n) ==
  /\ \A k \in DOMAIN b : b[k].id = i => b[k].type = "Attached" /\ b[k].connection = n
  /\ \A j, k \in DOMAIN b : b[j].id = i /\ b[k].id = i => j = k
NeverSaid(view, a, i, n) == view[i] # n /\ \A k \in DOMAIN a : a[k].connection # n

LEMMA ShowsReplay ==
  ASSUME NEW n \in Nat, NEW F, NEW a \in Seq(F), NEW b \in Seq(F), NEW view, NEW i,
         NeverSaid(view, a, i, n), SaysOnce(b, i, n)
  PROVE  Shows(view, a \o b, i, n) <=> Says(b, i)
<1> USE DEF NeverSaid, SaysOnce, Says
<1> DEFINE x == a \o b
           m == Len(a)
<1>1. /\ m \in Nat /\ Len(b) \in Nat /\ DOMAIN a = 1..m /\ DOMAIN b = 1..Len(b)
      /\ DOMAIN x = 1..(m + Len(b))
      /\ \A k \in DOMAIN a : x[k] = a[k]
      /\ \A k \in DOMAIN b : x[m + k] = b[k]
  BY Joined
<1> HIDE DEF x, m
<1>2. \A j \in DOMAIN x : \/ j \in DOMAIN a
                         \/ \E k \in DOMAIN b : j = m + k
  <2> SUFFICES ASSUME NEW j \in DOMAIN x, j > m PROVE \E k \in DOMAIN b : j = m + k
    BY <1>1
  <2> DEFINE k == j - m
  <2>1. k \in DOMAIN b /\ j = m + k
    BY <1>1
  <2> HIDE DEF k
  <2> QED BY <2>1
<1>3. ASSUME NEW k \in DOMAIN b, b[k].id = i PROVE Shows(view, x, i, n)
  <2> DEFINE g == m + k
  <2>1. g \in DOMAIN x /\ x[g] = b[k]
    BY <1>1
  <2>2. \A j \in DOMAIN x : x[j].id = i => j <= g
    <3> SUFFICES ASSUME NEW j \in DOMAIN x, x[j].id = i PROVE j <= g
      OBVIOUS
    <3>1. CASE j \in DOMAIN a
      BY <1>1, <3>1
    <3>2. ASSUME NEW h \in DOMAIN b, j = m + h PROVE j <= g
      <4>1. h = k
        BY <1>1, <1>3, <3>2
      <4> QED BY <1>1, <3>2, <4>1
    <3> QED BY <1>2, <3>1, <3>2
  <2> HIDE DEF g
  <2> QED BY <1>3, <2>1, <2>2 DEF Shows
<1>4. ASSUME Shows(view, x, i, n) PROVE \E k \in DOMAIN b : b[k].id = i
  <2>1. PICK j \in DOMAIN x : x[j].id = i /\ x[j].connection = n
    BY <1>4 DEF Shows
  <2>2. j \notin DOMAIN a
    BY <1>1, <2>1
  <2>3. PICK k \in DOMAIN b : j = m + k
    BY <1>2, <2>2
  <2> QED BY <1>1, <2>1, <2>3
<1> QED BY <1>3, <1>4 DEF x
-----------------------------------------------------------------------------
(* The steps.                                                              *)

LEMMA ViewAside ==
  ASSUME NEW d, ViewOf(d), UNCHANGED upstream,
         told'[d] = told[d], pump'[d] = pump[d], relay'[d] = relay[d], link'[d] = link[d],
         At(d, "listening")' <=> At(d, "listening"), At(d, "closed") => At(d, "closed")'
  PROVE  ViewOf(d)'
<1>1. Attend(d)' <=> Attend(d)
  BY DEF Attend
<1>2. Right(d) => Right(d)'
  BY DEF Right
<1>3. Heard(d, pump[d].connection) => Heard(d, pump[d].connection)'
  BY DEF Heard
<1> QED BY <1>1, <1>2, <1>3 DEF ViewOf

(* A session that serves neither begins nor ends to listen, but may close. *)
LEMMA ServingKeepsView ==
  ASSUME SessionTypes, ViewInv, NEW c \in Sessions,
         \/ ReadRequest(c) \/ ClientCloses(c) \/ Forward(c) \/ UpstreamAnswers(c)
         \/ UpstreamLost(c) \/ LocalStep(c) \/ ConnectStep(c) \/ Listen(c)
  PROVE  ViewInv'
<1>1. UNCHANGED <<upstream, told, pump, link, relay>>
  BY DEF ReadRequest, ClientCloses, Forward, UpstreamAnswers, UpstreamLost, LocalStep,
       AnswerListDevices, AnswerReadPairRecord, BeginSavePairRecord, EndSavePairRecord,
       BeginReadBuid, EndReadBuid, ConnectStep, Lookup, Dial, HandOver, TunnelAnswers,
       Listen, SessionStep, listenVars
<1>2. session \in [Sessions -> SessionType] /\ session[c] \in SessionType
  BY DEF SessionTypes
<1> DEFINE Others == \A d \in Sessions \ {c} : session'[d].pc = session[d].pc
           From == session[c].pc \notin {"listening", "closed"}
           To == session'[c].pc # "listening"
<1>3. ASSUME NEW pc, pc # "listening",
             \/ Goto(c, pc)
             \/ session' = [session EXCEPT ![c].pc = pc, ![c].epoch = upstream.epoch]
             \/ session' = session /\ pc = session[c].pc
             \/ \E r \in Requests : session' = [session EXCEPT ![c].pc = pc, ![c].request = r]
      PROVE  Others /\ To
  BY <1>2, <1>3 DEF SessionType, Goto
<1>4. ASSUME ReadRequest(c) PROVE Others /\ From /\ To
  <2>1. PICK r \in Requests : session' = [session EXCEPT ![c].pc = First(r), ![c].request = r]
    BY <1>4 DEF ReadRequest
  <2>2. First(r) # "listening"
    BY <2>1, FirstPlaces
  <2>3. From
    BY <1>4 DEF ReadRequest, At
  <2> QED BY <1>3, <2>1, <2>2, <2>3
<1>5. ASSUME ClientCloses(c) \/ Listen(c) PROVE Others /\ From /\ To
  BY <1>3, <1>5 DEF ClientCloses, Listen, At
<1>6. ASSUME Forward(c) \/ UpstreamAnswers(c) \/ UpstreamLost(c) PROVE Others /\ From /\ To
  BY <1>3, <1>6 DEF Forward, UpstreamAnswers, UpstreamLost, FallBack, At
<1>7. ASSUME LocalStep(c) PROVE Others /\ From /\ To
  BY <1>3, <1>7 DEF LocalStep, AnswerListDevices, AnswerReadPairRecord, BeginSavePairRecord,
       EndSavePairRecord, BeginReadBuid, EndReadBuid, Local_, At
<1>8. ASSUME ConnectStep(c) PROVE Others /\ From /\ To
  BY <1>3, <1>8 DEF ConnectStep, Lookup, Dial, HandOver, TunnelAnswers, At
<1>9. Others /\ From /\ To
  BY <1>4, <1>5, <1>6, <1>7, <1>8
<1>10. ASSUME NEW d \in Sessions PROVE ViewOf(d)'
  <2>1. At(d, "listening")' <=> At(d, "listening")
    BY <1>9 DEF At
  <2>2. At(d, "closed") => At(d, "closed")'
    BY <1>9 DEF At
  <2>3. ViewOf(d)
    BY DEF ViewInv
  <2> QED BY <1>1, <2>1, <2>2, <2>3, ViewAside
<1> QED BY <1>1, <1>10 DEF ViewInv

(* What one session and its pump do leaves the views of the others alone.  *)
LEMMA ViewsBeside ==
  ASSUME ViewInv, NEW c \in Sessions, UNCHANGED upstream, ViewOf(c)',
         DOMAIN told' = Sessions, DOMAIN pump' = Sessions, DOMAIN relay' = Sessions,
         DOMAIN link' = Sessions,
         \A d \in Sessions \ {c} : /\ told'[d] = told[d] /\ pump'[d] = pump[d]
                                   /\ relay'[d] = relay[d] /\ link'[d] = link[d]
                                   /\ session'[d] = session[d]
  PROVE  ViewInv'
<1>1. ASSUME NEW d \in Sessions, d # c PROVE ViewOf(d)'
  <2>1. ViewOf(d) /\ (At(d, "listening")' <=> At(d, "listening"))
        /\ (At(d, "closed") => At(d, "closed")')
    BY <1>1 DEF ViewInv, At
  <2> QED BY <1>1, <2>1, ViewAside
<1> QED BY <1>1 DEF ViewInv

LEMMA ListenKeepsView ==
  ASSUME SessionTypes, ViewInv, NEW c \in Sessions,
         Subscribe(c) \/ ListenEnds(c) \/ RelayLocal(c) \/ RelayUpstream(c)
  PROVE  ViewInv'
<1>1. UNCHANGED upstream
  BY DEF Subscribe, ListenEnds, RelayLocal, RelayUpstream
<1>2. session \in [Sessions -> SessionType] /\ session[c] \in SessionType
  BY DEF SessionTypes
<1> DEFINE n == pump[c].connection
<1>3. ViewOf(c) /\ n \in Nat /\ pump[c] \in PumpType /\ Heard(c, n)
  BY DEF ViewInv, ViewOf, PumpType
<1>4. CASE Subscribe(c)
  <2>1. /\ At(c, "subscribing") /\ At(c, "listening")'
        /\ \A d \in Sessions \ {c} : session'[d] = session[d]
    BY <1>2, <1>4 DEF Subscribe, Goto, At, SessionType
  <2>2. pump[c].pc = "off"
    BY <1>3, <2>1 DEF ViewOf, At
  <2>3. /\ pump'[c].pc \in {"off", "connecting"} /\ pump'[c].connection = n
        /\ pump'[c] \in PumpType /\ DOMAIN pump' = Sessions
        /\ \A d \in Sessions \ {c} : pump'[d] = pump[d]
    BY <1>3, <1>4, <2>2 DEF Subscribe, ViewInv, PumpType
  <2>4. UNCHANGED <<told, link, relay>>
    BY <1>4 DEF Subscribe
  <2>5. Heard(c, pump[c].connection)'
    BY <1>3, <2>3, <2>4 DEF Heard
  <2>6. ~Attend(c)'
    BY <2>3 DEF Attend
  <2>7. ViewOf(c)'
    BY <1>3, <2>1, <2>3, <2>4, <2>5, <2>6 DEF ViewOf
  <2>8. DOMAIN told' = Sessions /\ DOMAIN relay' = Sessions /\ DOMAIN link' = Sessions
    BY <2>4 DEF ViewInv
  <2> QED BY <1>1, <2>1, <2>3, <2>4, <2>7, <2>8, ViewsBeside
<1>5. CASE ListenEnds(c)
  <2>1. At(c, "closed")' /\ ~At(c, "listening")' /\ \A d \in Sessions \ {c} : session'[d] = session[d]
    BY <1>2, <1>5 DEF ListenEnds, Goto, At, SessionType
  <2>2. /\ pump'[c].pc = pump[c].pc /\ pump'[c].linked = pump[c].linked
        /\ pump'[c].connection = n /\ pump'[c] \in PumpType /\ relay'[c] = <<>>
        /\ DOMAIN pump' = Sessions /\ DOMAIN relay' = Sessions
        /\ UNCHANGED <<told, link>>
        /\ \A d \in Sessions \ {c} : pump'[d] = pump[d] /\ relay'[d] = relay[d]
    BY <1>3, <1>5 DEF ListenEnds, ViewInv, PumpType
  <2>3. Heard(c, pump[c].connection)'
    BY <1>3, <2>2 DEF Heard
  <2>4. Attend(c)' <=> Attend(c)
    BY <2>2 DEF Attend
  <2>5. ViewOf(c)'
    BY <1>1, <1>3, <2>1, <2>2, <2>3, <2>4 DEF ViewOf
  <2>6. DOMAIN told' = Sessions /\ DOMAIN link' = Sessions
    BY <2>2 DEF ViewInv
  <2> QED BY <1>1, <2>1, <2>2, <2>5, <2>6, ViewsBeside
<1>6. CASE RelayLocal(c)
  <2>1. /\ told'[c].up = told[c].up /\ DOMAIN told'[c] = {"local", "up"} /\ DOMAIN told' = Sessions
        /\ \A d \in Sessions \ {c} : told'[d] = told[d]
        /\ UNCHANGED <<session, pump, link, relay>>
    BY <1>3, <1>6 DEF RelayLocal, ViewOf, ViewInv
  <2>2. (Attend(c)' <=> Attend(c)) /\ (Right(c) => Right(c)')
    BY <1>1, <2>1 DEF Attend, Right
  <2>3. Heard(c, pump[c].connection)'
    BY <1>3, <2>1 DEF Heard
  <2>4. ViewOf(c)'
    BY <1>1, <1>3, <2>1, <2>2, <2>3 DEF ViewOf, At
  <2>5. DOMAIN pump' = Sessions /\ DOMAIN relay' = Sessions /\ DOMAIN link' = Sessions
    BY <2>1 DEF ViewInv
  <2> QED BY <1>1, <2>1, <2>4, <2>5, ViewsBeside
<1>7. CASE RelayUpstream(c)
  <2> DEFINE w == relay[c]
             v == told[c].up
             F == Frames(n)
  <2>1. /\ w # <<>> /\ At(c, "listening") /\ DOMAIN told' = Sessions /\ DOMAIN relay' = Sessions
        /\ told'[c].up = Applied(v, Head(w)) /\ DOMAIN told'[c] = {"local", "up"}
        /\ relay'[c] = Tail(w)
        /\ \A d \in Sessions \ {c} : told'[d] = told[d] /\ relay'[d] = relay[d]
        /\ UNCHANGED <<session, pump, link>>
    BY <1>3, <1>7 DEF RelayUpstream, ViewOf, ViewInv
  <2>2. w \in Seq(F) /\ link[c] \in Seq(F) /\ v \in [UpIds -> 0..n]
    BY <1>3 DEF Heard
  <2>3. Heard(c, pump[c].connection)'
    <3>1. Head(w) \in F /\ Tail(w) \in Seq(F)
      <4> HIDE DEF F, w
      <4> QED BY <2>1, <2>2
    <3>2. Applied(v, Head(w)) \in [UpIds -> 0..n]
      <4> HIDE DEF w, v, n
      <4> QED BY <1>3, <2>2, <3>1, AppliedTyped
    <3> QED BY <2>1, <2>2, <3>1, <3>2 DEF Heard
  <2>4. Attend(c)' <=> Attend(c)
    BY <2>1 DEF Attend
  <2>5. ASSUME Right(c), Attend(c) PROVE Right(c)'
    <3> SUFFICES ASSUME NEW i \in UpIds
                 PROVE  Shows(told'[c].up, relay'[c] \o link'[c], i, n)
                          <=> Shows(v, w \o link[c], i, n)
      BY <1>1, <2>1, <2>5 DEF Right
    <3> DEFINE x == w \o link[c]
    <3>1. x \in Seq(F) /\ x # <<>> /\ Head(x) = Head(w) /\ Tail(x) = Tail(w) \o link[c]
      <4> HIDE DEF F, w
      <4> QED BY <2>1, <2>2
    <3>2. n \in Nat \ {0}
      BY <1>3, <2>5 DEF ViewOf
    <3> HIDE DEF x, w, v, n
    <3>3. Shows(Applied(v, Head(x)), Tail(x), i, n) <=> Shows(v, x, i, n)
      BY <2>2, <3>1, <3>2, ShowsApplied
    <3> QED BY <2>1, <3>1, <3>3 DEF x
  <2>6. ViewOf(c)'
    BY <1>1, <1>3, <2>1, <2>3, <2>4, <2>5 DEF ViewOf, At
  <2>7. DOMAIN pump' = Sessions /\ DOMAIN link' = Sessions
    BY <2>1 DEF ViewInv
  <2> QED BY <1>1, <2>1, <2>6, <2>7, ViewsBeside
<1> QED BY <1>4, <1>5, <1>6, <1>7

LEMMA Passed ==
  ASSUME NEW F, NEW a \in Seq(F), NEW b \in Seq(F), b # <<>>
  PROVE  Append(a, Head(b)) \o Tail(b) = a \o b
<1> DEFINE x == Append(a, Head(b))
           t == Tail(b)
           m == Len(a)
           n == Len(b)
<1>1. /\ x \in Seq(F) /\ t \in Seq(F) /\ m \in Nat /\ n \in Nat \ {0} /\ Len(x) = m + 1
      /\ Len(t) = n - 1 /\ x[m + 1] = b[1]
      /\ \A k \in 1..m : x[k] = a[k]
      /\ \A k \in 1..(n - 1) : t[k] = b[k + 1]
  OBVIOUS
<1> HIDE DEF x, t, m, n
<1>2. /\ x \o t \in Seq(F) /\ DOMAIN (x \o t) = 1..((m + 1) + (n - 1))
      /\ \A k \in 1..(m + 1) : (x \o t)[k] = x[k]
      /\ \A k \in 1..(n - 1) : (x \o t)[(m + 1) + k] = t[k]
  <2>1. x \in Seq(F) /\ t \in Seq(F)
    BY <1>1
  <2>2. /\ DOMAIN x = 1..Len(x) /\ DOMAIN t = 1..Len(t)
        /\ x \o t \in Seq(F) /\ DOMAIN (x \o t) = 1..(Len(x) + Len(t))
        /\ \A k \in DOMAIN x : (x \o t)[k] = x[k]
        /\ \A k \in DOMAIN t : (x \o t)[Len(x) + k] = t[k]
    BY <2>1, Joined
  <2> QED BY <1>1, <2>2
<1>3. /\ a \o b \in Seq(F) /\ DOMAIN (a \o b) = 1..(m + n)
      /\ \A k \in 1..m : (a \o b)[k] = a[k]
      /\ \A k \in 1..n : (a \o b)[m + k] = b[k]
  BY <1>1 DEF m, n
<1> DEFINE p == x \o t
           q == a \o b
<1> HIDE DEF p, q
<1>4. ASSUME NEW k \in 1..(m + n) PROVE p[k] = q[k]
  <2>1. CASE k <= m
    <3>1. k \in 1..m /\ k \in 1..(m + 1)
      BY <1>1, <2>1
    <3> QED BY <1>1, <1>2, <1>3, <3>1 DEF p, q
  <2>2. CASE k = m + 1
    <3>1. k \in 1..(m + 1) /\ 1 \in 1..n
      BY <1>1, <2>2
    <3> QED BY <1>1, <1>2, <1>3, <2>2, <3>1 DEF p, q
  <2>3. CASE k > m + 1
    <3> DEFINE j == k - (m + 1)
    <3>1. j \in 1..(n - 1) /\ j + 1 \in 1..n /\ k = (m + 1) + j /\ k = m + (j + 1)
      BY <1>1, <2>3
    <3> HIDE DEF j
    <3>2. p[k] = t[j] /\ q[k] = b[j + 1]
      BY <1>2, <1>3, <3>1 DEF p, q
    <3> QED BY <1>1, <3>1, <3>2
  <2> QED BY <1>1, <2>1, <2>2, <2>3
<1>5. /\ p \in Seq(F) /\ q \in Seq(F) /\ DOMAIN p = 1..(m + n) /\ DOMAIN q = 1..(m + n)
      /\ Len(p) \in Nat /\ Len(q) \in Nat
  BY <1>1, <1>2, <1>3 DEF p, q
<1>6. p = [k \in DOMAIN p |-> p[k]] /\ q = [k \in DOMAIN q |-> q[k]]
  BY <1>5
<1>7. p = q
  BY <1>4, <1>5, <1>6
<1> QED BY <1>7 DEF p, q, x, t

LEMMA AppendedLast ==
  ASSUME NEW F, NEW a \in Seq(F), NEW b \in Seq(F), NEW f \in F
  PROVE  a \o Append(b, f) = Append(a \o b, f)
<1> DEFINE w == a \o b
           o == <<f>>
<1>1. w \in Seq(F) /\ o \in Seq(F)
  OBVIOUS
<1>2. Append(b, f) = b \o o
  BY AppendIsConcat
<1> HIDE DEF o
<1>3. a \o (b \o o) = w \o o
  BY <1>1, ConcatAssociative
<1> HIDE DEF w
<1>4. Append(w, f) = w \o o
  BY <1>1, AppendIsConcat DEF o
<1> QED BY <1>2, <1>3, <1>4 DEF w

LEMMA FrontTyped ==
  ASSUME NEW F, NEW a \in Seq(F), a # <<>>
  PROVE  Front(a) \in Seq(F)
<1> QED BY DEF Front

LEMMA HeardLonger ==
  ASSUME NEW c, NEW m \in Nat, NEW n \in Nat, m <= n, Heard(c, m)
  PROVE  Heard(c, n)
<1>1. \A f \in Frames(m) : f \in Frames(n)
  BY FrameFacts
<1>2. 0..m \subseteq 0..n
  OBVIOUS
<1> DEFINE F == Frames(m)
           G == Frames(n)
<1>3. Seq(F) \subseteq Seq(G)
  <2>1. \A f \in F : f \in G
    BY <1>1
  <2> HIDE DEF F, G
  <2> SUFFICES ASSUME NEW s \in Seq(F) PROVE s \in Seq(G)
    OBVIOUS
  <2> QED BY <2>1
<1> QED BY <1>2, <1>3 DEF Heard

(* open_upstream_listen: the new connection lists the devices, after        *)
(* whatever the earlier ones left on the way.                               *)
LEMMA ConnectKeepsView ==
  ASSUME SessionTypes, ViewInv, NEW c \in Sessions, PumpConnects(c), upstream.up
  PROVE  ViewInv'
<1> DEFINE m == pump[c].connection
           n == m + 1
           S == {Frame("Attached", i, n) : i \in upstream.devices}
           q == SetToSeq(S)
           r == Frame("Result", 0, n)
           b == <<r>> \o q
           F == Frames(n)
<1>1. UNCHANGED <<upstream, told, session>>
  BY DEF PumpConnects, PumpStep
<1>2. ViewOf(c) /\ pump[c] \in PumpType /\ Heard(c, m) /\ m \in Nat /\ n \in Nat \ {0}
  BY DEF ViewInv, ViewOf, PumpType
<1>3. /\ pump' = [pump EXCEPT ![c].pc = "opening", ![c].connection = n, ![c].linked = TRUE]
      /\ link' = [link EXCEPT ![c] = b] /\ relay' = relay /\ pump[c].pc = "connecting"
  BY DEF PumpConnects
<1>4. /\ pump'[c].pc = "opening" /\ pump'[c].connection = n /\ pump'[c].linked
      /\ pump'[c] \in PumpType /\ link'[c] = b
      /\ DOMAIN pump' = Sessions /\ DOMAIN link' = Sessions
      /\ \A d \in Sessions \ {c} : pump'[d] = pump[d] /\ link'[d] = link[d]
  <2> HIDE DEF b, n
  <2> QED BY <1>2, <1>3 DEF PumpType, ViewInv
<1>5. At(c, "listening") \/ At(c, "closed")
  BY <1>2, <1>3 DEF ViewOf
<1>6. Heard(c, n)
  <2> HIDE DEF m
  <2>1. m <= n /\ n \in Nat
    BY <1>2
  <2> HIDE DEF n
  <2> QED BY <1>2, <2>1, HeardLonger
<1>7. r \in F /\ r.type = "Result" /\ r.id = 0 /\ S \subseteq F
  <2> HIDE DEF m
  <2>1. n \in 0..n
    BY <1>2
  <2> HIDE DEF n
  <2> QED BY <2>1 DEF Frame, Frames, SessionTypes
<1>8. IsFiniteSet(S)
  <2> DEFINE U == upstream.devices
             f == [i \in U |-> Frame("Attached", i, n)]
  <2>1. f \in Surjection(U, S)
    BY DEF Surjection
  <2>2. IsFiniteSet(U)
    <3>1. UpIds \subseteq Nat /\ Base \in Nat /\ \A i \in UpIds : i <= Base
      BY SessionAssumption
    <3>2. UpIds \in SUBSET Nat
      BY <3>1
    <3>3. IsFiniteSet(UpIds)
      BY <3>1, <3>2, FS_BoundedSetOfNaturals
    <3>4. U \in SUBSET UpIds
      BY DEF SessionTypes
    <3> QED BY <3>3, <3>4, FS_Subset
  <2> HIDE DEF U, f, S
  <2> QED BY <2>1, <2>2, FS_Surjection
<1>9. /\ q \in Seq(S)
      /\ \A x \in S : \E k \in DOMAIN q : q[k] = x
      /\ \A j, k \in DOMAIN q : q[j] = q[k] => j = k
  <2> HIDE DEF S
  <2> QED BY <1>8, Listing
<1>10. \A x \in S : /\ x.type = "Attached" /\ x.connection = n /\ x.id \in upstream.devices
                    /\ x = Frame("Attached", x.id, n)
  BY DEF Frame
<1>11. \A i \in upstream.devices : Frame("Attached", i, n) \in S /\ Frame("Attached", i, n).id = i
  BY DEF Frame
<1>12. upstream.devices \subseteq UpIds /\ 0 \notin UpIds
  BY SessionAssumption DEF SessionTypes
<1> HIDE DEF S, r, q
<1>13. /\ Len(q) \in Nat /\ b \in Seq(F) /\ b[1] = r /\ DOMAIN b = 1..(Len(q) + 1)
       /\ b # <<>> /\ Head(b) = r /\ \A k \in 1..Len(q) : b[k + 1] = q[k]
  <2> HIDE DEF F
  <2>1. q \in Seq(F) /\ <<r>> \in Seq(F)
    BY <1>7, <1>9
  <2> QED BY <2>1, <1>7
<1> HIDE DEF b, n
<1>14. \A k \in DOMAIN b : k = 1 \/ \E h \in DOMAIN q : k = h + 1 /\ b[k] = q[h] /\ q[h] \in S
  <2> SUFFICES ASSUME NEW k \in DOMAIN b, k # 1
               PROVE  \E h \in DOMAIN q : k = h + 1 /\ b[k] = q[h] /\ q[h] \in S
    OBVIOUS
  <2> DEFINE h == k - 1
  <2>1. h \in 1..Len(q) /\ k = h + 1
    BY <1>13
  <2>2. h \in DOMAIN q /\ q[h] \in S
    BY <1>9, <2>1
  <2> HIDE DEF h
  <2> QED BY <1>13, <2>1, <2>2
<1>15. Heard(c, pump[c].connection)'
  BY <1>1, <1>3, <1>4, <1>6, <1>13 DEF Heard
<1>16. Right(c)'
  <2> SUFFICES ASSUME NEW i \in UpIds
               PROVE  Shows(told[c].up, relay[c] \o b, i, n) <=> i \in upstream.devices
    BY <1>1, <1>3, <1>4 DEF Right
  <2>1. relay[c] \in Seq(F)
    BY <1>6 DEF Heard
  <2>2. told[c].up[i] # n
    BY <1>2 DEF Heard, n
  <2>3. \A k \in DOMAIN relay[c] : relay[c][k].connection # n
    <3> DEFINE G == Frames(m)
    <3>1. relay[c] \in Seq(G)
      BY <1>2 DEF Heard
    <3>2. \A k \in DOMAIN relay[c] : relay[c][k] \in G
      <4> HIDE DEF G
      <4> QED BY <3>1
    <3> SUFFICES ASSUME NEW k \in DOMAIN relay[c] PROVE relay[c][k].connection # n
      OBVIOUS
    <3>3. relay[c][k].connection \in 0..m
      <4> HIDE DEF m
      <4> QED BY <1>2, <3>2, FrameFacts
    <3> QED BY <1>2, <3>3 DEF n
  <2>4. \A k \in DOMAIN b : b[k].id = i => b[k].type = "Attached" /\ b[k].connection = n
    BY <1>7, <1>10, <1>12, <1>13, <1>14
  <2>5. ASSUME NEW j \in DOMAIN b, NEW k \in DOMAIN b, b[j].id = i, b[k].id = i PROVE j = k
    <3>1. j # 1 /\ k # 1
      BY <1>7, <1>12, <1>13, <2>5
    <3>2. PICK g \in DOMAIN q : j = g + 1 /\ b[j] = q[g] /\ q[g] \in S
      BY <1>14, <3>1
    <3>3. PICK h \in DOMAIN q : k = h + 1 /\ b[k] = q[h] /\ q[h] \in S
      BY <1>14, <3>1
    <3>4. q[g] = q[h]
      BY <1>10, <2>5, <3>2, <3>3
    <3> QED BY <1>9, <3>2, <3>3, <3>4
  <2>6. (\E k \in DOMAIN b : b[k].id = i) <=> i \in upstream.devices
    <3>1. ASSUME i \in upstream.devices PROVE \E k \in DOMAIN b : b[k].id = i
      <4>1. PICK h \in DOMAIN q : q[h] = Frame("Attached", i, n)
        BY <1>9, <1>11, <3>1
      <4> DEFINE k == h + 1
      <4>2. k \in DOMAIN b /\ b[k] = q[h]
        BY <1>9, <1>13
      <4> HIDE DEF k
      <4> QED BY <1>11, <3>1, <4>1, <4>2
    <3>2. ASSUME NEW k \in DOMAIN b, b[k].id = i PROVE i \in upstream.devices
      BY <1>7, <1>10, <1>12, <1>13, <1>14, <3>2
    <3> QED BY <3>1, <3>2
  <2> DEFINE view == told[c].up
             a == relay[c]
  <2>7. NeverSaid(view, a, i, n)
    BY <2>2, <2>3 DEF NeverSaid
  <2>8. SaysOnce(b, i, n)
    BY <2>4, <2>5 DEF SaysOnce
  <2>9. b \in Seq(F) /\ a \in Seq(F) /\ n \in Nat
    BY <1>2, <1>13, <2>1 DEF n
  <2> HIDE DEF F, view, a
  <2>10. Shows(view, a \o b, i, n) <=> Says(b, i)
    BY <2>7, <2>8, <2>9, ShowsReplay
  <2> QED BY <2>6, <2>10 DEF view, a, Says
<1>17. ViewOf(c)'
  <2>1. pump'[c].connection # 0 /\ Attend(c)' /\ DOMAIN told'[c] = {"local", "up"}
    BY <1>1, <1>2, <1>4 DEF Attend, ViewOf, n
  <2>2. link'[c] # <<>> /\ Head(link'[c]).type = "Result"
    BY <1>4, <1>7, <1>13
  <2>3. At(c, "listening")' \/ At(c, "closed")'
    BY <1>1, <1>5 DEF At
  <2> QED BY <1>1, <1>4, <1>15, <1>16, <2>1, <2>2, <2>3 DEF ViewOf
<1>18. DOMAIN told' = Sessions /\ DOMAIN relay' = Sessions
  BY <1>1, <1>3 DEF ViewInv
<1> QED BY <1>1, <1>3, <1>4, <1>17, <1>18, ViewsBeside

LEMMA PumpKeepsView ==
  ASSUME SessionTypes, ViewInv, NEW c \in Sessions, PumpAct(c) \/ PumpAborted(c)
  PROVE  ViewInv'
<1> DEFINE n == pump[c].connection
           F == Frames(n)
           Alone == /\ DOMAIN pump' = Sessions /\ DOMAIN relay' = Sessions /\ DOMAIN link' = Sessions
                    /\ \A d \in Sessions \ {c} : /\ pump'[d] = pump[d] /\ relay'[d] = relay[d]
                                                 /\ link'[d] = link[d]
<1>1. UNCHANGED <<upstream, told, session>>
  BY DEF PumpAct, PumpConnects, PumpOpens, PumpReads, PumpDropped, PumpWakes, PumpAborted,
         PumpStep
<1>2. /\ ViewOf(c) /\ pump[c] \in PumpType /\ n \in Nat
      /\ relay[c] \in Seq(F) /\ link[c] \in Seq(F) /\ told[c].up \in [UpIds -> 0..n]
  BY DEF ViewInv, ViewOf, PumpType, Heard
<1>3. ASSUME Alone, ViewOf(c)' PROVE ViewInv'
  <2>1. DOMAIN told' = Sessions
    BY <1>1 DEF ViewInv
  <2> QED BY <1>1, <1>3, <2>1, ViewsBeside
<1>4. /\ pump[c].pc # "off" => At(c, "listening")' \/ At(c, "closed")'
      /\ At(c, "listening")' <=> At(c, "listening")
      /\ DOMAIN told'[c] = {"local", "up"}
  BY <1>1, <1>2 DEF ViewOf, At
(* A pump whose connection does not stand.                                 *)
<1>5. ASSUME Alone, pump[c].pc # "off", ~Attend(c)', pump'[c].connection = n,
             pump'[c] \in PumpType, relay'[c] \in Seq(F), link'[c] \in Seq(F)
      PROVE  ViewInv'
  <2>1. Heard(c, pump[c].connection)'
    BY <1>1, <1>2, <1>5 DEF Heard
  <2>2. ViewOf(c)'
    BY <1>4, <1>5, <2>1 DEF ViewOf
  <2> QED BY <1>3, <1>5, <2>2
<1>6. CASE PumpDropped(c) \/ PumpWakes(c) \/ (PumpConnects(c) /\ ~upstream.up)
  <2>1. /\ UNCHANGED <<relay, link>> /\ pump[c].pc # "off"
        /\ \/ pump' = [pump EXCEPT ![c].pc = "sleeping"]
           \/ pump' = [pump EXCEPT ![c].pc = "connecting"]
    BY <1>6 DEF PumpDropped, PumpWakes, PumpConnects, PumpPc
  <2>2. /\ Alone /\ pump'[c].connection = n /\ pump'[c] \in PumpType
        /\ pump'[c].pc \in {"sleeping", "connecting"}
    BY <1>2, <2>1 DEF ViewInv, PumpType
  <2>3. ~Attend(c)'
    BY <2>2 DEF Attend
  <2>4. relay'[c] \in Seq(F) /\ link'[c] \in Seq(F)
    BY <1>2, <2>1
  <2> HIDE DEF F, n
  <2> QED BY <1>5, <2>1, <2>2, <2>3, <2>4
<1>7. ASSUME PumpEnds(c), UNCHANGED relay, pump[c].pc # "off" PROVE ViewInv'
  <2>1. /\ Alone /\ pump'[c].connection = n /\ pump'[c] \in PumpType
        /\ pump'[c].pc = "off" /\ link'[c] = <<>>
    BY <1>2, <1>7 DEF ViewInv, PumpType, PumpEnds
  <2>2. ~Attend(c)'
    BY <2>1 DEF Attend
  <2>3. relay'[c] \in Seq(F) /\ link'[c] \in Seq(F)
    <3>1. relay'[c] \in Seq(F)
      BY <1>2, <1>7
    <3> HIDE DEF F
    <3> QED BY <2>1, <3>1
  <2> HIDE DEF F, n
  <2> QED BY <1>5, <1>7, <2>1, <2>2, <2>3
<1>8. CASE PumpAborted(c)
  BY <1>7, <1>8 DEF PumpAborted
(* A pump that reads on.                                                   *)
<1>9. ASSUME pump'[c].connection = n, pump'[c].linked = pump[c].linked, pump'[c] \in PumpType,
             Alone, pump'[c].pc = "reading", pump[c].pc \in {"opening", "reading"},
             relay'[c] \in Seq(F), link'[c] \in Seq(F),
             At(c, "listening") /\ Attend(c) => Right(c)'
      PROVE  ViewInv'
  <2>1. Attend(c)' <=> Attend(c)
    BY <1>9 DEF Attend
  <2>2. Heard(c, pump[c].connection)'
    BY <1>1, <1>2, <1>9 DEF Heard
  <2>3. ViewOf(c)'
    BY <1>1, <1>2, <1>4, <1>9, <2>1, <2>2 DEF ViewOf
  <2> QED BY <1>3, <1>9, <2>3
<1>10. CASE PumpOpens(c)
  <2> DEFINE t == Tail(link[c])
  <2>1. /\ pump' = [pump EXCEPT ![c].pc = "reading"] /\ link' = [link EXCEPT ![c] = t]
        /\ relay' = relay /\ pump[c].pc = "opening" /\ link[c] # <<>>
    BY <1>10 DEF PumpOpens, PumpPc
  <2>2. /\ pump'[c].connection = n /\ pump'[c].linked = pump[c].linked /\ Alone
        /\ pump'[c] \in PumpType /\ pump'[c].pc = "reading" /\ link'[c] = t
    <3> HIDE DEF t
    <3> QED BY <1>2, <2>1 DEF PumpType, ViewInv
  <2>3. t \in Seq(F) /\ relay'[c] \in Seq(F)
    <3>1. relay'[c] = relay[c]
      BY <2>1
    <3> HIDE DEF F
    <3> QED BY <1>2, <2>1, <3>1
  <2>4. ASSUME At(c, "listening"), Attend(c) PROVE Right(c)'
    <3>1. Right(c) /\ Head(link[c]).type = "Result"
      BY <1>2, <2>1, <2>4 DEF ViewOf
    <3> SUFFICES ASSUME NEW i \in UpIds
                 PROVE  Shows(told[c].up, relay[c] \o t, i, n)
                          <=> Shows(told[c].up, relay[c] \o link[c], i, n)
      BY <1>1, <2>1, <2>2, <3>1 DEF Right
    <3> DEFINE v == told[c].up
               a == relay[c]
               b == link[c]
    <3>2. a \in Seq(Frames(n)) /\ b \in Seq(Frames(n)) /\ b # <<>> /\ Head(b).type = "Result"
      BY <1>2, <2>1, <3>1
    <3> HIDE DEF v, a, b, n
    <3>3. Shows(v, a \o Tail(b), i, n) <=> Shows(v, a \o b, i, n)
      BY <1>2, <3>2, ShowsOpened
    <3> QED BY <3>3 DEF v, a, b
  <2> HIDE DEF t, F, n
  <2> QED BY <1>9, <2>1, <2>2, <2>3, <2>4
<1>11. CASE PumpReads(c) /\ At(c, "listening")
  <2> DEFINE h == Head(link[c])
             t == Tail(link[c])
             w == Append(relay[c], h)
  <2>1. /\ pump' = pump /\ link' = [link EXCEPT ![c] = t]
        /\ relay' = [relay EXCEPT ![c] = w] /\ pump[c].pc = "reading" /\ link[c] # <<>>
    BY <1>11 DEF PumpReads
  <2>2. Alone /\ link'[c] = t /\ relay'[c] = w
    <3> HIDE DEF t, w
    <3> QED BY <1>2, <2>1 DEF ViewInv
  <2>3. t \in Seq(F) /\ w \in Seq(F) /\ w \o t = relay[c] \o link[c]
    <3> HIDE DEF F
    <3>1. t \in Seq(F) /\ h \in F
      BY <1>2, <2>1
    <3>2. w \in Seq(F)
      <4> HIDE DEF h
      <4> QED BY <1>2, <3>1
    <3>3. w \o t = relay[c] \o link[c]
      BY <1>2, <2>1, Passed
    <3> QED BY <3>1, <3>2, <3>3
  <2>4. ASSUME At(c, "listening"), Attend(c) PROVE Right(c)'
    <3>1. Right(c)
      BY <1>2, <2>4 DEF ViewOf
    <3> HIDE DEF t, w
    <3> QED BY <1>1, <2>1, <2>2, <2>3, <3>1 DEF Right
  <2>5. pump'[c] = pump[c]
    BY <2>1
  <2> HIDE DEF t, w, F, n
  <2> QED BY <1>2, <1>9, <2>1, <2>2, <2>3, <2>4, <2>5 DEF n
<1>12. CASE PumpReads(c) /\ ~At(c, "listening")
  <2>1. PumpEnds(c) /\ UNCHANGED relay /\ pump[c].pc # "off"
    BY <1>12 DEF PumpReads
  <2> QED BY <1>7, <2>1
<1>13. CASE PumpConnects(c) /\ upstream.up
  BY <1>13, ConnectKeepsView
<1> QED BY <1>6, <1>8, <1>10, <1>11, <1>12, <1>13 DEF PumpAct

(* The devices of the upstream, and the frames that tell of them.          *)
LEMMA DevicesKeepView ==
  ASSUME SessionTypes, ViewInv, NEW id \in UpIds, UpstreamAttaches(id) \/ UpstreamDetaches(id)
  PROVE  ViewInv'
<1> DEFINE kind == IF UpstreamAttaches(id) THEN "Attached" ELSE "Detached"
           D == upstream'.devices
<1>1. UNCHANGED <<session, told, pump, relay>>
  BY DEF UpstreamAttaches, UpstreamDetaches, UpstreamStep
<1>2. upstream \in [up : BOOLEAN, devices : SUBSET UpIds, epoch : Nat]
  BY DEF SessionTypes
<1>3. /\ UpstreamAttaches(id) => D = upstream.devices \cup {id}
      /\ ~UpstreamAttaches(id) => D = upstream.devices \ {id}
  BY <1>2 DEF UpstreamAttaches, UpstreamDetaches
<1>4. /\ D = IF kind = "Attached" THEN upstream.devices \cup {id} ELSE upstream.devices \ {id}
      /\ kind \in {"Attached", "Detached"} /\ upstream'.up = upstream.up
  BY <1>2, <1>3 DEF UpstreamAttaches, UpstreamDetaches
<1>5. link' = [c \in Sessions |-> IF Attend(c)
                                 THEN Append(link[c], Frame(kind, id, pump[c].connection))
                                 ELSE link[c]]
  BY DEF UpstreamAttaches, UpstreamDetaches, Send
<1> HIDE DEF kind, D
<1>6. ASSUME NEW c \in Sessions PROVE ViewOf(c)'
  <2> DEFINE n == pump[c].connection
             f == Frame(kind, id, n)
             F == Frames(n)
             l == Append(link[c], f)
             w == relay[c] \o link[c]
  <2>1. /\ Attend(c)' <=> Attend(c)
        /\ At(c, "listening")' <=> At(c, "listening")
        /\ At(c, "closed")' <=> At(c, "closed")
    BY <1>1 DEF Attend, At
  <2>2. /\ ViewOf(c) /\ pump[c] \in PumpType /\ n \in Nat
        /\ relay[c] \in Seq(F) /\ link[c] \in Seq(F) /\ told[c].up \in [UpIds -> 0..n]
    BY DEF ViewInv, ViewOf, PumpType, Heard
  <2>3. CASE ~Attend(c)
    <3>1. link'[c] = link[c]
      BY <1>5, <2>3
    <3>2. Heard(c, pump[c].connection)'
      BY <1>1, <2>2, <3>1 DEF Heard
    <3> QED BY <1>1, <2>1, <2>2, <2>3, <3>2 DEF ViewOf
  <2>4. CASE Attend(c)
    <3>1. /\ f \in F /\ f.id = id /\ f.connection = n /\ f.type = kind
      <4>1. n \in 0..n
        BY <2>2
      <4> HIDE DEF n
      <4> QED BY <1>4, <4>1 DEF Frame, Frames
    <3> HIDE DEF f
    <3>2. link'[c] = l
      BY <1>5, <2>4 DEF f
    <3>3. /\ l \in Seq(F) /\ w \in Seq(F) /\ relay[c] \o l = Append(w, f) /\ l # <<>>
          /\ (link[c] # <<>> => Head(l) = Head(link[c]))
      <4> HIDE DEF F
      <4> DEFINE a == relay[c]
                 b == link[c]
      <4>1. a \in Seq(F) /\ b \in Seq(F) /\ f \in F
        BY <2>2, <3>1
      <4> HIDE DEF a, b
      <4>2. Append(b, f) \in Seq(F) /\ a \o b \in Seq(F)
        BY <4>1
      <4>3. Append(b, f) # <<>> /\ (b # <<>> => Head(Append(b, f)) = Head(b))
        <5>1. Append(b, f) # <<>> /\ \A k \in 1..Len(b) : Append(b, f)[k] = b[k]
          BY <4>1, AppendProperties
        <5>2. b # <<>> => 1 \in 1..Len(b)
          BY <4>1
        <5>3. Head(b) = b[1] /\ Head(Append(b, f)) = Append(b, f)[1]
          OBVIOUS
        <5> QED BY <5>1, <5>2, <5>3
      <4>4. a \o Append(b, f) = Append(a \o b, f)
        BY <4>1, AppendedLast
      <4> QED BY <4>2, <4>3, <4>4 DEF a, b
    <3> HIDE DEF l
    <3>4. Heard(c, pump[c].connection)'
      BY <1>1, <2>2, <3>2, <3>3 DEF Heard
    <3>5. ASSUME At(c, "listening") PROVE Right(c)'
      <4>0. Right(c)
        BY <2>2, <2>4, <3>5 DEF ViewOf
      <4> SUFFICES ASSUME NEW i \in UpIds
                   PROVE  Shows(told[c].up, Append(w, f), i, n) <=> i \in D
        BY <1>1, <3>2, <3>3 DEF Right, D
      <4> DEFINE v == told[c].up
      <4>1. w \in Seq(Frames(n)) /\ f \in Frames(n) /\ n \in Nat
        BY <2>2, <3>1, <3>3
      <4>2. Shows(v, w, i, n) <=> i \in upstream.devices
        BY <4>0 DEF Right
      <4> HIDE DEF w, v, n, F
      <4>3. Shows(v, Append(w, f), i, n)
              <=> IF f.id = i THEN f.type = "Attached" /\ f.connection = n ELSE Shows(v, w, i, n)
        BY <4>1, ShowsAppended
      <4>4. Shows(v, Append(w, f), i, n) <=> i \in D
        BY <1>4, <3>1, <4>2, <4>3
      <4> QED BY <4>4 DEF v
    <3> QED BY <1>1, <2>1, <2>2, <2>4, <3>2, <3>3, <3>4, <3>5, <1>4 DEF ViewOf
  <2> QED BY <2>3, <2>4
<1>7. /\ DOMAIN told' = Sessions /\ DOMAIN pump' = Sessions
      /\ DOMAIN relay' = Sessions /\ DOMAIN link' = Sessions
  BY <1>1, <1>5 DEF ViewInv
<1> QED BY <1>6, <1>7 DEF ViewInv

(* Connections that break, what is lost with them, and the upstream's life.*)
LEMMA BreaksKeepView ==
  ASSUME SessionTypes, ViewInv,
         \/ UpstreamCrashes \/ UpstreamRestarts
         \/ \E d \in Sessions : StreamDrops(d) \/ FrameLost(d)
  PROVE  ViewInv'
<1>1. UNCHANGED <<session, told, relay>>
  BY DEF UpstreamCrashes, UpstreamRestarts, StreamDrops, FrameLost, UpstreamStep
<1>2. ASSUME NEW c \in Sessions, pump'[c] \in PumpType,
             pump'[c].pc = pump[c].pc, pump'[c].connection = pump[c].connection,
             Attend(c)' => Attend(c) /\ link'[c] = link[c] /\ upstream' = upstream,
             link'[c] \in Seq(Frames(pump[c].connection))
      PROVE  ViewOf(c)'
  <2>1. ViewOf(c)
    BY DEF ViewInv
  <2>2. Heard(c, pump[c].connection)'
    BY <1>1, <1>2, <2>1 DEF ViewOf, Heard
  <2>3. At(c, "listening") /\ Attend(c)' => Right(c)'
    BY <1>1, <1>2, <2>1 DEF ViewOf, Right
  <2> QED BY <1>1, <1>2, <2>1, <2>2, <2>3 DEF ViewOf, At
<1>3. ASSUME NEW c \in Sessions
      PROVE  pump[c] \in PumpType /\ link[c] \in Seq(Frames(pump[c].connection))
  BY <1>3 DEF ViewInv, ViewOf, Heard
<1>4. ASSUME DOMAIN pump' = Sessions, DOMAIN link' = Sessions, \A c \in Sessions : ViewOf(c)'
      PROVE  ViewInv'
  BY <1>1, <1>4 DEF ViewInv
<1>5. CASE UpstreamCrashes
  <2>1. pump' = [c \in Sessions |-> [pump[c] EXCEPT !.linked = FALSE]] /\ link' = link
    BY <1>5 DEF UpstreamCrashes
  <2>2. ASSUME NEW c \in Sessions PROVE ViewOf(c)'
    <3>1. /\ pump'[c] \in PumpType /\ pump'[c].pc = pump[c].pc
          /\ pump'[c].connection = pump[c].connection /\ ~pump'[c].linked
      BY <1>3, <2>1 DEF PumpType
    <3>2. ~Attend(c)'
      BY <3>1 DEF Attend
    <3>3. link'[c] \in Seq(Frames(pump[c].connection))
      BY <1>3, <2>1
    <3> QED BY <1>2, <3>1, <3>2, <3>3
  <2> QED BY <1>4, <2>1, <2>2 DEF ViewInv
<1>6. CASE UpstreamRestarts
  <2>1. UNCHANGED <<pump, link>> /\ ~upstream.up
    BY <1>6 DEF UpstreamRestarts
  <2>2. ASSUME NEW c \in Sessions PROVE ViewOf(c)'
    <3>1. ~Attend(c)
      BY <2>1 DEF ViewInv, ViewOf
    <3>2. Attend(c)' <=> Attend(c)
      BY <2>1 DEF Attend
    <3> QED BY <1>2, <1>3, <2>1, <3>1, <3>2
  <2> QED BY <1>4, <2>1, <2>2 DEF ViewInv
<1>7. ASSUME NEW d \in Sessions, StreamDrops(d) PROVE ViewInv'
  <2>1. pump' = [pump EXCEPT ![d].linked = FALSE] /\ UNCHANGED <<upstream, link>>
    BY <1>7 DEF StreamDrops
  <2>2. ASSUME NEW c \in Sessions PROVE ViewOf(c)'
    <3>1. /\ pump'[c] \in PumpType /\ pump'[c].pc = pump[c].pc
          /\ pump'[c].connection = pump[c].connection
          /\ pump'[c].linked => pump[c].linked
      BY <1>3, <2>1 DEF PumpType, ViewInv
    <3>2. Attend(c)' => Attend(c)
      BY <3>1 DEF Attend
    <3>3. link'[c] \in Seq(Frames(pump[c].connection)) /\ link'[c] = link[c]
      BY <1>3, <2>1
    <3> QED BY <1>2, <2>1, <3>1, <3>2, <3>3
  <2> QED BY <1>4, <2>1, <2>2 DEF ViewInv
<1>8. ASSUME NEW d \in Sessions, FrameLost(d) PROVE ViewInv'
  <2>1. /\ link' = [link EXCEPT ![d] = Front(link[d])] /\ UNCHANGED <<upstream, pump>>
        /\ ~pump[d].linked /\ link[d] # <<>>
    BY <1>8 DEF FrameLost, ViewInv
  <2>2. ASSUME NEW c \in Sessions PROVE ViewOf(c)'
    <3> DEFINE F == Frames(pump[c].connection)
    <3>1. Attend(c)' <=> Attend(c)
      BY <2>1 DEF Attend
    <3>2. CASE c # d
      <4>1. link'[c] = link[c]
        BY <2>1, <3>2 DEF ViewInv
      <4> QED BY <1>2, <1>3, <2>1, <3>1, <4>1
    <3>3. CASE c = d
      <4>1. link'[c] = Front(link[c]) /\ ~Attend(c)
        BY <2>1, <3>3 DEF ViewInv, Attend
      <4>2. Front(link[c]) \in Seq(F)
        <5>1. link[c] \in Seq(F) /\ link[c] # <<>>
          BY <1>3, <2>1, <3>3
        <5> HIDE DEF F
        <5> QED BY <5>1, FrontTyped
      <4> QED BY <1>2, <1>3, <2>1, <3>1, <4>1, <4>2
    <3> QED BY <3>2, <3>3
  <2> QED BY <1>4, <2>1, <2>2 DEF ViewInv
<1> QED BY <1>5, <1>6, <1>7, <1>8

LEMMA ViewStarts == Init => ViewInv
<1> SUFFICES ASSUME Init PROVE ViewInv
  OBVIOUS
<1>1. /\ session = [c \in Sessions |-> [pc |-> "waiting", request |-> NoRequest, epoch |-> 0]]
      /\ told = [c \in Sessions |-> [local |-> 0, up |-> [i \in UpIds |-> 0]]]
      /\ pump = [c \in Sessions |->
                   [pc |-> "off", connection |-> 0, linked |-> FALSE, aborted |-> FALSE]]
      /\ link = [c \in Sessions |-> <<>>] /\ relay = [c \in Sessions |-> <<>>]
  BY DEF Init
<1>2. ASSUME NEW c \in Sessions PROVE ViewOf(c)
  <2>1. /\ session[c].pc = "waiting" /\ told[c].up = [i \in UpIds |-> 0]
        /\ DOMAIN told[c] = {"local", "up"} /\ pump[c] \in PumpType
        /\ pump[c].pc = "off" /\ pump[c].connection = 0 /\ relay[c] = <<>> /\ link[c] = <<>>
    BY <1>1 DEF PumpType
  <2>2. ~Attend(c) /\ Heard(c, 0)
    BY <2>1 DEF Attend, Heard
  <2> QED BY <2>1, <2>2 DEF ViewOf, At
<1> QED BY <1>1, <1>2 DEF ViewInv

LEMMA ViewKept == SessionTypes /\ ViewInv /\ [Next]_vars => ViewInv'
<1> SUFFICES ASSUME SessionTypes, ViewInv, [Next]_vars PROVE ViewInv'
  OBVIOUS
<1>1. ASSUME UNCHANGED <<upstream, session, told, pump, link, relay>> PROVE ViewInv'
  <2>1. ASSUME NEW d \in Sessions PROVE ViewOf(d)'
    <3>1. ViewOf(d) /\ (At(d, "listening")' <=> At(d, "listening"))
          /\ (At(d, "closed") => At(d, "closed")')
      BY <1>1 DEF ViewInv, At
    <3> QED BY <1>1, <3>1, ViewAside
  <2> QED BY <1>1, <2>1 DEF ViewInv
<1>2. ASSUME NEW c \in Sessions,
             \/ ReadRequest(c) \/ Serve(c) \/ ClientCloses(c)
             \/ RelayLocal(c) \/ RelayUpstream(c) \/ ListenEnds(c)
             \/ PumpAct(c) \/ PumpAborted(c)
      PROVE  ViewInv'
  BY <1>2, ServingKeepsView, ListenKeepsView, PumpKeepsView DEF Serve
<1>3. CASE \/ ManagerStep \/ StoreStep \/ \E c \in Callers : IdentityCall(c)
           \/ UNCHANGED vars
  BY <1>1, <1>3 DEF ManagerStep, StoreStep, IdentityCall, vars, listenVars
<1> QED BY <1>2, <1>3, DevicesKeepView, BreaksKeepView DEF Next

(* While the connection of a pump stands, what its client was told over it *)
(* and what is on the way add up to the devices of the upstream, whatever  *)
(* dropped, crashed, restarted and was replayed before                     *)
(* (upstream_listen_pump).                                                 *)
THEOREM ViewsAreFresh == Spec => []UpstreamViewFresh
<1>1. ViewInv => UpstreamViewFresh
  BY DEF ViewInv, ViewOf, Right, UpstreamViewFresh
<1>2. SessionInv => SessionTypes
  BY DEF SessionInv
<1> QED BY <1>1, <1>2, SessionStarts, SessionInvKept, ViewStarts, ViewKept, PTL DEF Spec
=============================================================================
