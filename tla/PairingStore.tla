---------------------------- MODULE PairingStore ----------------------------
(***************************************************************************)
(* The pairing records and the host identity (src/src/pairing_file.rs),    *)
(* with the tasks that read and write them: pairing a phone over USB       *)
(* (daemon/mod.rs) and finding the phone behind an mDNS service (mdns.rs). *)
(* Files are written in place, so a reader may meet a truncated one: a     *)
(* file is "whole" when it can be opened, read and parsed. A host id is    *)
(* named by the call that made it up.                                      *)
(***************************************************************************)
EXTENDS Naturals, FiniteSets

CONSTANTS
  Phones,               \* phones; a phone's record is named by its UDID
  Readers,              \* client sessions that ask for the host identity
  SystemConfiguration,  \* the file with the host identity
  AnotherHost,          \* a host id that netmuxd did not make up
  None,
  OldRecords,           \* bound: the phones that may have a record at the start
  Services,             \* bound: the phones that are announced by mDNS
  Plugged               \* bound: the phones that are plugged in

ASSUME StoreAssumption ==
  /\ Phones \cap Readers = {} /\ SystemConfiguration \notin Phones \cup {None}
  /\ {AnotherHost, None} \cap (Phones \cup Readers) = {} /\ AnotherHost # None
  /\ OldRecords \cup Services \cup Plugged \subseteq Phones

VARIABLES
  disk,      \* file -> [state, host, buid]: the lockdown directory
  trusts,    \* phone -> the host ids it was paired under
  identity,  \* caller -> its call of get_host_identity
  pairing,   \* phone -> its pairing task
  hostIds,   \* host_ids, the cache of the mDNS task's finder
  macs,      \* known_mac_addresses, of the same finder
  lookup     \* what the mDNS task looks up

storeVars == <<disk, trusts, identity, pairing, hostIds, macs, lookup>>

Callers == Phones \cup Readers
Files == Phones \cup {SystemConfiguration}
Whole(h, b) == [state |-> "whole", host |-> h, buid |-> b]
Absent == [state |-> "absent", host |-> None, buid |-> None]
Torn == [Absent EXCEPT !.state = "torn"]

NoCall == [pc |-> "idle", host |-> None, buid |-> None, after |-> {}, alone |-> TRUE,
           kept |-> FALSE]
NoLookup == [pc |-> "idle", phone |-> None, by |-> "txt", left |-> {}, found |-> None,
             sure |-> FALSE]

(* A host that ran another muxer has its SystemBUID and records; a phone   *)
(* may have forgotten the host since.                                      *)
StoreInit ==
  /\ \E old \in SUBSET OldRecords, fresh \in BOOLEAN :
       disk = [f \in Files |->
                 IF f \in old THEN Whole(AnotherHost, None)
                 ELSE IF f = SystemConfiguration /\ ~fresh THEN Whole(None, AnotherHost)
                 ELSE Absent]
  /\ trusts \in [Phones -> {{}, {AnotherHost}}]
  /\ identity = [c \in Callers |-> NoCall]
  /\ pairing = [p \in Phones |-> "unplugged"]
  /\ hostIds = <<>> /\ macs = {}
  /\ lookup = NoLookup
-----------------------------------------------------------------------------
(* get_host_identity.                                                      *)

Busy(c) == identity[c].pc \notin {"idle", "done"}

CallIdentity(c) ==
  /\ identity[c].pc = "idle"
  /\ identity' = [d \in Callers |->
       IF d = c THEN [NoCall EXCEPT !.pc = "start",
                                    !.after = {b \in Callers : identity[b].pc = "done"},
                                    !.alone = \A b \in Callers : ~Busy(b)]
       ELSE IF Busy(d) THEN [identity[d] EXCEPT !.alone = FALSE] ELSE identity[d]]

(* The file is read, and a field it lacks is made up; a file that does not *)
(* parse lacks both.                                                       *)
ReadIdentity(c) ==
  /\ identity[c].pc = "start"
  /\ LET f == disk[SystemConfiguration]
         OrNew(v) == IF v = None THEN c ELSE v
     IN  identity' = [identity EXCEPT ![c].host = OrNew(f.host), ![c].buid = OrNew(f.buid),
                        ![c].pc = IF None \in {f.host, f.buid} THEN "dirty" ELSE "done",
                        ![c].kept = None \notin {f.host, f.buid}]
  /\ UNCHANGED <<disk, trusts, pairing, hostIds, macs, lookup>>

TruncateIdentity(c) ==
  /\ identity[c].pc = "dirty"
  /\ disk' = [disk EXCEPT ![SystemConfiguration] = Torn]
  /\ identity' = [identity EXCEPT ![c].pc = "writing"]
  /\ UNCHANGED <<trusts, pairing, hostIds, macs, lookup>>

(* Mutant: the new SystemBUID is not put into the file. *)
WriteIdentityHostOnly(c) ==
  /\ identity[c].pc = "writing"
  /\ disk' = [disk EXCEPT ![SystemConfiguration] = Whole(identity[c].host, None)]
  /\ identity' = [identity EXCEPT ![c].pc = "done", ![c].kept = TRUE]
  /\ UNCHANGED <<trusts, pairing, hostIds, macs, lookup>>

WriteIdentity(c) ==
  /\ identity[c].pc = "writing"
  /\ disk' = [disk EXCEPT ![SystemConfiguration] = Whole(identity[c].host, identity[c].buid)]
  /\ identity' = [identity EXCEPT ![c].pc = "done", ![c].kept = TRUE]
  /\ UNCHANGED <<trusts, pairing, hostIds, macs, lookup>>

(* The write is best-effort: it may fail before or after the truncation. *)
WriteIdentityFails(c) ==
  /\ identity[c].pc \in {"dirty", "writing"}
  /\ identity' = [identity EXCEPT ![c].pc = "done"]
  /\ UNCHANGED <<disk, trusts, pairing, hostIds, macs, lookup>>

(* get_buid, for a client. *)
ReadBuid(c) ==
  /\ CallIdentity(c)
  /\ UNCHANGED <<disk, trusts, pairing, hostIds, macs, lookup>>

IdentityStep(c) ==
  ReadIdentity(c) \/ TruncateIdentity(c) \/ WriteIdentity(c) \/ WriteIdentityFails(c)
-----------------------------------------------------------------------------
(* Pairing records.                                                        *)

(* A record that is written or removed makes the lookup of its phone a     *)
(* matter of timing.                                                       *)
Disturb(p) == lookup' = [lookup EXCEPT !.sure = @ /\ lookup.phone # p]

Truncate(p) == disk' = [disk EXCEPT ![p] = Torn] /\ Disturb(p)

SaveRecord(p, host) == disk' = [disk EXCEPT ![p] = Whole(host, None)] /\ Disturb(p)

(* connect_device: a record that the phone accepts, or that could not be   *)
(* tried, is used. One whose host the phone does not know, or whose        *)
(* certificates fail, is removed (remove_pairing_record), which may fail.  *)
(* Without a valid record the phone is paired; before the host identity is *)
(* asked for, that may fail, or end because the phone is in restore mode.  *)
PlugIn(p) ==
  /\ p \in Plugged /\ pairing[p] = "unplugged"
  /\ \/ /\ disk[p].state = "whole"
        /\ pairing' = [pairing EXCEPT ![p] = "paired"]
        /\ UNCHANGED <<disk, lookup, identity>>
     \/ /\ \/ /\ disk[p].state = "whole"
              /\ disk' = [disk EXCEPT ![p] = Absent] /\ Disturb(p)
           \/ UNCHANGED <<disk, lookup>>
        /\ \/ CallIdentity(p) /\ pairing' = [pairing EXCEPT ![p] = "pairing"]
           \/ UNCHANGED identity /\ pairing' = [pairing EXCEPT ![p] = "unpaired"]
  /\ UNCHANGED <<trusts, hostIds, macs>>

(* lockdown.pair: the user trusts the host ... *)
Trusted(p) ==
  /\ pairing[p] = "pairing" /\ identity[p].pc = "done"
  /\ trusts' = [trusts EXCEPT ![p] = @ \cup {identity[p].host}]
  /\ pairing' = [pairing EXCEPT ![p] = "saving"]
  /\ UNCHANGED <<disk, identity, hostIds, macs, lookup>>

(* ... or does not, or the phone is gone. *)
PairingFails(p) ==
  /\ pairing[p] = "pairing" /\ identity[p].pc = "done"
  /\ pairing' = [pairing EXCEPT ![p] = "unpaired"]
  /\ UNCHANGED <<disk, trusts, identity, hostIds, macs, lookup>>

WritePairing(p) ==
  /\ \/ pairing[p] = "saving" /\ Truncate(p) /\ pairing' = [pairing EXCEPT ![p] = "writing"]
     \/ /\ pairing[p] = "writing" /\ SaveRecord(p, identity[p].host)
        /\ pairing' = [pairing EXCEPT ![p] = "paired"]
  /\ UNCHANGED <<trusts, identity, hostIds, macs>>

(* The user makes the phone forget the hosts it trusts. *)
Forget(p) ==
  /\ trusts[p] # {} /\ pairing[p] = "unplugged"
  /\ trusts' = [trusts EXCEPT ![p] = {}]
  /\ Disturb(p)
  /\ UNCHANGED <<disk, identity, pairing, hostIds, macs>>

PairingStep(p) ==
  PlugIn(p) \/ Trusted(p) \/ PairingFails(p) \/ WritePairing(p) \/ Forget(p)
-----------------------------------------------------------------------------
(* The mDNS task. A service carries a TXT record with a tag for every host *)
(* its phone trusts, or, before iOS 26.4, the phone's MAC in its name.     *)

(* match_txt: a tag is derived from the host id alone and the identifier   *)
(* of the service, so every cached entry with a trusted host id matches.   *)
Matching(p, by, hosts, known) ==
  IF by = "txt" THEN {f \in DOMAIN hosts : hosts[f] \in trusts[p]} ELSE {p} \cap known

Resolve(p, by) ==
  /\ lookup.pc = "idle" /\ p \in Services
  /\ LET hit == Matching(p, by, hostIds, macs)
         new == [NoLookup EXCEPT !.phone = p, !.by = by,
                   !.sure = disk[p].state = "whole" /\ disk[p].host \in trusts[p]]
     IN  \/ \E f \in hit : lookup' = [new EXCEPT !.pc = "found", !.found = f]
         \/ hit = {} /\ lookup' = [new EXCEPT !.pc = "caching", !.left = Files]
  /\ UNCHANGED <<disk, trusts, identity, pairing, hostIds, macs>>

(* Mutant: a file that is in the cache is not read again. *)
CacheFileOnce(f) ==
  /\ lookup.pc = "caching" /\ f \in lookup.left
  /\ lookup' = [lookup EXCEPT !.left = @ \ {f}]
  /\ hostIds' = IF disk[f].host = None \/ f \in DOMAIN hostIds THEN hostIds
                ELSE [g \in DOMAIN hostIds \cup {f} |->
                        IF g = f THEN disk[f].host ELSE hostIds[g]]
  /\ macs' = IF disk[f].state = "whole" THEN macs \cup ({f} \cap Phones) ELSE macs
  /\ UNCHANGED <<disk, trusts, identity, pairing>>

(* update_cache: every file of the directory, also the host's own.         *)
CacheFile(f) ==
  /\ lookup.pc = "caching" /\ f \in lookup.left
  /\ lookup' = [lookup EXCEPT !.left = @ \ {f}]
  /\ hostIds' = IF disk[f].host = None THEN hostIds
                ELSE [g \in DOMAIN hostIds \cup {f} |->
                        IF g = f THEN disk[f].host ELSE hostIds[g]]
  /\ macs' = IF disk[f].state = "whole" THEN macs \cup ({f} \cap Phones) ELSE macs
  /\ UNCHANGED <<disk, trusts, identity, pairing>>

(* The second match, after the cache was read again. *)
MatchAgain ==
  /\ lookup.pc = "caching" /\ lookup.left = {}
  /\ LET hit == Matching(lookup.phone, lookup.by, hostIds, macs)
     IN  \/ \E f \in hit : lookup' = [lookup EXCEPT !.pc = "found", !.found = f]
         \/ hit = {} /\ lookup' = [lookup EXCEPT !.pc = "unknown"]
  /\ UNCHANGED <<disk, trusts, identity, pairing, hostIds, macs>>

(* What was found is sent to the manager; the next service is awaited. *)
Reported ==
  /\ lookup.pc \in {"found", "unknown"}
  /\ lookup' = NoLookup
  /\ UNCHANGED <<disk, trusts, identity, pairing, hostIds, macs>>

MdnsStep ==
  \/ \E p \in Phones, by \in {"txt", "mac"} : Resolve(p, by)
  \/ \E f \in Files : CacheFile(f)
  \/ MatchAgain \/ Reported

StoreNext ==
  \/ \E c \in Callers : IdentityStep(c)
  \/ \E c \in Readers : ReadBuid(c)
  \/ \E p \in Phones : PairingStep(p)
  \/ MdnsStep

StoreSpec == StoreInit /\ [][StoreNext]_storeVars
-----------------------------------------------------------------------------
(* Properties.                                                             *)

(* "writing the file back so other muxers see the same identity": a call   *)
(* that begins after one that ran alone and got its identity into the file *)
(* returns the same identity (get_host_identity). Of calls that overlap    *)
(* nothing is said: the file is not locked.                                *)
IdentityShared ==
  \A a, b \in Callers :
    /\ {identity[a].pc, identity[b].pc} = {"done"} /\ a \in identity[b].after
    /\ identity[a].alone /\ identity[a].kept
    => identity[b].host = identity[a].host /\ identity[b].buid = identity[a].buid

(* A phone whose record is on disk, whole and valid, while it is looked up *)
(* is not reported unknown, whatever an earlier pass left in the caches    *)
(* (find_udid_from_txt, get_udid_from_mac, update_cache).                  *)
PairedPhoneFound == lookup.pc = "unknown" => ~lookup.sure

(* "match a Bonjour TXT record against a paired device": what is found is  *)
(* the phone that sent the TXT record.                                     *)
TxtMatchesThePhone == lookup.pc = "found" => lookup.found = lookup.phone
=============================================================================
