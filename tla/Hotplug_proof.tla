--------------------------- MODULE Hotplug_proof ---------------------------
(* Clean-up of USB devices, for any number of attachments and claims,       *)
(* where hot-plug events are signalled and where devices are polled.        *)
EXTENDS PollHotplug, FiniteSetTheorems, TLAPS

SomeName == Names \cup {""}
MuxStates == {"none", "running", "stopping", "exited"}
LoopStates == {"start", "compare", "scan", "connect", "insertUdid", "insertRaw"}
PairStates == {"none", "running", "paired", "failed", "registering", "done"}
Messages == [type : {"DiscoveredUsbDevice", "RemoveDevice"}, name : SomeName,
             task : SUBSET Tasks]

HotplugTypes ==
  /\ loop \in [pc : LoopStates,
               task : SUBSET Tasks]
  /\ DOMAIN known \subseteq Plugs /\ \A p \in DOMAIN known : known[p] \in SomeName
  /\ mux \in [Tasks -> MuxStates]
  /\ watcher \in [Tasks -> [pc : {"none", "armed", "removing", "done"}, name : SomeName]]
  /\ pair \in [Tasks -> PairStates]
  /\ mail \in Seq(Messages)
  /\ \A n \in DOMAIN listed : listed[n] \in Tasks /\ n = Udid(PhoneOf(listed[n]))
  /\ cleanups \in [Plugs -> Nat]

(* The task being set up is claimed and has no watcher yet, and is set up  *)
(* under its serial number only once it is being paired.                   *)
SettingUp ==
  /\ \A t \in Tasks : t \in loop.task => mux[t] # "none" /\ watcher[t].pc = "none"
  /\ \A t \in Tasks : mux[t] = "none" => watcher[t].pc = "none"
  /\ \A t \in Tasks : loop = At("insertRaw", t) => pair[t] # "none"

RightlyNamed(m) ==
  m.type = "DiscoveredUsbDevice" =>
    \E t \in Tasks : m.task = {t} /\ m.name = Udid(PhoneOf(t))

(* An attachment that was never paired is removed under its UDID, and      *)
(* devices are registered under theirs.                                    *)
NamesRight ==
  /\ \A p \in DOMAIN known : NeverPaired(p) => known[p] = Udid(DeviceOf[p])
  /\ \A t \in Tasks : NeverPaired(PlugOf(t)) /\ watcher[t].pc = "removing" =>
                        watcher[t].name = Udid(PhoneOf(t))
  /\ \A i \in DOMAIN mail : RightlyNamed(mail[i])

(* A removal of the task's entry is on its way behind the i-th message, or *)
(* will be.                                                                *)
Due(t, i) ==
  \/ Inserting(t)
  \/ PlugOf(t) \in DOMAIN known /\ watcher[t].pc = "armed"
  \/ \E u \in Tasks : PlugOf(u) = PlugOf(t) /\ watcher[u].pc = "removing"
  \/ \E j \in DOMAIN mail : /\ j > i /\ mail[j].type = "RemoveDevice"
                            /\ mail[j].name = Udid(PhoneOf(t))

(* ... and so it is of every task but those of X.                         *)
ListedDue(X) ==
  \A n \in DOMAIN listed :
    NeverPaired(PlugOf(listed[n])) => Due(listed[n], 0) \/ listed[n] \in X

MailDue(X) ==
  \A i \in DOMAIN mail : \A t \in Tasks :
    mail[i].type = "DiscoveredUsbDevice" /\ mail[i].task = {t} /\ NeverPaired(PlugOf(t)) =>
      Due(t, i) \/ t \in X

DueInv == HotplugTypes /\ SettingUp /\ NamesRight /\ ListedDue({}) /\ MailDue({})
-----------------------------------------------------------------------------
LEMMA TaskFacts ==
  ASSUME NEW t \in Tasks
  PROVE  PlugOf(t) \in Plugs /\ PhoneOf(t) \in Devices /\ Udid(PhoneOf(t)) \in SomeName
         /\ Raw(PhoneOf(t)) \in SomeName /\ PhoneOf(t) = DeviceOf[PlugOf(t)]
<1> QED BY DeviceOfAssumption DEF Tasks, PlugOf, PhoneOf, SomeName, Names

LEMMA UnderWayIfDue ==
  ASSUME HotplugTypes, NamesRight, NEW t \in Tasks, NeverPaired(PlugOf(t)), Due(t, 0)
  PROVE  RemovalUnderWay(t)
<1>2. PlugOf(t) \in Plugs /\ PhoneOf(t) = DeviceOf[PlugOf(t)]
  BY TaskFacts
<1>3. CASE PlugOf(t) \in DOMAIN known /\ watcher[t].pc = "armed"
  BY <1>2, <1>3 DEF NamesRight, RemovalUnderWay
<1>4. ASSUME NEW u \in Tasks, PlugOf(u) = PlugOf(t), watcher[u].pc = "removing"
      PROVE  RemovalUnderWay(t)
  <2>1. watcher[u] \in [pc : {"none", "armed", "removing", "done"}, name : SomeName]
    BY DEF HotplugTypes
  <2>2. watcher[u].name = Udid(PhoneOf(t))
    BY <1>4 DEF NamesRight, PhoneOf
  <2>3. watcher[u] = [pc |-> "removing", name |-> Udid(PhoneOf(t))]
    BY <2>1, <2>2, <1>4
  <2> QED BY <2>3, <1>4 DEF RemovalUnderWay
<1> QED BY <1>3, <1>4 DEF Due, RemovalUnderWay

LEMMA PendingIfDue == DueInv => CleanupPending
<1> SUFFICES ASSUME DueInv, NEW n \in DOMAIN listed, NeverPaired(PlugOf(listed[n]))
             PROVE  RemovalUnderWay(listed[n])
  BY DEF CleanupPending
<1>1. listed[n] \in Tasks /\ Due(listed[n], 0)
  BY DEF DueInv, HotplugTypes, ListedDue
<1> QED BY <1>1, UnderWayIfDue DEF DueInv

LEMMA PairedForEver ==
  ASSUME HotplugTypes, [Next]_vars, NEW t \in Tasks, pair[t] # "none"
  PROVE  pair'[t] # "none"
<1> USE DEF HotplugTypes, PairStates
<1>1. ASSUME NEW u \in Tasks, StartPairing(u) PROVE pair'[t] # "none"
  BY <1>1 DEF StartPairing
<1>2. ASSUME NEW u \in Tasks, PairSucceeds(u) \/ PairFails(u) \/ PairRenames(u) \/ PairRegisters(u)
      PROVE  pair'[t] # "none"
  BY <1>2 DEF PairSucceeds, PairFails, PairRenames, PairRegisters
<1>3. CASE UNCHANGED pair
  BY <1>3
<1>4. ASSUME NEW p \in Plugs, ConnectFails(p) \/ Disconnected(p) \/ Plug(p) \/ Unplug(p)
      PROVE  UNCHANGED pair
  BY <1>4 DEF ConnectFails, Disconnected, Plug, Unplug
<1>5. ASSUME NEW u \in Tasks, Claim(u) \/ RegisterPaired(u) \/ InsertKnown(u) \/ MuxExits(u)
                               \/ WatcherWakes(u) \/ WatcherSends(u)
      PROVE  UNCHANGED pair
  BY <1>5 DEF Claim, RegisterPaired, InsertKnown, MuxExits, WatcherWakes, WatcherSends
<1>6. CASE ListDevices \/ ManagerAdds \/ ManagerRemoves \/ UNCHANGED vars
  BY <1>6 DEF ListDevices, ManagerAdds, ManagerRemoves, vars
<1> QED BY <1>1, <1>2, <1>3, <1>4, <1>5, <1>6 DEF Next, LoopStep, ManagerStep, WatcherStep

LEMMA NeverPairedBefore ==
  ASSUME HotplugTypes, [Next]_vars, NEW p, NeverPaired(p)'
  PROVE  NeverPaired(p)
<1> QED BY PairedForEver DEF NeverPaired
-----------------------------------------------------------------------------
LEMMA TypesStep ==
  ASSUME HotplugTypes, NamesRight, [Next]_vars
  PROVE  HotplugTypes'
<1> USE DEF HotplugTypes, LoopStates
<1>t. \A t \in Tasks : PlugOf(t) \in Plugs /\ Udid(PhoneOf(t)) \in SomeName /\ Raw(PhoneOf(t)) \in SomeName
  BY TaskFacts
<1>r. ASSUME NEW t \in Tasks, Register(t) PROVE mail' \in Seq(Messages)
  <2>1. [type |-> "DiscoveredUsbDevice", name |-> Udid(PhoneOf(t)), task |-> {t}] \in Messages
    BY <1>t DEF Messages
  <2> QED BY <1>r, <2>1 DEF Register
<1>s. ASSUME NEW p \in Plugs, NEW n \in SomeName, SendRemove(p, n)
      PROVE  mail' \in Seq(Messages) /\ cleanups' \in [Plugs -> Nat]
  <2>1. [type |-> "RemoveDevice", name |-> n, task |-> {}] \in Messages
    BY DEF Messages
  <2> QED BY <1>s, <2>1 DEF SendRemove
<1>1. ASSUME NEW p \in Plugs, Plug(p) \/ Unplug(p) \/ ConnectFails(p) PROVE HotplugTypes'
  BY <1>1 DEF Plug, Unplug, ConnectFails
<1>2. ASSUME NEW p \in Plugs, Disconnected(p) PROVE HotplugTypes'
  <2>1. mail' \in Seq(Messages) /\ cleanups' \in [Plugs -> Nat]
    BY <1>2, <1>s DEF Disconnected
  <2> QED BY <1>2, <2>1 DEF Disconnected, Without
<1>3. ASSUME NEW t \in Tasks, Claim(t) PROVE HotplugTypes'
  BY <1>3 DEF Claim, MuxStates, At
<1>4. ASSUME NEW t \in Tasks, RegisterPaired(t) PROVE HotplugTypes'
  BY <1>4, <1>r DEF RegisterPaired, At
<1>5. ASSUME NEW t \in Tasks, StartPairing(t) PROVE HotplugTypes'
  BY <1>5 DEF StartPairing, PairStates, At
<1>6. ASSUME NEW t \in Tasks, InsertKnown(t) PROVE HotplugTypes'
  <2>1. Named(t) \in SomeName /\ PlugOf(t) \in Plugs
    BY <1>t DEF Named
  <2>2. watcher' \in [Tasks -> [pc : {"none", "armed", "removing", "done"}, name : SomeName]]
    BY <1>6 DEF InsertKnown
  <2>3. loop' \in [pc : LoopStates, task : SUBSET Tasks]
    BY <1>6 DEF InsertKnown, Idle
  <2> QED BY <1>6, <2>1, <2>2, <2>3 DEF InsertKnown, Put
<1>7. ASSUME NEW t \in Tasks, MuxExits(t) PROVE HotplugTypes'
  BY <1>7 DEF MuxExits, MuxStates
<1>8. ASSUME NEW t \in Tasks, WatcherWakes(t) PROVE HotplugTypes'
  <2>1. "" \in SomeName
    BY DEF SomeName
  <2>2. watcher' \in [Tasks -> [pc : {"none", "armed", "removing", "done"}, name : SomeName]]
    BY <1>8, <2>1 DEF WatcherWakes
  <2> QED BY <1>8, <2>2 DEF WatcherWakes, Without
<1>9. ASSUME NEW t \in Tasks, WatcherSends(t) PROVE HotplugTypes'
  <2>1. "" \in SomeName /\ watcher[t].name \in SomeName /\ PlugOf(t) \in Plugs
    BY <1>t DEF SomeName
  <2>2. watcher' \in [Tasks -> [pc : {"none", "armed", "removing", "done"}, name : SomeName]]
    BY <1>9, <2>1 DEF WatcherSends
  <2>3. mail' \in Seq(Messages) /\ cleanups' \in [Plugs -> Nat]
    BY <1>9, <1>s, <2>1 DEF WatcherSends
  <2> QED BY <1>9, <2>2, <2>3 DEF WatcherSends
<1>10. ASSUME NEW t \in Tasks, PairSucceeds(t) \/ PairFails(t) PROVE HotplugTypes'
  BY <1>10 DEF PairSucceeds, PairFails, Stopped, MuxStates, PairStates
<1>11. ASSUME NEW t \in Tasks, PairRenames(t) PROVE HotplugTypes'
  BY <1>11, <1>t DEF PairRenames, PairStates
<1>12. ASSUME NEW t \in Tasks, PairRegisters(t) PROVE HotplugTypes'
  BY <1>12, <1>r DEF PairRegisters, PairStates
<1>13. CASE ManagerAdds
  <2>1. mail # <<>> /\ mail' = Tail(mail) /\ Head(mail) = mail[1] /\ 1 \in DOMAIN mail
    BY <1>13 DEF ManagerAdds
  <2>2. PICK t \in Tasks : mail[1].task = {t} /\ mail[1].name = Udid(PhoneOf(t))
    BY <1>13, <2>1 DEF ManagerAdds, NamesRight, RightlyNamed
  <2>3. listed' = Put(listed, Udid(PhoneOf(t)), t)
    BY <1>13, <2>1, <2>2 DEF ManagerAdds
  <2>4. mail' \in Seq(Messages)
    BY <2>1
  <2>5. \A n \in DOMAIN listed' : listed'[n] \in Tasks /\ n = Udid(PhoneOf(listed'[n]))
    BY <2>3 DEF Put
  <2> QED BY <1>13, <2>4, <2>5, <2>4 DEF ManagerAdds
<1>14. CASE ManagerRemoves
  <2>1. mail # <<>> /\ mail' = Tail(mail) /\ mail' \in Seq(Messages)
    BY <1>14 DEF ManagerRemoves
  <2>2. mux' \in [Tasks -> MuxStates]
    BY <1>14 DEF ManagerRemoves, Stopped, MuxStates
  <2> QED BY <1>14, <2>1, <2>2 DEF ManagerRemoves, Without
<1>15. CASE ListDevices \/ UNCHANGED vars
  BY <1>15 DEF ListDevices, vars, Idle
<1> QED
  BY <1>1, <1>2, <1>3, <1>4, <1>5, <1>6, <1>7, <1>8, <1>9, <1>10, <1>11, <1>12, <1>13, <1>14,
     <1>15 DEF Next, LoopStep, ManagerStep, WatcherStep
-----------------------------------------------------------------------------
LEMMA SettingUpStep ==
  ASSUME HotplugTypes, SettingUp, [Next]_vars
  PROVE  SettingUp'
<1> USE DEF HotplugTypes, SettingUp
<1>1. ASSUME NEW p \in Plugs, Plug(p) \/ Unplug(p) \/ ConnectFails(p) \/ Disconnected(p)
      PROVE  SettingUp'
  BY <1>1 DEF Plug, Unplug, ConnectFails, Disconnected, At
<1>2. ASSUME NEW t \in Tasks, Claim(t) PROVE SettingUp'
  BY <1>2 DEF Claim, MuxStates, At
<1>3. ASSUME NEW t \in Tasks, RegisterPaired(t) PROVE SettingUp'
  BY <1>3 DEF RegisterPaired, At
<1>4. ASSUME NEW t \in Tasks, StartPairing(t) PROVE SettingUp'
  BY <1>4 DEF StartPairing, At, PairStates
<1>5. ASSUME NEW t \in Tasks, InsertKnown(t) PROVE SettingUp'
  <2>1. /\ t \in loop.task /\ loop'.task = {} /\ loop'.pc = "scan"
        /\ UNCHANGED <<mux, pair>>
        /\ \A u \in Tasks : u # t => watcher'[u] = watcher[u]
    BY <1>5 DEF InsertKnown, Inserting, At, Idle
  <2> QED BY <2>1 DEF At
<1>6. ASSUME NEW t \in Tasks, MuxExits(t) PROVE SettingUp'
  BY <1>6 DEF MuxExits, MuxStates, At
<1>7. ASSUME NEW t \in Tasks, WatcherWakes(t) \/ WatcherSends(t) PROVE SettingUp'
  <2>1. /\ watcher[t].pc # "none" /\ UNCHANGED <<mux, pair, loop>>
        /\ \A u \in Tasks : u # t => watcher'[u] = watcher[u]
    BY <1>7 DEF WatcherWakes, WatcherSends
  <2> QED BY <2>1 DEF At
<1>8. ASSUME NEW t \in Tasks, PairSucceeds(t) \/ PairFails(t) \/ PairRenames(t) \/ PairRegisters(t)
      PROVE  SettingUp'
  BY <1>8 DEF PairSucceeds, PairFails, PairRenames, PairRegisters, Stopped, At,
     MuxStates, PairStates
<1>9. CASE ManagerAdds \/ UNCHANGED vars
  BY <1>9 DEF ManagerAdds, vars, At
<1>10. CASE ManagerRemoves
  BY <1>10 DEF ManagerRemoves, Stopped, At, MuxStates
<1>11. CASE ListDevices
  BY <1>11 DEF ListDevices, Idle, At
<1> QED
  BY <1>1, <1>2, <1>3, <1>4, <1>5, <1>6, <1>7, <1>8, <1>9, <1>10, <1>11
     DEF Next, LoopStep, ManagerStep, WatcherStep

(* The channel after a send, and after the manager took its head. *)
LEMMA MailSent ==
  ASSUME HotplugTypes, NEW m, mail' = Append(mail, m)
  PROVE  /\ DOMAIN mail' = DOMAIN mail \cup {Len(mail) + 1}
         /\ mail'[Len(mail) + 1] = m
         /\ \A i \in DOMAIN mail : mail'[i] = mail[i] /\ i < Len(mail) + 1
<1> QED BY DEF HotplugTypes

LEMMA MailTaken ==
  ASSUME HotplugTypes, mail # <<>>, mail' = Tail(mail)
  PROVE  /\ Head(mail) = mail[1] /\ 1 \in DOMAIN mail
         /\ \A i \in DOMAIN mail' : i + 1 \in DOMAIN mail /\ mail'[i] = mail[i + 1]
         /\ \A i \in DOMAIN mail : i # 1 => i - 1 \in DOMAIN mail' /\ mail'[i - 1] = mail[i]
<1> QED BY DEF HotplugTypes

LEMMA NamesSent ==
  ASSUME HotplugTypes, NamesRight, NEW m, mail' = Append(mail, m), RightlyNamed(m)
  PROVE  \A i \in DOMAIN mail' : RightlyNamed(mail'[i])
<1>1. \A i \in DOMAIN mail : RightlyNamed(mail[i])
  BY DEF NamesRight
<1> QED BY <1>1, MailSent

LEMMA NamesTaken ==
  ASSUME HotplugTypes, NamesRight, mail # <<>>, mail' = Tail(mail)
  PROVE  \A i \in DOMAIN mail' : RightlyNamed(mail'[i])
<1>1. \A i \in DOMAIN mail : RightlyNamed(mail[i])
  BY DEF NamesRight
<1> QED BY <1>1, MailTaken

LEMMA SentNamesRight ==
  /\ \A t \in Tasks : Register(t) => \E m : mail' = Append(mail, m) /\ RightlyNamed(m)
  /\ \A p, n : SendRemove(p, n) => \E m : mail' = Append(mail, m) /\ RightlyNamed(m)
<1>1. \A t \in Tasks :
        RightlyNamed([type |-> "DiscoveredUsbDevice", name |-> Udid(PhoneOf(t)), task |-> {t}])
  BY DEF RightlyNamed
<1>2. \A n : RightlyNamed([type |-> "RemoveDevice", name |-> n, task |-> {}])
  BY DEF RightlyNamed
<1> QED BY <1>1, <1>2 DEF Register, SendRemove

LEMMA NamesStep ==
  ASSUME HotplugTypes, SettingUp, NamesRight, [Next]_vars
  PROVE  NamesRight'
<1> USE DEF HotplugTypes, NamesRight
<1>n. \A p : NeverPaired(p)' => NeverPaired(p)
  BY NeverPairedBefore
<1>r. ASSUME NEW m, mail' = Append(mail, m), RightlyNamed(m)
      PROVE  \A i \in DOMAIN mail' : RightlyNamed(mail'[i])
  BY <1>r, NamesSent
<1>m. ASSUME mail # <<>>, mail' = Tail(mail)
      PROVE  \A i \in DOMAIN mail' : RightlyNamed(mail'[i])
  BY <1>m, NamesTaken
<1>1. CASE UNCHANGED <<known, watcher, mail>>
  BY <1>1, <1>n
<1>2. ASSUME UNCHANGED <<known, watcher>>, NEW t \in Tasks, Register(t) PROVE NamesRight'
  BY <1>2, <1>n, <1>r, SentNamesRight
<1>3. ASSUME NEW t \in Tasks, InsertKnown(t) PROVE NamesRight'
  <2>1. NeverPaired(PlugOf(t)) => known'[PlugOf(t)] = Udid(DeviceOf[PlugOf(t)])
    <3>1. SUFFICES ASSUME loop = At("insertRaw", t) \/ loop = At("insertUdid", t), pair[t] = "none"
                   PROVE  known'[PlugOf(t)] = Udid(DeviceOf[PlugOf(t)])
      BY <1>3 DEF InsertKnown, Inserting, NeverPaired
    <3>2. loop.pc # "insertRaw"
      BY <3>1 DEF SettingUp, At
    <3> QED BY <1>3, <3>2 DEF InsertKnown, Put, Named, PhoneOf
  <2>2. \A p \in DOMAIN known' : p # PlugOf(t) => p \in DOMAIN known /\ known'[p] = known[p]
    BY <1>3 DEF InsertKnown, Put
  <2>3. \A u \in Tasks : watcher'[u].pc = "removing" => watcher'[u] = watcher[u]
    BY <1>3 DEF InsertKnown
  <2> QED BY <1>3, <1>n, <2>1, <2>2, <2>3 DEF InsertKnown
<1>4. ASSUME NEW p \in Plugs, Disconnected(p) PROVE NamesRight'
  <2>1. UNCHANGED mail \/ SendRemove(p, known[p])
    BY <1>4 DEF Disconnected
  <2>2. \A q \in DOMAIN known' : q \in DOMAIN known /\ known'[q] = known[q]
    BY <1>4 DEF Disconnected, Without
  <2>3. \A i \in DOMAIN mail' : RightlyNamed(mail'[i])
    <3>1. CASE UNCHANGED mail
      BY <3>1
    <3>2. CASE SendRemove(p, known[p])
      BY <3>2, <1>r, SentNamesRight
    <3> QED BY <2>1, <3>1, <3>2
  <2>4. UNCHANGED watcher
    BY <1>4 DEF Disconnected
  <2> QED BY <1>n, <2>2, <2>3, <2>4
<1>5. ASSUME NEW t \in Tasks, WatcherWakes(t) PROVE NamesRight'
  <2>1. \A q \in DOMAIN known' : q \in DOMAIN known /\ known'[q] = known[q]
    BY <1>5 DEF WatcherWakes, Without
  <2>2. watcher'[t].pc = "removing" =>
          PlugOf(t) \in DOMAIN known /\ watcher'[t].name = known[PlugOf(t)]
    BY <1>5 DEF WatcherWakes
  <2>3. \A u \in Tasks : u # t => watcher'[u] = watcher[u]
    BY <1>5 DEF WatcherWakes
  <2> QED BY <1>5, <1>n, <2>1, <2>2, <2>3 DEF WatcherWakes, PhoneOf
<1>6. ASSUME NEW t \in Tasks, WatcherSends(t) PROVE NamesRight'
  <2>1. \A u \in Tasks : watcher'[u].pc = "removing" => watcher'[u] = watcher[u]
    BY <1>6 DEF WatcherSends
  <2> QED BY <1>6, <1>n, <1>r, <2>1, SentNamesRight DEF WatcherSends
<1>7. ASSUME NEW t \in Tasks, PairRenames(t) PROVE NamesRight'
  <2>1. \A q \in DOMAIN known' : q \in DOMAIN known /\ (q # PlugOf(t) => known'[q] = known[q])
    BY <1>7 DEF PairRenames
  <2>2. PlugOf(t) \in DOMAIN known' => known'[PlugOf(t)] = Udid(DeviceOf[PlugOf(t)])
    BY <1>7 DEF PairRenames, PhoneOf
  <2> QED BY <1>7, <1>n, <2>1, <2>2 DEF PairRenames
<1>8. CASE ManagerAdds \/ ManagerRemoves
  BY <1>8, <1>n, <1>m DEF ManagerAdds, ManagerRemoves
<1>9. ASSUME NEW p \in Plugs, ConnectFails(p) \/ Plug(p) \/ Unplug(p)
      PROVE  UNCHANGED <<known, watcher, mail>>
  BY <1>9 DEF ConnectFails, Plug, Unplug
<1>10. ASSUME NEW t \in Tasks, Claim(t) \/ StartPairing(t) \/ MuxExits(t) \/ PairSucceeds(t)
                                \/ PairFails(t)
       PROVE  UNCHANGED <<known, watcher, mail>>
  BY <1>10 DEF Claim, StartPairing, MuxExits, PairSucceeds, PairFails
<1>11. ASSUME NEW t \in Tasks, RegisterPaired(t) \/ PairRegisters(t)
       PROVE  UNCHANGED <<known, watcher>> /\ Register(t)
  BY <1>11 DEF RegisterPaired, PairRegisters
<1>12. CASE ListDevices \/ UNCHANGED vars
  BY <1>12, <1>1 DEF ListDevices, vars
<1> QED
  BY <1>1, <1>2, <1>3, <1>4, <1>5, <1>6, <1>7, <1>8, <1>9, <1>10, <1>11, <1>12
     DEF Next, LoopStep, ManagerStep, WatcherStep
-----------------------------------------------------------------------------
(* What is due stays due under a step that only adds to the channel.       *)

RemovalBehind(t, i) ==
  \E j \in DOMAIN mail : j > i /\ mail[j].type = "RemoveDevice" /\ mail[j].name = Udid(PhoneOf(t))

LEMMA DueMeans ==
  ASSUME NEW t, NEW i
  PROVE  Due(t, i) <=> \/ Inserting(t)
                       \/ PlugOf(t) \in DOMAIN known /\ watcher[t].pc = "armed"
                       \/ \E u \in Tasks : PlugOf(u) = PlugOf(t) /\ watcher[u].pc = "removing"
                       \/ RemovalBehind(t, i)
<1> QED BY DEF Due, RemovalBehind

LEMMA BehindKept ==
  ASSUME HotplugTypes, NEW t, NEW i, RemovalBehind(t, i),
         UNCHANGED mail \/ \E m : mail' = Append(mail, m)
  PROVE  RemovalBehind(t, i)'
<1>1. CASE UNCHANGED mail
  BY <1>1 DEF RemovalBehind
<1>2. ASSUME NEW m, mail' = Append(mail, m) PROVE RemovalBehind(t, i)'
  <2>1. PICK j \in DOMAIN mail : j > i /\ mail[j].type = "RemoveDevice" /\ mail[j].name = Udid(PhoneOf(t))
    BY DEF RemovalBehind
  <2>2. j \in DOMAIN mail' /\ mail'[j] = mail[j]
    BY <1>2, <2>1, MailSent
  <2> QED BY <2>1, <2>2 DEF RemovalBehind
<1> QED BY <1>1, <1>2

LEMMA SentBehind ==
  ASSUME HotplugTypes, NEW t, NEW i \in Nat, i <= Len(mail), NEW p,
         SendRemove(p, Udid(PhoneOf(t)))
  PROVE  RemovalBehind(t, i)'
<1> DEFINE m == [type |-> "RemoveDevice", name |-> Udid(PhoneOf(t)), task |-> {}]
<1>1. mail' = Append(mail, m)
  BY DEF SendRemove
<1>2. Len(mail) + 1 \in DOMAIN mail' /\ mail'[Len(mail) + 1] = m /\ Len(mail) + 1 > i
  BY <1>1, MailSent DEF HotplugTypes
<1> QED BY <1>2 DEF RemovalBehind

LEMMA RemoveSends == \A p, n : SendRemove(p, n) => \E m : mail' = Append(mail, m)
<1> QED BY DEF SendRemove

LEMMA DueStays ==
  ASSUME HotplugTypes, SettingUp, NamesRight, NEW t \in Tasks, NEW i \in Nat, i <= Len(mail),
         Due(t, i), NeverPaired(PlugOf(t)), NeverPaired(PlugOf(t))', [Next]_vars,
         ~ ManagerStep
  PROVE  Due(t, i)'
<1> DEFINE armed == PlugOf(t) \in DOMAIN known /\ watcher[t].pc = "armed"
           taken == \E u \in Tasks : PlugOf(u) = PlugOf(t) /\ watcher[u].pc = "removing"
<1>0. Inserting(t) \/ armed \/ taken \/ RemovalBehind(t, i)
  BY DueMeans
<1>i. Inserting(t) => loop.pc \in {"insertUdid", "insertRaw"} /\ loop.task = {t}
  BY DEF Inserting, At
<1>d. /\ Inserting(t)' => Due(t, i)'
      /\ armed' => Due(t, i)'
      /\ taken' => Due(t, i)'
      /\ RemovalBehind(t, i)' => Due(t, i)'
  BY DEF Due, RemovalBehind
<1> HIDE DEF armed, taken
<1>1. ASSUME UNCHANGED <<known, watcher>>, UNCHANGED loop \/ loop.pc \in {"start", "scan", "connect"},
             UNCHANGED mail \/ \E m : mail' = Append(mail, m)
      PROVE  Due(t, i)'
  <2>1. RemovalBehind(t, i) => RemovalBehind(t, i)'
    BY <1>1, BehindKept
  <2>2. (armed => armed') /\ (taken => taken')
    BY <1>1 DEF armed, taken
  <2>3. Inserting(t) => Inserting(t)'
    BY <1>1, <1>i DEF Inserting
  <2> QED BY <1>0, <1>d, <2>1, <2>2, <2>3
<1>2. ASSUME NEW u \in Tasks, InsertKnown(u) PROVE Due(t, i)'
  <2>1. RemovalBehind(t, i) => RemovalBehind(t, i)'
    BY <1>2, BehindKept DEF InsertKnown
  <2>2. /\ u \in loop.task /\ DOMAIN known \subseteq DOMAIN known' /\ PlugOf(u) \in DOMAIN known'
        /\ watcher'[u].pc = "armed"
        /\ \A w \in Tasks : w # u => watcher'[w] = watcher[w]
    BY <1>2 DEF InsertKnown, Inserting, At, Put, HotplugTypes
  <2>3. Inserting(t) => armed'
    BY <1>2, <1>i, <2>2 DEF armed
  <2>4. armed => armed'
    BY <2>2 DEF armed
  <2>5. watcher[u].pc = "none"
    BY <2>2 DEF SettingUp
  <2>6. taken => taken'
    BY <2>2, <2>5 DEF taken
  <2> QED BY <1>0, <1>d, <2>1, <2>3, <2>4, <2>6
<1>3. ASSUME NEW p \in Plugs, Disconnected(p) PROVE Due(t, i)'
  <2>1. UNCHANGED mail \/ \E m : mail' = Append(mail, m)
    BY <1>3, RemoveSends DEF Disconnected
  <2>2. RemovalBehind(t, i) => RemovalBehind(t, i)'
    BY <2>1, BehindKept
  <2>3. ~Inserting(t) /\ (taken => taken')
    BY <1>3, <1>i DEF Disconnected, taken
  <2>4. ASSUME armed PROVE armed' \/ RemovalBehind(t, i)'
    <3>1. CASE PlugOf(t) # p
      BY <1>3, <2>4, <3>1 DEF armed, Disconnected, Without
    <3>2. CASE PlugOf(t) = p
      <4>1. known[p] = Udid(PhoneOf(t))
        BY <2>4, <3>2 DEF armed, NamesRight, PhoneOf
      <4>2. SendRemove(p, Udid(PhoneOf(t)))
        BY <1>3, <2>4, <3>2, <4>1 DEF armed, Disconnected
      <4> QED BY <4>2, SentBehind
    <3> QED BY <3>1, <3>2
  <2> QED BY <1>0, <1>d, <2>2, <2>3, <2>4
<1>4. ASSUME NEW u \in Tasks, WatcherWakes(u) PROVE Due(t, i)'
  <2>1. RemovalBehind(t, i) => RemovalBehind(t, i)'
    BY <1>4, BehindKept DEF WatcherWakes
  <2>2. Inserting(t) => Inserting(t)'
    BY <1>4 DEF WatcherWakes, Inserting
  <2>3. /\ watcher[u].pc = "armed" /\ \A w \in Tasks : w # u => watcher'[w] = watcher[w]
        /\ DOMAIN known' = DOMAIN known \ {PlugOf(u)}
        /\ PlugOf(u) \in DOMAIN known => watcher'[u].pc = "removing"
    BY <1>4 DEF WatcherWakes, Without, HotplugTypes
  <2>4. taken => taken'
    BY <2>3 DEF taken
  <2>5. armed => armed' \/ taken'
    BY <2>3 DEF armed, taken
  <2> QED BY <1>0, <1>d, <2>1, <2>2, <2>4, <2>5
<1>5. ASSUME NEW u \in Tasks, WatcherSends(u) PROVE Due(t, i)'
  <2>1. RemovalBehind(t, i) => RemovalBehind(t, i)'
    BY <1>5, BehindKept, RemoveSends DEF WatcherSends
  <2>2. Inserting(t) => Inserting(t)'
    BY <1>5 DEF WatcherSends, Inserting
  <2>3. /\ watcher[u].pc = "removing" /\ \A w \in Tasks : w # u => watcher'[w] = watcher[w]
        /\ UNCHANGED known
    BY <1>5 DEF WatcherSends, HotplugTypes
  <2>4. armed => armed'
    BY <2>3 DEF armed
  <2>5. ASSUME taken PROVE taken' \/ RemovalBehind(t, i)'
    <3>1. CASE PlugOf(u) = PlugOf(t)
      <4>1. watcher[u].name = Udid(PhoneOf(t))
        BY <2>3, <3>1 DEF NamesRight, PhoneOf
      <4>2. SendRemove(PlugOf(u), Udid(PhoneOf(t)))
        BY <1>5, <4>1 DEF WatcherSends
      <4> QED BY <4>2, SentBehind
    <3>2. CASE PlugOf(u) # PlugOf(t)
      BY <2>3, <2>5, <3>2 DEF taken
    <3> QED BY <3>1, <3>2
  <2> QED BY <1>0, <1>d, <2>1, <2>2, <2>4, <2>5
<1>6. ASSUME NEW u \in Tasks, PairRenames(u) PROVE Due(t, i)'
  <2>1. RemovalBehind(t, i) => RemovalBehind(t, i)'
    BY <1>6, BehindKept DEF PairRenames
  <2>2. DOMAIN known' = DOMAIN known /\ UNCHANGED <<watcher, loop>>
    BY <1>6 DEF PairRenames
  <2>3. (armed => armed') /\ (taken => taken') /\ (Inserting(t) => Inserting(t)')
    BY <2>2 DEF armed, taken, Inserting
  <2> QED BY <1>0, <1>d, <2>1, <2>3
<1>7. ASSUME NEW u \in Tasks, RegisterPaired(u) \/ PairRegisters(u)
      PROVE  /\ UNCHANGED <<known, watcher>> /\ \E m : mail' = Append(mail, m)
             /\ UNCHANGED loop \/ loop.pc = "connect"
  BY <1>7 DEF RegisterPaired, PairRegisters, Register, At
<1>8. ASSUME NEW u \in Tasks, Claim(u) \/ StartPairing(u) \/ MuxExits(u) \/ PairSucceeds(u) \/ PairFails(u)
      PROVE  /\ UNCHANGED <<known, watcher, mail>>
             /\ UNCHANGED loop \/ loop.pc \in {"scan", "connect"}
  BY <1>8 DEF Claim, Reported, StartPairing, MuxExits, PairSucceeds, PairFails, At
<1>9. ASSUME NEW p \in Plugs, ConnectFails(p) \/ Plug(p) \/ Unplug(p)
      PROVE  UNCHANGED <<known, watcher, mail, loop>>
  BY <1>9 DEF ConnectFails, Plug, Unplug
<1>10. CASE ListDevices
  BY <1>10, <1>1 DEF ListDevices
<1>11. CASE UNCHANGED vars
  BY <1>11, <1>1 DEF vars
<1> QED
  BY <1>1, <1>2, <1>3, <1>4, <1>5, <1>6, <1>7, <1>8, <1>9, <1>10, <1>11
     DEF Next, LoopStep, WatcherStep
-----------------------------------------------------------------------------
(* The manager takes the head of the channel: what is behind a message     *)
(* stays behind it, and a removal that is taken drops what it was due for. *)

LEMMA DueTaken ==
  ASSUME HotplugTypes, ManagerStep, NEW t \in Tasks, NEW i \in Nat, Due(t, i + 1)
  PROVE  Due(t, i)'
<1>1. mail # <<>> /\ mail' = Tail(mail) /\ UNCHANGED <<loop, known, watcher>>
  BY DEF ManagerStep, ManagerAdds, ManagerRemoves
<1>2. CASE RemovalBehind(t, i + 1)
  <2>1. PICK j \in DOMAIN mail : /\ j > i + 1 /\ mail[j].type = "RemoveDevice"
                                 /\ mail[j].name = Udid(PhoneOf(t))
    BY <1>2 DEF RemovalBehind
  <2>2. j - 1 \in DOMAIN mail' /\ mail'[j - 1] = mail[j] /\ j - 1 > i
    BY <1>1, <2>1, MailTaken DEF HotplugTypes
  <2> QED BY <2>1, <2>2 DEF Due
<1>3. CASE ~RemovalBehind(t, i + 1)
  BY <1>1, <1>3 DEF Due, RemovalBehind, Inserting
<1> QED BY <1>2, <1>3

LEMMA DueBefore ==
  ASSUME HotplugTypes, NEW t \in Tasks, Due(t, 0),
         mail # <<>> => mail[1].type # "RemoveDevice" \/ mail[1].name # Udid(PhoneOf(t))
  PROVE  Due(t, 1)
<1>1. ASSUME NEW j \in DOMAIN mail, mail[j].type = "RemoveDevice", mail[j].name = Udid(PhoneOf(t))
      PROVE  j > 1
  BY <1>1 DEF HotplugTypes
<1> QED BY <1>1 DEF Due

LEMMA ListedDueStep ==
  ASSUME HotplugTypes, SettingUp, NamesRight, NEW X, ListedDue(X), MailDue(X), [Next]_vars
  PROVE  ListedDue(X)'
<1>0. HotplugTypes /\ SettingUp /\ NamesRight /\ ListedDue(X) /\ MailDue(X)
  OBVIOUS
<1>t. HotplugTypes'
  BY <1>0, TypesStep
<1>l. \A m \in DOMAIN listed' : listed'[m] \in Tasks /\ m = Udid(PhoneOf(listed'[m]))
  BY <1>t DEF HotplugTypes
<1> SUFFICES ASSUME NEW n \in DOMAIN listed', NEW t \in Tasks, listed'[n] = t,
                    NeverPaired(PlugOf(t))', t \notin X
             PROVE  Due(t, 0)'
  BY <1>l DEF ListedDue
<1>n. NeverPaired(PlugOf(t)) /\ n = Udid(PhoneOf(t))
  BY <1>0, <1>l, NeverPairedBefore
<1>z. 0 \in Nat /\ 0 + 1 = 1
  OBVIOUS
<1>1. CASE ~ManagerStep
  <2>1. UNCHANGED listed
    <3>1. ASSUME NEW p \in Plugs, ConnectFails(p) \/ Disconnected(p) \/ Plug(p) \/ Unplug(p)
          PROVE  UNCHANGED listed
      BY <3>1 DEF ConnectFails, Disconnected, Plug, Unplug
    <3>2. ASSUME NEW u \in Tasks, Claim(u) \/ RegisterPaired(u) \/ StartPairing(u) \/ InsertKnown(u)
          PROVE  UNCHANGED listed
      BY <3>2 DEF Claim, RegisterPaired, StartPairing, InsertKnown
    <3>3. ASSUME NEW u \in Tasks, MuxExits(u) \/ WatcherWakes(u) \/ WatcherSends(u)
                   \/ PairSucceeds(u) \/ PairFails(u) \/ PairRenames(u) \/ PairRegisters(u)
          PROVE  UNCHANGED listed
      BY <3>3 DEF MuxExits, WatcherWakes, WatcherSends, PairSucceeds, PairFails, PairRenames,
         PairRegisters
    <3>4. CASE ListDevices \/ UNCHANGED vars
      BY <3>4 DEF ListDevices, vars
    <3> QED BY <1>1, <3>1, <3>2, <3>3, <3>4 DEF Next, LoopStep, WatcherStep
  <2>2. Due(t, 0)
    BY <1>0, <1>n, <2>1 DEF ListedDue
  <2>3. 0 \in Nat /\ 0 <= Len(mail)
    BY <1>0 DEF HotplugTypes
  <2> QED BY <1>0, <1>1, <1>n, <2>2, <2>3, DueStays
<1>2. CASE ManagerAdds
  <2>1. mail # <<>> /\ mail' = Tail(mail) /\ Head(mail) = mail[1] /\ 1 \in DOMAIN mail
    BY <1>0, <1>2, MailTaken DEF ManagerAdds
  <2>2. PICK u \in mail[1].task : listed' = Put(listed, mail[1].name, u)
    BY <1>2, <2>1 DEF ManagerAdds
  <2>3. mail[1].type = "DiscoveredUsbDevice"
    BY <1>2, <2>1 DEF ManagerAdds
  <2>4. mail[1].task = {u} /\ u \in Tasks
    BY <1>0, <2>1, <2>2, <2>3 DEF NamesRight, RightlyNamed
  <2>5. CASE n = mail[1].name
    <3>1. t = u
      BY <2>2, <2>5 DEF Put
    <3>2. Due(t, 1)
      BY <1>0, <1>n, <2>1, <2>3, <2>4, <3>1 DEF MailDue
    <3> QED BY <1>0, <1>2, <1>n, <3>2, DueTaken, <1>z DEF ManagerStep
  <2>6. CASE n # mail[1].name
    <3>1. n \in DOMAIN listed /\ t = listed[n]
      BY <2>2, <2>6 DEF Put
    <3>2. Due(t, 0)
      BY <1>0, <1>n, <3>1 DEF ListedDue
    <3>3. Due(t, 1)
      BY <1>0, <1>n, <2>3, <3>2, DueBefore
    <3> QED BY <1>0, <1>2, <1>n, <3>3, DueTaken, <1>z DEF ManagerStep
  <2> QED BY <2>5, <2>6
<1>3. CASE ManagerRemoves
  <2>1. mail # <<>> /\ mail' = Tail(mail) /\ Head(mail) = mail[1] /\ 1 \in DOMAIN mail
    BY <1>0, <1>3, MailTaken DEF ManagerRemoves
  <2>2. n \in DOMAIN listed /\ t = listed[n] /\ n # mail[1].name
    BY <1>3, <2>1 DEF ManagerRemoves, Without
  <2>3. Due(t, 0)
    BY <1>0, <1>n, <2>2 DEF ListedDue
  <2>4. Due(t, 1)
    BY <1>0, <1>n, <2>2, <2>3, DueBefore
  <2> QED BY <1>0, <1>3, <1>n, <2>4, DueTaken, <1>z DEF ManagerStep
<1> QED BY <1>1, <1>2, <1>3 DEF ManagerStep

LEMMA MailDueStep ==
  ASSUME HotplugTypes, SettingUp, NamesRight, NEW X, ListedDue(X), MailDue(X), [Next]_vars
  PROVE  MailDue(X)'
<1> SUFFICES ASSUME NEW i \in DOMAIN mail', NEW t \in Tasks,
                    mail'[i].type = "DiscoveredUsbDevice", mail'[i].task = {t},
                    NeverPaired(PlugOf(t))', t \notin X
             PROVE  Due(t, i)'
  BY DEF MailDue
<1>0. HotplugTypes /\ SettingUp /\ NamesRight /\ ListedDue(X) /\ MailDue(X)
  OBVIOUS
<1>t. HotplugTypes'
  BY <1>0, TypesStep
<1>i. i \in Nat /\ i > 0
  BY <1>t DEF HotplugTypes
<1>n. NeverPaired(PlugOf(t))
  BY <1>0, NeverPairedBefore
<1>1. CASE ManagerStep
  <2>1. mail # <<>> /\ mail' = Tail(mail)
    BY <1>1 DEF ManagerStep, ManagerAdds, ManagerRemoves
  <2>2. i + 1 \in DOMAIN mail /\ mail'[i] = mail[i + 1]
    BY <1>0, <2>1, MailTaken
  <2>3. Due(t, i + 1)
    BY <1>0, <1>n, <2>2 DEF MailDue
  <2> QED BY <1>0, <1>1, <1>i, <2>3, DueTaken
<1>2. CASE ~ManagerStep /\ i \in DOMAIN mail /\ mail'[i] = mail[i]
  <2>1. Due(t, i) /\ i <= Len(mail)
    BY <1>0, <1>2, <1>n DEF MailDue, HotplugTypes
  <2> QED BY <1>0, <1>2, <1>i, <1>n, <2>1, DueStays
<1>3. ASSUME NEW u \in Tasks, RegisterPaired(u)
      PROVE  Due(t, i)' \/ (i \in DOMAIN mail /\ mail'[i] = mail[i])
  <2> DEFINE m == [type |-> "DiscoveredUsbDevice", name |-> Udid(PhoneOf(u)), task |-> {u}]
  <2>1. mail' = Append(mail, m) /\ loop' = At("insertUdid", u)
    BY <1>3 DEF RegisterPaired, Register
  <2>2. \/ i \in DOMAIN mail /\ mail'[i] = mail[i]
        \/ mail'[i] = m
    BY <1>0, <2>1, MailSent
  <2>3. ASSUME mail'[i] = m PROVE Due(t, i)'
    <3>1. t = u
      BY <2>3
    <3>2. Inserting(t)'
      BY <2>1, <3>1 DEF Inserting
    <3> QED BY <3>2 DEF Due
  <2> HIDE DEF m
  <2> QED BY <2>2, <2>3
<1>4. ASSUME NEW u \in Tasks, PairRegisters(u)
      PROVE  i \in DOMAIN mail /\ mail'[i] = mail[i]
  <2> DEFINE m == [type |-> "DiscoveredUsbDevice", name |-> Udid(PhoneOf(u)), task |-> {u}]
  <2>1. mail' = Append(mail, m) /\ pair[u] = "registering"
    BY <1>4 DEF PairRegisters, Register
  <2>2. u # t
    BY <1>n, <2>1 DEF NeverPaired
  <2>3. \/ i \in DOMAIN mail /\ mail'[i] = mail[i]
        \/ mail'[i] = m
    BY <1>0, <2>1, MailSent
  <2>4. m.task = {u}
    OBVIOUS
  <2> QED BY <2>2, <2>3, <2>4
<1>5. ASSUME NEW p, NEW n, SendRemove(p, n) PROVE i \in DOMAIN mail /\ mail'[i] = mail[i]
  <2> DEFINE m == [type |-> "RemoveDevice", name |-> n, task |-> {}]
  <2>1. mail' = Append(mail, m)
    BY <1>5 DEF SendRemove
  <2>2. \/ i \in DOMAIN mail /\ mail'[i] = mail[i]
        \/ mail'[i] = m
    BY <1>0, <2>1, MailSent
  <2>3. m.type = "RemoveDevice"
    OBVIOUS
  <2> QED BY <2>2, <2>3
<1>6. ASSUME NEW p \in Plugs, Disconnected(p) PROVE i \in DOMAIN mail /\ mail'[i] = mail[i]
  BY <1>6, <1>5 DEF Disconnected
<1>7. ASSUME NEW u \in Tasks, WatcherSends(u) PROVE i \in DOMAIN mail /\ mail'[i] = mail[i]
  BY <1>7, <1>5 DEF WatcherSends
<1>8. ASSUME NEW u \in Tasks, Claim(u) \/ StartPairing(u) \/ InsertKnown(u) \/ MuxExits(u)
             \/ WatcherWakes(u) \/ PairSucceeds(u) \/ PairFails(u) \/ PairRenames(u)
      PROVE  UNCHANGED mail
  BY <1>8 DEF Claim, StartPairing, InsertKnown, MuxExits, WatcherWakes, PairSucceeds, PairFails,
     PairRenames
<1>9. ASSUME NEW p \in Plugs, ConnectFails(p) \/ Plug(p) \/ Unplug(p) PROVE UNCHANGED mail
  BY <1>9 DEF ConnectFails, Plug, Unplug
<1>10. CASE ListDevices \/ UNCHANGED vars
  BY <1>10, <1>2, <1>1 DEF ListDevices, vars
<1> QED
  BY <1>1, <1>2, <1>3, <1>4, <1>6, <1>7, <1>8, <1>9, <1>10 DEF Next, LoopStep, WatcherStep

LEMMA DueInitially == Init => DueInv
<1>1. Init => HotplugTypes
  <2> SUFFICES ASSUME Init PROVE HotplugTypes
    OBVIOUS
  <2>1. "" \in SomeName
    BY DEF SomeName
  <2>2. watcher \in [Tasks -> [pc : {"none", "armed", "removing", "done"}, name : SomeName]]
    BY <2>1 DEF Init
  <2>3. mail \in Seq(Messages) /\ DOMAIN known = {} /\ DOMAIN listed = {}
    <3>1. <<>> \in Seq(Messages) /\ Len(<<>>) = 0
      OBVIOUS
    <3>2. DOMAIN <<>> = {}
      OBVIOUS
    <3> QED BY <3>1, <3>2 DEF Init
  <2> QED BY <2>2, <2>3 DEF Init, HotplugTypes, Idle, MuxStates, PairStates, LoopStates
<1>2. Init => SettingUp /\ NamesRight /\ ListedDue({}) /\ MailDue({})
  <2> SUFFICES ASSUME Init PROVE SettingUp /\ NamesRight /\ ListedDue({}) /\ MailDue({})
    OBVIOUS
  <2>1. DOMAIN mail = {} /\ DOMAIN known = {} /\ DOMAIN listed = {}
    <3>1. DOMAIN <<>> = {}
      OBVIOUS
    <3> QED BY <3>1 DEF Init
  <2>2. \A t \in Tasks : watcher[t].pc = "none"
    BY DEF Init
  <2>3. loop.task = {} /\ loop.pc = "start"
    BY DEF Init, Idle
  <2> QED BY <2>1, <2>2, <2>3 DEF SettingUp, NamesRight, ListedDue, MailDue, At
<1> QED BY <1>1, <1>2 DEF DueInv

(* Spec => []DueInv *)
LEMMA DueAlways == Spec => []DueInv
<1>2. DueInv /\ [Next]_vars => DueInv'
  <2>1. DueInv => HotplugTypes /\ SettingUp /\ NamesRight /\ ListedDue({}) /\ MailDue({})
    BY DEF DueInv
  <2> QED BY <2>1, TypesStep, SettingUpStep, NamesStep, ListedDueStep, MailDueStep DEF DueInv
<1> QED BY <1>2, DueInitially, PTL DEF Spec

(* No entry outlives its mux task unnoticed: of an attachment that never   *)
(* had to be paired, the entry of a dead task is about to be removed.      *)
THEOREM DeadEntriesGo == Spec => []CleanupPending
<1> QED BY DueAlways, PendingIfDue, PTL
-----------------------------------------------------------------------------
(* The same where devices are polled: the loop takes the entry of a key    *)
(* that is gone, and sends its removal in a step of its own.               *)

Doomed(t) == <<PlugOf(t), Udid(PhoneOf(t))>> \in doomed
DoomedTasks == {t \in Tasks : Doomed(t)}

DoomedRight ==
  /\ doomed \subseteq Plugs \X SomeName
  /\ \A e, f \in doomed : e = f
  /\ \A e \in doomed : NeverPaired(e[1]) => e[2] = Udid(DeviceOf[e[1]])

PollTypes == HotplugTypes /\ SettingUp /\ NamesRight /\ DoomedRight
PollInv == PollTypes /\ ListedDue(DoomedTasks) /\ MailDue(DoomedTasks)

LEMMA PolledPendingIfDue == PollInv => PolledCleanupPending
<1> SUFFICES ASSUME PollInv, NEW n \in DOMAIN listed, NeverPaired(PlugOf(listed[n]))
             PROVE  RemovalUnderWay(listed[n]) \/ <<PlugOf(listed[n]), n>> \in doomed
  BY DEF PolledCleanupPending
<1>0. HotplugTypes /\ NamesRight /\ ListedDue(DoomedTasks)
  BY DEF PollInv, PollTypes
<1> DEFINE t == listed[n]
<1>1. t \in Tasks /\ n = Udid(PhoneOf(t))
  BY <1>0 DEF HotplugTypes
<1>2. CASE t \in DoomedTasks
  BY <1>1, <1>2 DEF DoomedTasks, Doomed
<1>3. CASE Due(t, 0)
  BY <1>0, <1>1, <1>3, UnderWayIfDue
<1> QED BY <1>0, <1>2, <1>3 DEF ListedDue

(* Steps of the event loop's parts leave what the poll loop took alone.    *)
LEMMA SharedStep ==
  ASSUME PollInv, Next, UNCHANGED doomed
  PROVE  PollInv'
<1>0. /\ HotplugTypes /\ SettingUp /\ NamesRight /\ DoomedRight /\ [Next]_vars
      /\ ListedDue(DoomedTasks) /\ MailDue(DoomedTasks)
  BY DEF PollInv, PollTypes
<1>1. PICK X : X = DoomedTasks
  OBVIOUS
<1>2. DoomedTasks' = X
  BY <1>1 DEF DoomedTasks, Doomed
<1>3. ListedDue(X) /\ MailDue(X)
  BY <1>0, <1>1
<1>4. HotplugTypes' /\ SettingUp' /\ NamesRight'
  BY <1>0, TypesStep, SettingUpStep, NamesStep
<1>5. ListedDue(X)' /\ MailDue(X)'
  BY <1>0, <1>3, ListedDueStep, MailDueStep
<1>6. ListedDue(DoomedTasks)' /\ MailDue(DoomedTasks)'
  BY <1>2, <1>5 DEF ListedDue, MailDue
<1>7. DoomedRight'
  BY <1>0, NeverPairedBefore DEF DoomedRight
<1> QED BY <1>4, <1>6, <1>7 DEF PollInv, PollTypes

(* The poll loop between two devices, and the user.                        *)
LEMMA QuietStep ==
  ASSUME PollInv, UNCHANGED <<known, watcher, pair, mail, listed, cleanups, doomed>>,
         HotplugTypes', SettingUp', loop.pc \in {"start", "compare", "scan"} \/ UNCHANGED loop
  PROVE  PollInv'
<1>0. /\ HotplugTypes /\ SettingUp /\ NamesRight /\ DoomedRight
      /\ ListedDue(DoomedTasks) /\ MailDue(DoomedTasks)
  BY DEF PollInv, PollTypes
<1>1. \A p : NeverPaired(p)' <=> NeverPaired(p)
  BY DEF NeverPaired
<1>2. \A t \in Tasks : Inserting(t) => Inserting(t)'
  BY DEF Inserting, At
<1>3. \A t \in Tasks, i \in Nat : Due(t, i) => Due(t, i)'
  BY <1>2 DEF Due
<1>4. DoomedTasks' = DoomedTasks
  BY DEF DoomedTasks, Doomed
<1>5. ListedDue(DoomedTasks)'
  BY <1>0, <1>1, <1>3, <1>4 DEF ListedDue, HotplugTypes
<1>6. MailDue(DoomedTasks)'
  BY <1>0, <1>1, <1>3, <1>4 DEF MailDue, HotplugTypes
<1>7. NamesRight' /\ DoomedRight'
  BY <1>0, <1>1 DEF NamesRight, DoomedRight
<1> QED BY <1>5, <1>6, <1>7 DEF PollInv, PollTypes

LEMMA TakeStep ==
  ASSUME PollInv, NEW p \in Plugs, TakeStale(p)
  PROVE  PollInv'
<1>0. /\ HotplugTypes /\ SettingUp /\ NamesRight /\ DoomedRight
      /\ ListedDue(DoomedTasks) /\ MailDue(DoomedTasks)
  BY DEF PollInv, PollTypes
<1>u. /\ UNCHANGED <<watcher, pair, mail, listed, cleanups, loop, mux>>
      /\ known' = Without(known, p) /\ doomed = {} /\ loop.pc = "scan"
      /\ p \in DOMAIN known => doomed' = {<<p, known[p]>>}
      /\ p \notin DOMAIN known => doomed' = {}
  BY DEF TakeStale
<1>1. \A q : NeverPaired(q)' <=> NeverPaired(q)
  BY <1>u DEF NeverPaired
<1>2. /\ DOMAIN known' = DOMAIN known \ {p}
      /\ \A q \in DOMAIN known' : known'[q] = known[q]
  BY <1>u DEF Without
<1>3. HotplugTypes' /\ SettingUp' /\ NamesRight'
  BY <1>0, <1>u, <1>1, <1>2 DEF HotplugTypes, SettingUp, NamesRight
<1>4. DoomedRight'
  BY <1>0, <1>u, <1>1 DEF DoomedRight, HotplugTypes, NamesRight
<1>5. DoomedTasks = {}
  BY <1>u DEF DoomedTasks, Doomed
<1>6. ASSUME NEW t \in Tasks, NEW i \in Nat, Due(t, i), NeverPaired(PlugOf(t))
      PROVE  Due(t, i)' \/ t \in DoomedTasks'
  <2>1. CASE PlugOf(t) \in DOMAIN known /\ watcher[t].pc = "armed"
    <3>1. CASE PlugOf(t) = p
      <4>1. known[p] = Udid(PhoneOf(t))
        BY <1>0, <1>6, <2>1, <3>1 DEF NamesRight, PhoneOf
      <4> QED BY <1>u, <2>1, <3>1, <4>1 DEF DoomedTasks, Doomed
    <3>2. CASE PlugOf(t) # p
      BY <1>u, <1>2, <2>1, <3>2 DEF Due
    <3> QED BY <3>1, <3>2
  <2>2. CASE ~(PlugOf(t) \in DOMAIN known /\ watcher[t].pc = "armed")
    BY <1>u, <1>6, <2>2 DEF Due, Inserting
  <2> QED BY <2>1, <2>2
<1>7. ListedDue(DoomedTasks)'
  BY <1>0, <1>u, <1>1, <1>5, <1>6 DEF ListedDue, HotplugTypes
<1>8. MailDue(DoomedTasks)'
  BY <1>0, <1>u, <1>1, <1>5, <1>6 DEF MailDue, HotplugTypes
<1> QED BY <1>3, <1>4, <1>7, <1>8 DEF PollInv, PollTypes

LEMMA SendStep ==
  ASSUME PollInv, SendStale
  PROVE  PollInv'
<1>0. /\ HotplugTypes /\ SettingUp /\ NamesRight /\ DoomedRight
      /\ ListedDue(DoomedTasks) /\ MailDue(DoomedTasks)
  BY DEF PollInv, PollTypes
<1>1. PICK e \in doomed : SendRemove(e[1], e[2])
  BY DEF SendStale
<1>2. /\ doomed' = {} /\ UNCHANGED <<loop, known, mux, watcher, pair, listed>>
      /\ e[1] \in Plugs /\ e[2] \in SomeName /\ \A f \in doomed : f = e
  BY <1>0 DEF SendStale, DoomedRight
<1> DEFINE m == [type |-> "RemoveDevice", name |-> e[2], task |-> {}]
<1>3. mail' = Append(mail, m) /\ cleanups' = [cleanups EXCEPT ![e[1]] = @ + 1]
  BY <1>1 DEF SendRemove
<1>4. m \in Messages /\ RightlyNamed(m) /\ m.type = "RemoveDevice"
  BY <1>2 DEF Messages, RightlyNamed
<1>5. \A q : NeverPaired(q)' <=> NeverPaired(q)
  BY <1>2 DEF NeverPaired
<1> HIDE DEF m
<1>6. HotplugTypes'
  BY <1>0, <1>2, <1>3, <1>4 DEF HotplugTypes
<1>7. SettingUp'
  BY <1>0, <1>2 DEF SettingUp
<1>8. \A i \in DOMAIN mail' : RightlyNamed(mail'[i])
  BY <1>0, <1>3, <1>4, NamesSent
<1>9. NamesRight'
  BY <1>0, <1>2, <1>5, <1>8 DEF NamesRight
<1>10. DoomedRight'
  BY <1>2 DEF DoomedRight
<1>11. ASSUME NEW t \in Tasks, NEW i \in Nat, i <= Len(mail), Due(t, i) \/ t \in DoomedTasks
       PROVE  Due(t, i)'
  <2>1. CASE RemovalBehind(t, i)
    <3>1. RemovalBehind(t, i)'
      BY <1>0, <1>3, <2>1, BehindKept
    <3> QED BY <3>1 DEF Due, RemovalBehind
  <2>2. CASE t \in DoomedTasks
    <3>1. e = <<PlugOf(t), Udid(PhoneOf(t))>>
      BY <1>2, <2>2 DEF DoomedTasks, Doomed
    <3>2. SendRemove(PlugOf(t), Udid(PhoneOf(t)))
      BY <1>1, <3>1
    <3>3. RemovalBehind(t, i)'
      BY <1>0, <1>11, <3>2, SentBehind
    <3> QED BY <3>3 DEF Due, RemovalBehind
  <2>3. CASE Due(t, i) /\ ~RemovalBehind(t, i)
    BY <1>2, <2>3 DEF Due, RemovalBehind, Inserting
  <2> QED BY <1>11, <2>1, <2>2, <2>3
<1>12. ListedDue(DoomedTasks)'
  <2>1. 0 \in Nat /\ 0 <= Len(mail)
    BY <1>0 DEF HotplugTypes
  <2> QED BY <1>0, <1>2, <1>5, <1>11, <2>1 DEF ListedDue, HotplugTypes
<1>13. MailDue(DoomedTasks)'
  <2> SUFFICES ASSUME NEW i \in DOMAIN mail', NEW t \in Tasks, NeverPaired(PlugOf(t)),
                      mail'[i].type = "DiscoveredUsbDevice", mail'[i].task = {t}
               PROVE  Due(t, i)'
    BY <1>5 DEF MailDue
  <2>1. i \in DOMAIN mail /\ mail'[i] = mail[i]
    BY <1>0, <1>3, <1>4, MailSent
  <2>2. i \in Nat /\ i <= Len(mail)
    BY <1>0, <2>1 DEF HotplugTypes
  <2>3. Due(t, i) \/ t \in DoomedTasks
    BY <1>0, <2>1 DEF MailDue
  <2> QED BY <1>11, <2>2, <2>3
<1> QED BY <1>6, <1>7, <1>9, <1>10, <1>12, <1>13 DEF PollInv, PollTypes

LEMMA PollInvStep ==
  ASSUME PollInv, [PollNext]_allVars
  PROVE  PollInv'
<1>0. HotplugTypes /\ SettingUp
  BY DEF PollInv, PollTypes
<1> USE DEF pollVars
<1>1. ASSUME NEW p \in Plugs, Replug(p) \/ Vanish(p) \/ OpenFails(p) PROVE PollInv'
  <2>1. UNCHANGED <<loop, known, mux, watcher, pair, mail, listed, cleanups, doomed>>
    BY <1>1 DEF Replug, Vanish, OpenFails
  <2>2. HotplugTypes' /\ SettingUp'
    BY <1>0, <2>1 DEF HotplugTypes, SettingUp
  <2> QED BY <2>1, <2>2, QuietStep
<1>2. CASE Enumerate \/ Compare \/ Sleep \/ UNCHANGED allVars
  <2>1. /\ UNCHANGED <<known, mux, watcher, pair, mail, listed, cleanups, doomed>>
        /\ UNCHANGED loop \/ \E pc \in {"compare", "scan", "start"} : loop' = Idle(pc)
    BY <1>2 DEF Enumerate, Compare, Sleep, allVars, vars
  <2>2. HotplugTypes' /\ SettingUp'
    BY <1>0, <2>1 DEF HotplugTypes, SettingUp, Idle, At, LoopStates
  <2>3. loop.pc \in {"start", "compare", "scan"} \/ UNCHANGED loop
    BY <1>2 DEF Enumerate, Compare, Sleep, allVars, vars
  <2> QED BY <2>1, <2>2, <2>3, QuietStep
<1>3. ASSUME NEW t \in Tasks, Open(t) PROVE PollInv'
  <2>1. /\ UNCHANGED <<known, watcher, pair, mail, listed, cleanups, doomed>>
        /\ mux[t] = "none" /\ mux' = [mux EXCEPT ![t] = "running"] /\ loop' = At("connect", t)
        /\ loop.pc = "scan"
    BY <1>3 DEF Open
  <2>2. HotplugTypes' /\ SettingUp'
    BY <1>0, <2>1 DEF HotplugTypes, SettingUp, MuxStates, At, LoopStates
  <2> QED BY <2>1, <2>2, QuietStep
<1>4. ASSUME NEW p \in Plugs, FirstPlug(p) PROVE PollInv'
  <2>1. Next /\ UNCHANGED doomed
    BY <1>4 DEF FirstPlug, Next
  <2> QED BY <2>1, SharedStep
<1>5. ASSUME NEW t \in Tasks, Connecting(t) PROVE PollInv'
  <2>1. Next /\ UNCHANGED doomed
    BY <1>5 DEF Connecting, Next, LoopStep
  <2> QED BY <2>1, SharedStep
<1>6. CASE OthersStep
  <2>1. Next /\ UNCHANGED doomed
    BY <1>6 DEF OthersStep, Next
  <2> QED BY <2>1, SharedStep
<1> QED
  BY <1>1, <1>2, <1>3, <1>4, <1>5, <1>6, TakeStep, SendStep DEF PollNext, PollStep

(* Where devices are polled, too, the entry of a dead task of a phone that *)
(* never had to be paired has its removal on the way, although the loop    *)
(* may take the key of "known" first, and opens a key again before the     *)
(* tasks of the last time have ended.                                      *)
THEOREM PolledEntriesGo == PollSpec => []PolledCleanupPending
<1>1. PollInit => PollInv
  <2> SUFFICES ASSUME PollInit PROVE PollInv
    OBVIOUS
  <2>1. Init /\ doomed = {}
    BY DEF PollInit
  <2>2. DueInv
    BY <2>1, DueInitially
  <2>3. DoomedTasks = {}
    BY <2>1 DEF DoomedTasks, Doomed
  <2> QED BY <2>1, <2>2, <2>3 DEF DueInv, PollInv, PollTypes, DoomedRight
<1>2. PollInv /\ [PollNext]_allVars => PollInv'
  BY PollInvStep
<1> QED BY <1>1, <1>2, PolledPendingIfDue, PTL DEF PollSpec
-----------------------------------------------------------------------------
(* The claims of an attachment pay for its clean-ups: each is spent by the *)
(* set-up of its task, then by the entry of "known", then by the watcher   *)
(* that took the entry, and at last by a removal that was sent.            *)

TasksOf(p) == {t \in Tasks : PlugOf(t) = p}
Claimed(p) == {t \in Tasks : PlugOf(t) = p /\ mux[t] # "none"}
Removing(p) == {t \in Tasks : PlugOf(t) = p /\ watcher[t].pc = "removing"}
Count(b) == IF b THEN 1 ELSE 0

ClaimsPay ==
  /\ loop.pc \in {"start", "scan"} => loop.task = {}
  /\ \A p \in Plugs :
       cleanups[p] + Cardinality(Removing(p)) + Count(p \in DOMAIN known)
         + Count(\E t \in loop.task : PlugOf(t) = p) <= Cardinality(Claimed(p))

LEMMA FewTasks ==
  ASSUME NEW p \in Plugs
  PROVE  IsFiniteSet(TasksOf(p))
<1> DEFINE f == [k \in 1..Claims |-> <<p, k>>]
<1>1. f \in Surjection(1..Claims, TasksOf(p))
  BY DEF Surjection, TasksOf, Tasks, PlugOf
<1>2. IsFiniteSet(1..Claims)
  BY FS_Interval, ClaimsAssumption
<1> QED BY <1>1, <1>2, FS_Surjection

LEMMA FewInvolved ==
  ASSUME NEW p \in Plugs
  PROVE  /\ IsFiniteSet(Claimed(p)) /\ IsFiniteSet(Claimed(p)')
         /\ IsFiniteSet(Removing(p)) /\ IsFiniteSet(Removing(p)')
         /\ Cardinality(Claimed(p)) \in Nat /\ Cardinality(Claimed(p)') \in Nat
         /\ Cardinality(Removing(p)) \in Nat /\ Cardinality(Removing(p)') \in Nat
<1>1. /\ Claimed(p) \in SUBSET TasksOf(p) /\ Claimed(p)' \in SUBSET TasksOf(p)
      /\ Removing(p) \in SUBSET TasksOf(p) /\ Removing(p)' \in SUBSET TasksOf(p)
  BY DEF Claimed, Removing, TasksOf
<1>2. /\ IsFiniteSet(Claimed(p)) /\ IsFiniteSet(Claimed(p)')
      /\ IsFiniteSet(Removing(p)) /\ IsFiniteSet(Removing(p)')
  BY <1>1, FewTasks, FS_Subset
<1> QED BY <1>2, FS_CardinalityType

LEMMA ClaimsStay ==
  ASSUME HotplugTypes, [Next]_vars, NEW t \in Tasks, mux[t] # "none"
  PROVE  mux'[t] # "none"
<1> USE DEF HotplugTypes, MuxStates
<1>1. ASSUME NEW u \in Tasks, Claim(u) \/ MuxExits(u) PROVE mux'[t] # "none"
  BY <1>1 DEF Claim, MuxExits
<1>2. ASSUME NEW u \in Tasks, PairFails(u) PROVE mux'[t] # "none"
  BY <1>2 DEF PairFails, Stopped
<1>3. CASE ManagerRemoves
  BY <1>3 DEF ManagerRemoves, Stopped
<1>4. ASSUME NEW p \in Plugs, ConnectFails(p) \/ Disconnected(p) \/ Plug(p) \/ Unplug(p)
      PROVE  UNCHANGED mux
  BY <1>4 DEF ConnectFails, Disconnected, Plug, Unplug
<1>5. ASSUME NEW u \in Tasks, RegisterPaired(u) \/ StartPairing(u) \/ InsertKnown(u)
                \/ WatcherWakes(u) \/ WatcherSends(u)
      PROVE  UNCHANGED mux
  BY <1>5 DEF RegisterPaired, StartPairing, InsertKnown, WatcherWakes, WatcherSends
<1>6. ASSUME NEW u \in Tasks, PairSucceeds(u) \/ PairRenames(u) \/ PairRegisters(u)
      PROVE  UNCHANGED mux
  BY <1>6 DEF PairSucceeds, PairRenames, PairRegisters
<1>7. CASE ListDevices \/ ManagerAdds \/ UNCHANGED vars
  BY <1>7 DEF ListDevices, ManagerAdds, vars
<1> QED
  BY <1>1, <1>2, <1>3, <1>4, <1>5, <1>6, <1>7 DEF Next, LoopStep, ManagerStep, WatcherStep

LEMMA ClaimsGrow ==
  ASSUME HotplugTypes, [Next]_vars, NEW p \in Plugs
  PROVE  Cardinality(Claimed(p)) <= Cardinality(Claimed(p)')
<1>1. Claimed(p) \in SUBSET (Claimed(p)')
  BY ClaimsStay DEF Claimed
<1> QED BY <1>1, FewInvolved, FS_Subset

LEMMA WatcherTurns ==
  ASSUME NEW p \in Plugs, NEW t \in Tasks,
         \A u \in Tasks : u # t => watcher'[u] = watcher[u]
  PROVE  /\ PlugOf(t) # p => Removing(p)' = Removing(p)
         /\ watcher[t].pc # "removing" /\ watcher'[t].pc # "removing" =>
              Removing(p)' = Removing(p)
         /\ PlugOf(t) = p /\ watcher[t].pc # "removing" /\ watcher'[t].pc = "removing" =>
              Cardinality(Removing(p)') = Cardinality(Removing(p)) + 1
         /\ PlugOf(t) = p /\ watcher[t].pc = "removing" /\ watcher'[t].pc # "removing" =>
              Cardinality(Removing(p)') = Cardinality(Removing(p)) - 1
<1>1. (PlugOf(t) # p => Removing(p)' = Removing(p))
      /\ (watcher[t].pc # "removing" /\ watcher'[t].pc # "removing" =>
            Removing(p)' = Removing(p))
  BY DEF Removing
<1>2. ASSUME PlugOf(t) = p, watcher[t].pc # "removing", watcher'[t].pc = "removing"
      PROVE  Cardinality(Removing(p)') = Cardinality(Removing(p)) + 1
  <2>1. Removing(p)' = Removing(p) \cup {t} /\ t \notin Removing(p)
    BY <1>2 DEF Removing
  <2> QED BY <2>1, FewInvolved, FS_AddElement
<1>3. ASSUME PlugOf(t) = p, watcher[t].pc = "removing", watcher'[t].pc # "removing"
      PROVE  Cardinality(Removing(p)') = Cardinality(Removing(p)) - 1
  <2>1. Removing(p)' = Removing(p) \ {t} /\ t \in Removing(p)
    BY <1>3 DEF Removing
  <2> QED BY <2>1, FewInvolved, FS_RemoveElement
<1> QED BY <1>1, <1>2, <1>3

LEMMA PayStep ==
  ASSUME HotplugTypes, SettingUp, ClaimsPay, [Next]_vars
  PROVE  ClaimsPay'
<1> DEFINE C(p) == Cardinality(Claimed(p))
           R(p) == Cardinality(Removing(p))
           K(p) == Count(p \in DOMAIN known)
           S(p) == Count(\E t \in loop.task : PlugOf(t) = p)
<1>f. \A p \in Plugs : /\ C(p) \in Nat /\ C(p)' \in Nat /\ R(p) \in Nat /\ R(p)' \in Nat
                       /\ C(p) <= C(p)'
  BY FewInvolved, ClaimsGrow
<1>k. \A p \in Plugs : K(p) \in {0, 1} /\ K(p)' \in {0, 1} /\ S(p) \in {0, 1} /\ S(p)' \in {0, 1}
  BY DEF Count
<1>p. /\ loop.pc \in {"start", "scan"} => loop.task = {}
      /\ \A p \in Plugs : cleanups[p] \in Nat /\ cleanups[p] + R(p) + K(p) + S(p) <= C(p)
  BY DEF ClaimsPay, HotplugTypes
<1>g. ASSUME loop'.pc \in {"start", "scan"} => loop'.task = {},
             \A p \in Plugs : cleanups'[p] + R(p)' + K(p)' + S(p)' <= C(p)'
      PROVE  ClaimsPay'
  BY <1>g DEF ClaimsPay
<1> HIDE DEF C, R, K, S
<1>1. ASSUME UNCHANGED <<known, watcher, cleanups>>, UNCHANGED loop.task,
             loop'.pc \in {"start", "scan"} => loop.pc \in {"start", "scan"}
      PROVE  ClaimsPay'
  <2>1. \A p \in Plugs : R(p)' = R(p) /\ K(p)' = K(p) /\ S(p)' = S(p)
    BY <1>1 DEF R, K, S, Removing
  <2>2. \A p \in Plugs : cleanups'[p] + R(p)' + K(p)' + S(p)' <= C(p)'
    BY <1>1, <1>f, <1>k, <1>p, <2>1
  <2> QED BY <1>1, <1>p, <1>g, <2>2
<1>2. ASSUME NEW t \in Tasks, Claim(t) PROVE ClaimsPay'
  <2>1. /\ UNCHANGED <<known, watcher, cleanups>> /\ loop.pc = "scan" /\ loop'.pc = "connect"
        /\ loop'.task = {t} /\ mux[t] = "none" /\ mux' = [mux EXCEPT ![t] = "running"]
    BY <1>2 DEF Claim, Reported, At
  <2>2. ASSUME NEW p \in Plugs PROVE cleanups'[p] + R(p)' + K(p)' + S(p)' <= C(p)'
    <3>1. R(p)' = R(p) /\ K(p)' = K(p)
      BY <2>1 DEF R, K, Removing
    <3>2. S(p) = 0
      BY <1>p, <2>1 DEF S, Count
    <3>3. CASE PlugOf(t) = p
      <4>1. Claimed(p)' = Claimed(p) \cup {t} /\ t \notin Claimed(p)
        BY <2>1, <3>3 DEF Claimed, HotplugTypes
      <4>2. C(p)' = C(p) + 1
        BY <4>1, FewInvolved, FS_AddElement DEF C
      <4> QED BY <1>f, <1>k, <1>p, <2>1, <3>1, <3>2, <4>2
    <3>4. CASE PlugOf(t) # p
      <4>1. S(p)' = 0
        BY <2>1, <3>4 DEF S, Count
      <4> QED BY <1>f, <1>k, <1>p, <2>1, <3>1, <3>2, <4>1
    <3> QED BY <3>3, <3>4
  <2> QED BY <1>g, <2>1, <2>2
<1>3. ASSUME NEW t \in Tasks, InsertKnown(t) PROVE ClaimsPay'
  <2>1. /\ UNCHANGED cleanups /\ loop'.pc = "scan" /\ loop'.task = {} /\ loop.task = {t}
        /\ DOMAIN known' = DOMAIN known \cup {PlugOf(t)}
        /\ watcher'[t].pc = "armed" /\ \A u \in Tasks : u # t => watcher'[u] = watcher[u]
    BY <1>3 DEF InsertKnown, Inserting, At, Idle, Put, HotplugTypes
  <2>2. watcher[t].pc = "none"
    BY <2>1 DEF SettingUp
  <2>3. ASSUME NEW p \in Plugs PROVE cleanups'[p] + R(p)' + K(p)' + S(p)' <= C(p)'
    <3>1. R(p)' = R(p)
      BY <2>1, <2>2, WatcherTurns DEF R
    <3>2. S(p)' = 0
      BY <2>1 DEF S, Count
    <3>3. K(p)' <= K(p) + S(p)
      BY <2>1 DEF K, S, Count
    <3> QED BY <1>f, <1>k, <1>p, <2>1, <3>1, <3>2, <3>3
  <2> QED BY <1>g, <2>1, <2>3
<1>4. ASSUME NEW q \in Plugs, Disconnected(q) PROVE ClaimsPay'
  <2>1. /\ UNCHANGED <<loop, watcher>> /\ DOMAIN known' = DOMAIN known \ {q}
        /\ cleanups' = [cleanups EXCEPT ![q] = @ + Count(q \in DOMAIN known)]
    <3>1. q \in DOMAIN known => cleanups' = [cleanups EXCEPT ![q] = @ + 1]
      BY <1>4 DEF Disconnected, SendRemove
    <3>2. q \notin DOMAIN known => cleanups' = cleanups
      BY <1>4 DEF Disconnected
    <3> QED BY <1>4, <3>1, <3>2 DEF Disconnected, Without, Count, HotplugTypes
  <2>2. ASSUME NEW p \in Plugs PROVE cleanups'[p] + R(p)' + K(p)' + S(p)' <= C(p)'
    <3>1. R(p)' = R(p) /\ S(p)' = S(p)
      BY <2>1 DEF R, S, Removing
    <3>2. cleanups'[p] + K(p)' = cleanups[p] + K(p)
      BY <2>1 DEF K, Count, HotplugTypes
    <3>3. cleanups'[p] \in Nat
      BY <2>1 DEF Count, HotplugTypes
    <3> QED BY <1>f, <1>k, <1>p, <3>1, <3>2, <3>3
  <2> QED BY <1>g, <1>p, <2>1, <2>2
<1>5. ASSUME NEW t \in Tasks, WatcherWakes(t) PROVE ClaimsPay'
  <2>1. /\ UNCHANGED <<loop, cleanups>> /\ DOMAIN known' = DOMAIN known \ {PlugOf(t)}
        /\ watcher[t].pc = "armed" /\ \A u \in Tasks : u # t => watcher'[u] = watcher[u]
        /\ watcher'[t].pc = IF PlugOf(t) \in DOMAIN known THEN "removing" ELSE "done"
    BY <1>5 DEF WatcherWakes, Without, HotplugTypes
  <2>2. ASSUME NEW p \in Plugs PROVE cleanups'[p] + R(p)' + K(p)' + S(p)' <= C(p)'
    <3>1. S(p)' = S(p)
      BY <2>1 DEF S
    <3>2. CASE PlugOf(t) = p /\ p \in DOMAIN known
      <4>1. R(p)' = R(p) + 1
        BY <2>1, <3>2, WatcherTurns DEF R
      <4>2. K(p) = 1 /\ K(p)' = 0
        BY <2>1, <3>2 DEF K, Count
      <4> QED BY <1>f, <1>k, <1>p, <2>1, <3>1, <4>1, <4>2
    <3>3. CASE ~ (PlugOf(t) = p /\ p \in DOMAIN known)
      <4>1. R(p)' = R(p)
        BY <2>1, <3>3, WatcherTurns DEF R
      <4>2. K(p)' = K(p)
        BY <2>1, <3>3 DEF K, Count
      <4> QED BY <1>f, <1>k, <1>p, <2>1, <3>1, <4>1, <4>2
    <3> QED BY <3>2, <3>3
  <2> QED BY <1>g, <1>p, <2>1, <2>2
<1>6. ASSUME NEW t \in Tasks, WatcherSends(t) PROVE ClaimsPay'
  <2>1. /\ UNCHANGED <<loop, known>> /\ cleanups' = [cleanups EXCEPT ![PlugOf(t)] = @ + 1]
        /\ watcher[t].pc = "removing" /\ \A u \in Tasks : u # t => watcher'[u] = watcher[u]
        /\ watcher'[t].pc = "done"
    BY <1>6 DEF WatcherSends, SendRemove, HotplugTypes
  <2>2. ASSUME NEW p \in Plugs PROVE cleanups'[p] + R(p)' + K(p)' + S(p)' <= C(p)'
    <3>1. S(p)' = S(p) /\ K(p)' = K(p)
      BY <2>1 DEF S, K
    <3>2. CASE PlugOf(t) = p
      <4>1. R(p)' = R(p) - 1
        BY <2>1, <3>2, WatcherTurns DEF R
      <4>2. cleanups'[p] = cleanups[p] + 1
        BY <2>1, <3>2 DEF HotplugTypes
      <4> QED BY <1>f, <1>k, <1>p, <3>1, <4>1, <4>2
    <3>3. CASE PlugOf(t) # p
      <4>1. R(p)' = R(p)
        BY <2>1, <3>3, WatcherTurns DEF R
      <4>2. cleanups'[p] = cleanups[p]
        BY <2>1, <3>3 DEF HotplugTypes
      <4> QED BY <1>f, <1>k, <1>p, <3>1, <4>1, <4>2
    <3> QED BY <3>2, <3>3
  <2> QED BY <1>g, <1>p, <2>1, <2>2
<1>7. ASSUME NEW t \in Tasks, RegisterPaired(t) \/ StartPairing(t)
      PROVE  /\ UNCHANGED <<known, watcher, cleanups>> /\ UNCHANGED loop.task
             /\ loop'.pc \notin {"start", "scan"}
  BY <1>7 DEF RegisterPaired, StartPairing, At
<1>8. ASSUME NEW t \in Tasks, MuxExits(t) \/ PairSucceeds(t) \/ PairFails(t) \/ PairRegisters(t)
      PROVE  UNCHANGED <<known, watcher, cleanups, loop>>
  BY <1>8 DEF MuxExits, PairSucceeds, PairFails, PairRegisters
<1>9. ASSUME NEW p \in Plugs, ConnectFails(p) \/ Plug(p) \/ Unplug(p)
      PROVE  UNCHANGED <<known, watcher, cleanups, loop>>
  BY <1>9 DEF ConnectFails, Plug, Unplug
<1>10. ASSUME NEW t \in Tasks, PairRenames(t) PROVE ClaimsPay'
  <2>1. DOMAIN known' = DOMAIN known /\ UNCHANGED <<watcher, cleanups, loop>>
    BY <1>10 DEF PairRenames
  <2>2. \A p \in Plugs : R(p)' = R(p) /\ K(p)' = K(p) /\ S(p)' = S(p)
    BY <2>1 DEF R, K, S, Removing
  <2>3. \A p \in Plugs : cleanups'[p] + R(p)' + K(p)' + S(p)' <= C(p)'
    BY <1>f, <1>k, <1>p, <2>1, <2>2
  <2> QED BY <1>p, <1>g, <2>1, <2>3
<1>11. CASE ManagerAdds \/ ManagerRemoves \/ UNCHANGED vars
  BY <1>11, <1>1 DEF ManagerAdds, ManagerRemoves, vars
<1>12. CASE ListDevices
  <2>1. UNCHANGED <<known, watcher, cleanups>> /\ loop.pc = "start" /\ loop'.task = {}
    BY <1>12 DEF ListDevices, Idle
  <2> QED BY <1>1, <1>p, <2>1
<1> QED
  BY <1>1, <1>2, <1>3, <1>4, <1>5, <1>6, <1>7, <1>8, <1>9, <1>10, <1>11, <1>12
     DEF Next, LoopStep, ManagerStep, WatcherStep

LEMMA PaidOnce == HotplugTypes /\ ClaimsPay => CleanedUpOnce
<1> SUFFICES ASSUME HotplugTypes, ClaimsPay, NEW p \in Plugs
             PROVE  cleanups[p] <= Cardinality(Claimed(p))
  BY DEF CleanedUpOnce, Claimed
<1>1. cleanups[p] \in Nat /\ Cardinality(Removing(p)) \in Nat /\ Cardinality(Claimed(p)) \in Nat
  BY FewInvolved DEF HotplugTypes
<1>2. Count(p \in DOMAIN known) \in {0, 1} /\ Count(\E t \in loop.task : PlugOf(t) = p) \in {0, 1}
  BY DEF Count
<1> DEFINE C == Cardinality(Claimed(p))
           R == Cardinality(Removing(p))
           K == Count(p \in DOMAIN known)
           S == Count(\E t \in loop.task : PlugOf(t) = p)
<1>3. cleanups[p] + R + K + S <= C
  BY DEF ClaimsPay
<1> HIDE DEF C, R, K, S
<1>4. C \in Nat /\ R \in Nat /\ K \in {0, 1} /\ S \in {0, 1}
  BY <1>1, <1>2 DEF C, R, K, S
<1>5. cleanups[p] <= C
  BY <1>1, <1>3, <1>4
<1> QED BY <1>5 DEF C

(* An attachment is cleaned up at most once for each task it was claimed   *)
(* for, although its disconnect and the exit of its task are both          *)
(* signalled.                                                              *)
THEOREM EachClaimCleanedUpOnce == Spec => []CleanedUpOnce
<1>1. Init => ClaimsPay
  <2> SUFFICES ASSUME Init PROVE ClaimsPay
    OBVIOUS
  <2>1. loop.task = {} /\ DOMAIN known = {}
    <3>1. DOMAIN <<>> = {}
      OBVIOUS
    <3> QED BY <3>1 DEF Init, Idle
  <2>2. ASSUME NEW p \in Plugs
        PROVE  /\ Removing(p) = {} /\ Claimed(p) = {} /\ cleanups[p] = 0
               /\ Count(p \in DOMAIN known) = 0 /\ Count(\E t \in loop.task : PlugOf(t) = p) = 0
    BY <2>1 DEF Init, Removing, Claimed, Count
  <2>3. Cardinality({}) = 0
    BY FS_EmptySet
  <2>4. ASSUME NEW p \in Plugs
        PROVE  cleanups[p] + Cardinality(Removing(p)) + Count(p \in DOMAIN known)
                 + Count(\E t \in loop.task : PlugOf(t) = p) <= Cardinality(Claimed(p))
    <3> DEFINE C == Cardinality(Claimed(p))
               R == Cardinality(Removing(p))
               K == Count(p \in DOMAIN known)
               S == Count(\E t \in loop.task : PlugOf(t) = p)
               N == cleanups[p]
    <3>1. N = 0 /\ R = 0 /\ C = 0 /\ K = 0 /\ S = 0
      BY <2>2, <2>3
    <3> HIDE DEF C, R, K, S, N
    <3>2. N + R + K + S <= C
      BY <3>1
    <3> QED BY <3>2 DEF C, R, K, S, N
  <2> QED BY <2>1, <2>4 DEF ClaimsPay
<1>2. HotplugTypes /\ SettingUp /\ ClaimsPay /\ [Next]_vars => ClaimsPay'
  BY PayStep
<1>3. DueInv => HotplugTypes /\ SettingUp
  BY DEF DueInv
<1> QED BY <1>1, <1>2, <1>3, DueAlways, PaidOnce, PTL DEF Spec
=============================================================================
