---------------------------- MODULE BulkIo_proof ----------------------------
(* The interface that open_mux claims, and the frames and bytes that go    *)
(* through the halves of its pipe, for any budget, packet size and         *)
(* division of the frames into transfers.                                  *)
EXTENDS BulkIo, Sums_proof

LEMMA Assumed ==
  /\ Configs \in Seq(Nat) /\ Attempts \subseteq Nat
  /\ MaxPacket \in Nat \ {0} /\ MaxOut \in Nat \ {0} /\ Chunk \in Nat \ {0}
  /\ ReadSize \in Nat /\ InFlight \in Nat /\ MaxFrames \in Nat
  /\ Sizes \subseteq Nat \ {0} /\ Wants \subseteq Nat /\ MaxOut % MaxPacket = 0
<1> QED BY ConfigsAssumption, AttemptsAssumption, BulkAssumption, MaxOutAssumption
-----------------------------------------------------------------------------
(* The candidates.                                                         *)

LEMMA InOrderFacts ==
  ASSUME NEW S
  PROVE  InOrder(S) \in Seq(Nat) /\ Range(InOrder(S)) = ConfigSet \cap S
<1> DEFINE q == [i \in DOMAIN Configs |-> IF Configs[i] \in S THEN <<Configs[i]>> ELSE <<>>]
<1>1. DOMAIN Configs = 1..Len(Configs) /\ Len(Configs) \in Nat
      /\ \A i \in DOMAIN Configs : Configs[i] \in Nat
  BY Assumed
<1>2. ASSUME NEW i \in DOMAIN Configs PROVE q[i] \in Seq(Nat)
  <2>1. <<Configs[i]>> \in Seq(Nat) /\ <<>> \in Seq(Nat)
    BY <1>1
  <2> QED BY <2>1
<1>3. q \in Seq(Seq(Nat))
  <2> DEFINE E == Seq(Nat)
  <2>1. \A i \in DOMAIN Configs : q[i] \in E
    BY <1>2
  <2>2. DOMAIN q = DOMAIN Configs
    OBVIOUS
  <2>3. q = [i \in 1..Len(Configs) |-> q[i]]
    BY <1>1
  <2> HIDE DEF E, q
  <2>4. q \in Seq(E)
    BY <1>1, <2>1, <2>3
  <2> QED BY <2>4 DEF E
<1>4. \A i \in DOMAIN Configs : Range(q[i]) = {Configs[i]} \cap S
  <2> TAKE i \in DOMAIN Configs
  <2>1. DOMAIN <<Configs[i]>> = {1} /\ DOMAIN <<>> = {} /\ <<Configs[i]>>[1] = Configs[i]
    OBVIOUS
  <2>2. Range(<<Configs[i]>>) = {Configs[i]} /\ Range(<<>>) = {}
    BY <2>1 DEF Range
  <2> QED BY <2>2
<1>5. DOMAIN q = DOMAIN Configs /\ InOrder(S) = FlattenSeq(q)
  BY DEF InOrder
<1> HIDE DEF q
<1>6. Range(FlattenSeq(q)) = UNION {Range(q[j]) : j \in DOMAIN q} /\ FlattenSeq(q) \in Seq(Nat)
  BY <1>3, FlatElements, FlatInSeq
<1>7. UNION {Range(q[j]) : j \in DOMAIN q} = ConfigSet \cap S
  BY <1>4, <1>5 DEF ConfigSet
<1> QED BY <1>5, <1>6, <1>7

LEMMA CandidatesFacts ==
  ASSUME NEW a, muxConfigs \subseteq ConfigSet
  PROVE  /\ Candidates(a) \in Seq(Nat) /\ Range(Candidates(a)) = muxConfigs
<1> DEFINE p == InOrder(muxConfigs \cap {a})
           q == InOrder(muxConfigs \ {a})
<1>1. p \in Seq(Nat) /\ q \in Seq(Nat)
  BY InOrderFacts
<1>2. Range(p) = ConfigSet \cap (muxConfigs \cap {a}) /\ Range(q) = ConfigSet \cap (muxConfigs \ {a})
  BY InOrderFacts
<1>3. Candidates(a) = p \o q
  BY DEF Candidates
<1> HIDE DEF p, q
<1>4. p \o q \in Seq(Nat) /\ Range(p \o q) = Range(p) \cup Range(q)
  BY <1>1, ConcatProperties, RangeConcatenation
<1>5. Range(p) \cup Range(q) = muxConfigs
  BY <1>2
<1> QED BY <1>3, <1>4, <1>5

LEMMA RemainderIs ==
  ASSUME NEW n \in Nat \ {0}, NEW k \in Nat, NEW r \in 0..(n - 1)
  PROVE  (n * k + r) % n = r
<1> QED OBVIOUS

LEMMA MultiplesAside ==
  ASSUME NEW n \in Nat \ {0}, NEW a \in Nat, NEW b \in Nat, a % n = 0
  PROVE  (a + b) % n = b % n
<1> DEFINE i == a \div n
           j == b \div n
           k == i + j
           r == b % n
<1>1. i \in Nat /\ j \in Nat /\ a = n * i /\ b = n * j + r /\ r \in 0..(n - 1)
  OBVIOUS
<1> HIDE DEF i, j, r
<1>2. n * k = n * i + n * j /\ k \in Nat
  BY <1>1
<1>3. a + b = n * k + r
  BY <1>1, <1>2
<1> HIDE DEF k
<1>4. (n * k + r) % n = r
  BY <1>1, <1>2, RemainderIs
<1> QED BY <1>3, <1>4 DEF r

(* A range of n numbers has one for each remainder. *)
LEMMA EachRemainder ==
  ASSUME NEW n \in Nat \ {0}, NEW m \in Nat, NEW r \in 0..(n - 1)
  PROVE  \E a \in m..(m + n - 1) : a % n = r
<1> DEFINE b == m % n
<1>1. b \in 0..(n - 1) /\ m = n * (m \div n) + b /\ m \div n \in Nat
  OBVIOUS
<1>2. CASE r >= b
  <2>1. m + (r - b) = n * (m \div n) + r
    BY <1>1, <1>2
  <2> QED BY <1>1, <1>2, <2>1
<1>3. CASE r < b
  <2> DEFINE k == (m \div n) + 1
             a == n * k + r
  <2>1. k \in Nat /\ a = m + (r + n - b)
    BY <1>1, <1>3
  <2>2. a \in m..(m + n - 1)
    BY <1>1, <1>3, <2>1
  <2> HIDE DEF k
  <2>3. a % n = r
    BY <2>1, RemainderIs
  <2> QED BY <2>2, <2>3
<1> QED BY <1>1, <1>2, <1>3
-----------------------------------------------------------------------------
(* Opening: the control state, and what every attempt so far has tried.    *)

Trying == {"attempt", "reset", "target", "switch", "claim", "endpoints", "opened"}

HalfOf(a) == IF a >= ResetThreshold THEN "second" ELSE "first"
TargetOf(a) == candidates[(a % Len(candidates)) + 1]

OpenTypes ==
  /\ budget \in Nat /\ attempt \in Nat /\ candidates \in Seq(Nat)
  /\ muxConfigs \subseteq ConfigSet
  /\ at \in Trying \cup {"open", "failed", "over"}

Opening ==
  /\ at \in {"open", "over"} => attempt = 0
  /\ at = "over" => muxConfigs = {}
  /\ at \in Trying => candidates # <<>> /\ Range(candidates) = muxConfigs
  /\ at \in Trying => attempt <= Tries /\ (at # "attempt" => attempt < Tries)
  /\ at \in {"claim", "endpoints", "opened"} => config = Target
  /\ at \in {"endpoints", "opened"} => holder = "us"
  /\ candidates # <<>> => \A a \in 0..(attempt - 1) : <<HalfOf(a), TargetOf(a)>> \in tried

OpenInv == OpenTypes /\ Opening

LEMMA TargetFacts ==
  ASSUME OpenTypes, candidates # <<>>, Range(candidates) = muxConfigs
  PROVE  Target \in muxConfigs
<1> DEFINE i == (attempt % Len(candidates)) + 1
<1>1. Len(candidates) \in Nat \ {0} /\ DOMAIN candidates = 1..Len(candidates) /\ attempt \in Nat
  BY DEF OpenTypes
<1>2. i \in 1..Len(candidates)
  <2> DEFINE n == Len(candidates)
  <2>1. n \in Nat \ {0} /\ attempt \in Nat
    BY <1>1
  <2> HIDE DEF n
  <2>2. attempt % n \in 0..(n - 1)
    BY <2>1
  <2>3. (attempt % n) + 1 \in 1..n
    BY <2>1, <2>2
  <2> QED BY <2>3 DEF n
<1>3. Target = candidates[i]
  BY DEF Target
<1> HIDE DEF i
<1> QED BY <1>1, <1>2, <1>3 DEF Range

LEMMA OpenedInActive == OpenInv => ClaimsInActiveConfig
<1> SUFFICES ASSUME OpenInv, at \in {"endpoints", "opened"}
             PROVE  holder = "us" /\ config = Target /\ config \in muxConfigs
  BY DEF ClaimsInActiveConfig
<1>1. candidates # <<>> /\ Range(candidates) = muxConfigs /\ config = Target /\ holder = "us"
  BY DEF OpenInv, Opening, Trying
<1> QED BY <1>1, TargetFacts DEF OpenInv

LEMMA HalvesCovered == OpenInv => HalvesCoverCandidates
<1> SUFFICES ASSUME OpenInv, attempt = Tries, NEW i \in DOMAIN candidates
             PROVE  /\ ResetThreshold >= Len(candidates) => <<"first", candidates[i]>> \in tried
                    /\ Tries - ResetThreshold >= Len(candidates) =>
                         <<"second", candidates[i]>> \in tried
  BY DEF HalvesCoverCandidates
<1> DEFINE n == Len(candidates)
           half == ResetThreshold
           r == i - 1
<1>1. n \in Nat \ {0} /\ i \in 1..n /\ candidates # <<>>
  BY DEF OpenInv, OpenTypes
<1>2. Tries \in Nat /\ half \in Nat /\ half <= Tries
  <2>1. Tries \in Nat \ {0}
    BY DEF OpenInv, OpenTypes, Tries
  <2> QED BY <2>1 DEF ResetThreshold
<1>3. \A a \in 0..(Tries - 1) : <<HalfOf(a), TargetOf(a)>> \in tried
  BY <1>1 DEF OpenInv, Opening
<1>4. \A a \in Nat : a % n = r => TargetOf(a) = candidates[i]
  BY <1>1 DEF TargetOf
<1>5. r \in 0..(n - 1) /\ 0 \in Nat
  BY <1>1
<1>6. \A a : HalfOf(a) = IF a >= half THEN "second" ELSE "first"
  BY DEF HalfOf
<1> HIDE DEF n, half, r
<1>7. ASSUME half >= n PROVE <<"first", candidates[i]>> \in tried
  <2>1. PICK a \in 0..(0 + n - 1) : a % n = r
    BY <1>1, <1>5, EachRemainder
  <2>2. a \in 0..(Tries - 1) /\ a \in Nat /\ ~ (a >= half)
    BY <1>1, <1>2, <1>7
  <2> QED BY <1>3, <1>4, <1>6, <2>1, <2>2
<1>8. ASSUME Tries - half >= n PROVE <<"second", candidates[i]>> \in tried
  <2>1. PICK a \in half..(half + n - 1) : a % n = r
    BY <1>1, <1>2, <1>5, EachRemainder
  <2>2. a \in 0..(Tries - 1) /\ a \in Nat /\ a >= half
    BY <1>1, <1>2, <1>8
  <2> QED BY <1>3, <1>4, <1>6, <2>1, <2>2
<1> QED BY <1>7, <1>8 DEF n, half

(* What a failed attempt leaves: it has been counted and its turn noted. *)
LEMMA AttemptNoted ==
  ASSUME OpenInv, NextAttempt, at \in Trying, attempt < Tries
  PROVE  OpenInv'
<1> USE DEF OpenInv
<1>1. /\ attempt' = attempt + 1 /\ at' = "attempt" /\ UNCHANGED <<device, candidates>>
      /\ tried' = tried \cup {<<HalfOf(attempt), TargetOf(attempt)>>}
  BY DEF NextAttempt, Half, UseReset, HalfOf, Target, TargetOf
<1>2. Tries \in Nat /\ attempt \in Nat /\ UNCHANGED Tries /\ attempt + 1 <= Tries
  BY <1>1 DEF OpenTypes, Tries, device
<1>3. \A a : HalfOf(a)' = HalfOf(a) /\ TargetOf(a)' = TargetOf(a)
  BY <1>1 DEF HalfOf, TargetOf, ResetThreshold, Tries, device
<1>4. OpenTypes'
  BY <1>1, <1>2 DEF OpenTypes, device, Trying
<1>5. candidates' # <<>> =>
        \A a \in 0..(attempt' - 1) : <<HalfOf(a)', TargetOf(a)'>> \in tried'
  <2> SUFFICES ASSUME candidates # <<>>, NEW a \in 0..attempt
               PROVE  <<HalfOf(a), TargetOf(a)>> \in tried'
    BY <1>1, <1>2, <1>3
  <2>1. a \in 0..(attempt - 1) \/ a = attempt
    BY <1>2
  <2> QED BY <1>1, <2>1 DEF Opening
<1>6. candidates' # <<>> /\ Range(candidates') = muxConfigs'
  BY <1>1 DEF Opening, device
<1> QED BY <1>1, <1>2, <1>4, <1>5, <1>6 DEF Opening, Tries, device

(* A step within an attempt. *)
LEMMA AttemptGoesOn ==
  ASSUME OpenInv, UNCHANGED <<device, attempt, candidates, tried>>,
         at' \in Trying \cup {"open", "failed"}, at' = "open" => at = "open",
         at' \in Trying => at \in Trying /\ attempt <= Tries /\ (at' # "attempt" => attempt < Tries),
         at' \in {"claim", "endpoints", "opened"} => config' = Target,
         at' \in {"endpoints", "opened"} => holder' = "us"
  PROVE  OpenInv'
<1> USE DEF OpenInv
<1>1. UNCHANGED <<Tries, Target>> /\ \A a : HalfOf(a)' = HalfOf(a) /\ TargetOf(a)' = TargetOf(a)
  BY DEF HalfOf, TargetOf, ResetThreshold, Tries, Target, device
<1>2. OpenTypes'
  BY DEF OpenTypes, device, Trying
<1>3. candidates' # <<>> => \A a \in 0..(attempt' - 1) : <<HalfOf(a)', TargetOf(a)'>> \in tried'
  BY <1>1 DEF Opening
<1> QED BY <1>1, <1>2, <1>3 DEF Opening, device, Trying

LEMMA OpenKeeps ==
  ASSUME OpenInv, OpenStep \/ OtherClaims
  PROVE  OpenInv'
<1> USE DEF OpenInv
<1>0. Tries \in Nat \ {0} /\ attempt \in Nat
  BY DEF OpenTypes, Tries
<1>1. CASE OtherClaims
  <2>1. at # "over" /\ at # "opened" /\ at # "failed" /\ at # "endpoints"
    BY <1>1 DEF OtherClaims, Opening
  <2>2. UNCHANGED <<device, config, attempt, at, candidates, tried, Target>>
    BY <1>1 DEF OtherClaims, Target
  <2> QED BY <1>0, <2>1, <2>2, AttemptGoesOn DEF Opening, OpenTypes, Trying
<1>2. CASE OpenFailsAtOnce
  BY <1>2, AttemptGoesOn DEF OpenFailsAtOnce, Trying
<1>3. CASE OpenDevice
  <2>1. /\ at = "open" /\ muxConfigs # {} /\ candidates' = Candidates(config) /\ at' = "attempt"
        /\ UNCHANGED <<budget, muxConfigs, config, holder, attempt, tried>>
    BY <1>3 DEF OpenDevice, device
  <2>2. candidates' \in Seq(Nat) /\ Range(candidates') = muxConfigs
    BY <2>1, CandidatesFacts DEF OpenTypes
  <2>3. candidates' # <<>>
    <3>1. Range(<<>>) = {}
      BY DEF Range
    <3> QED BY <2>1, <2>2, <3>1
  <2>4. attempt = 0 /\ UNCHANGED Tries
    BY <2>1 DEF Opening, Tries
  <2>5. OpenTypes'
    BY <2>1, <2>2 DEF OpenTypes, Trying
  <2> QED BY <1>0, <2>1, <2>2, <2>3, <2>4, <2>5 DEF Opening
<1>4. CASE BeginAttempt \/ GiveUp
  BY <1>0, <1>4, AttemptGoesOn DEF BeginAttempt, GiveUp, Opening, Trying
<1>5. CASE ResetDevice \/ SkipSwitch
  BY <1>0, <1>5, AttemptGoesOn DEF ResetDevice, SkipSwitch, Opening, Trying
<1>6. CASE Bounce
  BY <1>0, <1>6, AttemptGoesOn DEF Bounce, Opening, Trying
<1>7. CASE SwitchConfig
  BY <1>0, <1>7, AttemptGoesOn DEF SwitchConfig, Switching, Switched, Opening, Trying
<1>8. CASE ResetFails \/ SwitchFails \/ ClaimFails
  BY <1>8, AttemptNoted DEF ResetFails, SwitchFails, ClaimFails, Switching, Opening, Trying
<1>9. CASE ClaimInterface
  BY <1>0, <1>9, AttemptGoesOn DEF ClaimInterface, Opening, Trying
<1>10. CASE EndpointFails \/ Opened
  BY <1>0, <1>10, AttemptGoesOn DEF EndpointFails, Opened, Opening, Trying
<1> QED BY <1>1, <1>2, <1>3, <1>4, <1>5, <1>6, <1>7, <1>8, <1>9, <1>10 DEF OpenStep

LEMMA OpenUntouched ==
  ASSUME OpenInv, UNCHANGED openVars
  PROVE  OpenInv'
<1> USE DEF OpenInv
<1>1. OpenTypes'
  BY DEF OpenTypes, openVars
<1>2. UNCHANGED <<Tries, Target>> /\ \A a : HalfOf(a)' = HalfOf(a) /\ TargetOf(a)' = TargetOf(a)
  BY DEF HalfOf, TargetOf, ResetThreshold, Tries, Target, openVars
<1> QED BY <1>1, <1>2 DEF Opening, openVars

(* The call is over: nothing of it is left. *)
LEMMA OverInv ==
  ASSUME budget = 0, muxConfigs = {}, attempt = 0, candidates = <<>>, tried = {}, at = "over"
  PROVE  OpenInv
<1>1. <<>> \in Seq(Nat)
  OBVIOUS
<1> QED BY <1>1 DEF OpenInv, OpenTypes, Opening, Trying

LEMMA HandOverKeeps ==
  ASSUME OpenInv, HandOver
  PROVE  OpenInv'
<1>1. <<>> \in Seq(Nat)
  OBVIOUS
<1> QED BY <1>1 DEF HandOver, OpenInv, OpenTypes, Opening, Trying

LEMMA OpenInvInit == IoInit => OpenInv
<1>1. ASSUME OpenInit PROVE OpenInv
  <2>1. <<>> \in Seq(Nat)
    OBVIOUS
  <2>2. budget \in Nat
    BY <1>1, Assumed DEF OpenInit
  <2> QED BY <1>1, <2>1, <2>2 DEF OpenInit, OpenInv, OpenTypes, Opening, Trying
<1>2. ASSUME HandedOver PROVE OpenInv
  BY <1>2, OverInv DEF HandedOver
<1> QED BY <1>1, <1>2 DEF IoInit

LEMMA OpenInvHolds == IoSpec => []OpenInv
<1>1. OpenInv /\ [IoNext]_ioVars => OpenInv'
  <2> SUFFICES ASSUME OpenInv, IoNext \/ UNCHANGED ioVars PROVE OpenInv'
    OBVIOUS
  <2>1. CASE UNCHANGED openVars
    BY <2>1, OpenUntouched
  <2>2. CASE OpenStep \/ OtherClaims
    BY <2>2, OpenKeeps
  <2>3. CASE HandOver
    BY <2>3, HandOverKeeps
  <2> QED BY <2>1, <2>2, <2>3 DEF IoNext, ioVars
<1> QED BY <1>1, OpenInvInit, PTL DEF IoSpec

(* The endpoints that open_mux hands out are those of the configuration    *)
(* that is active, and it has the interface that was claimed.              *)
THEOREM OpenedInActiveConfig == IoSpec => []ClaimsInActiveConfig
<1> QED BY OpenInvHolds, OpenedInActive, PTL

(* An open_mux that gives up has tried every candidate in each half of the *)
(* budget that has as many attempts as there are candidates.               *)
THEOREM BothHalvesCover == IoSpec => []HalvesCoverCandidates
<1> QED BY OpenInvHolds, HalvesCovered, PTL
-----------------------------------------------------------------------------
(* The writer half: how far the frame of n bytes has come.                 *)

WriterType ==
  [pc : {"idle", "write", "flush", "failed", "dropped"}, left : Nat,
   job : {"none", "queued", "running", "zlp", "ok", "error"}, len : Nat, since : Nat,
   zlp : BOOLEAN]

WriterTypes ==
  /\ writer \in WriterType
  /\ toWrite \in Seq(Nat) /\ heard \in Seq(Nat) /\ partial \in Nat

Behind(n) == toWrite = Append(heard, n)
Whole == heard = toWrite /\ partial = 0

(* A worker thread has the whole frame. *)
WorkerHas(n) ==
  /\ writer.pc = "write" /\ writer.left = n
  /\ writer.job # "ok" => Behind(n)
  /\ writer.job \in {"none", "queued", "running"} => partial = 0
  /\ writer.job \in {"queued", "running"} => writer.len = n
  /\ writer.job = "zlp" => partial = n
  /\ writer.job = "ok" => Whole

(* An endpoint has been given "since" bytes of the frame. *)
EndpointHas(n) ==
  /\ writer.job \in {"none", "running", "ok", "error"}
  /\ writer.since + writer.left = n
  /\ writer.job \in {"none", "running", "error"} => Behind(n)
  /\ writer.job = "running" /\ ~writer.zlp => writer.len > 0 /\ partial + writer.len = writer.since
  /\ partial % MaxPacket = 0
  /\ writer.pc = "write" =>
       /\ writer.left > 0 /\ writer.since % MaxPacket = 0 /\ Behind(n)
       /\ writer.job = "none" => writer.since = 0 /\ partial = 0
       /\ writer.job = "running" => ~writer.zlp /\ writer.len % MaxPacket = 0
       /\ writer.job = "ok" => partial = writer.since
  /\ writer.pc = "flush" =>
       /\ writer.left = 0 /\ writer.job # "none"
       /\ writer.job = "running" /\ writer.zlp => partial = n /\ writer.len = 0
       /\ writer.job = "ok" =>
            IF writer.zlp \/ n % MaxPacket # 0 THEN Whole ELSE Behind(n) /\ partial = n

Writing(n) ==
  /\ n \in Nat \ {0}
  /\ Blocking => WorkerHas(n)
  /\ ~Blocking => EndpointHas(n)

WriterInv ==
  /\ WriterTypes
  /\ writer.pc = "idle" => Whole /\ writer.job = "none" /\ (~Blocking => writer.since = 0)
  /\ writer.pc \in {"write", "flush"} => \E n : Writing(n)
  /\ writer.pc \in {"failed", "dropped"} => writer.job = "none" /\ IsPrefix(heard, toWrite)

LEMMA WholeIsPrefix ==
  ASSUME heard \in Seq(Nat), toWrite \in Seq(Nat),
         heard = toWrite \/ \E n \in Nat : Behind(n)
  PROVE  IsPrefix(heard, toWrite)
<1>1. CASE heard = toWrite
  BY <1>1 DEF IsPrefix
<1>2. ASSUME NEW n \in Nat, Behind(n) PROVE IsPrefix(heard, toWrite)
  <2>1. toWrite = Append(heard, n) /\ Len(toWrite) = Len(heard) + 1 /\ Len(heard) \in Nat
    BY <1>2 DEF Behind
  <2>2. SubSeq(heard, 1, Len(heard)) = SubSeq(toWrite, 1, Len(heard))
    <3> DEFINE p == SubSeq(heard, 1, Len(heard))
               q == SubSeq(toWrite, 1, Len(heard))
    <3>1. p \in Seq(Nat) /\ q \in Seq(Nat) /\ Len(p) = Len(heard) /\ Len(q) = Len(heard)
      BY <2>1
    <3>2. \A i \in 1..Len(p) : p[i] = q[i]
      BY <2>1
    <3> HIDE DEF p, q
    <3>3. p = q
      BY <3>1, <3>2, SeqEqual
    <3> QED BY <3>3 DEF p, q
  <2> QED BY <2>1, <2>2 DEF IsPrefix
<1> QED BY <1>1, <1>2

LEMMA FramesDelimitedIfWriter == WriterInv => FramesDelimited
<1> SUFFICES ASSUME WriterInv PROVE FramesDelimited
  OBVIOUS
<1>1. heard \in Seq(Nat) /\ toWrite \in Seq(Nat) /\ writer \in WriterType
  BY DEF WriterInv, WriterTypes
<1>2. CASE writer.pc \in {"write", "flush"}
  <2>1. PICK n : Writing(n)
    BY <1>2 DEF WriterInv
  <2>2. heard = toWrite \/ Behind(n)
    BY <1>1, <1>2, <2>1 DEF Writing, WorkerHas, EndpointHas, Whole, WriterType
  <2>3. IsPrefix(heard, toWrite)
    BY <1>1, <2>1, <2>2, WholeIsPrefix DEF Writing
  <2> QED BY <1>2, <2>3 DEF FramesDelimited
<1>3. CASE writer.pc = "idle"
  <2>1. Whole
    BY <1>3 DEF WriterInv
  <2>2. IsPrefix(heard, toWrite)
    BY <1>1, <2>1, WholeIsPrefix DEF Whole
  <2> QED BY <2>1, <2>2 DEF FramesDelimited, Whole
<1>4. CASE writer.pc \in {"failed", "dropped"}
  BY <1>4 DEF WriterInv, FramesDelimited
<1> QED BY <1>1, <1>2, <1>3, <1>4 DEF WriterType

LEMMA NextFrameKeeps ==
  ASSUME WriterInv, NEW n \in Sizes, NextFrame(n)
  PROVE  WriterInv'
<1>1. /\ writer.pc = "idle" /\ writer.job = "none" /\ toWrite' = Append(toWrite, n)
      /\ heard' = heard /\ partial' = partial /\ heard = toWrite /\ partial = 0
      /\ UNCHANGED backend /\ (~Blocking => writer.since = 0) /\ n \in Nat \ {0}
  BY Assumed DEF WriterInv, NextFrame, Whole
<1>2. /\ writer' \in WriterType /\ writer'.pc = "write" /\ writer'.left = n
      /\ writer'.job = "none" /\ writer'.since = writer.since
  BY <1>1 DEF WriterInv, WriterTypes, NextFrame, WriterType
<1>3. Writing(n)'
  BY <1>1, <1>2, Assumed DEF Writing, WorkerHas, EndpointHas, Behind, Whole, Blocking
<1>4. WriterTypes'
  BY <1>1, <1>2 DEF WriterInv, WriterTypes
<1> QED BY <1>2, <1>3, <1>4 DEF WriterInv

LEMMA SubmitKeeps ==
  ASSUME WriterInv, Submit
  PROVE  WriterInv'
<1> DEFINE m == Smaller(writer.left, MaxOut)
<1>1. PICK n : Writing(n)
  BY DEF WriterInv, Submit
<1>2. /\ ~Blocking /\ writer.pc = "write" /\ writer.job \in {"none", "ok"} /\ writer \in WriterType
      /\ UNCHANGED <<backend, toWrite, heard, partial>>
  BY DEF Submit, Drained, WriterInv, WriterTypes
<1>3. /\ writer.left \in Nat /\ writer.left > 0 /\ writer.since \in Nat /\ n \in Nat \ {0}
      /\ writer.since + writer.left = n /\ Behind(n) /\ writer.since % MaxPacket = 0
      /\ partial = writer.since /\ partial % MaxPacket = 0
  BY <1>1, <1>2 DEF Writing, EndpointHas, WriterType
<1>4. /\ m \in Nat /\ m > 0 /\ m <= writer.left
      /\ m # writer.left => m = MaxOut
  BY <1>3, Assumed DEF Smaller
<1>5. /\ writer' = [writer EXCEPT !.job = "running", !.len = m, !.left = @ - m,
                       !.pc = IF m = writer.left THEN "flush" ELSE "write",
                       !.since = @ + m, !.zlp = FALSE]
  BY DEF Submit
<1> HIDE DEF m
<1>6. /\ writer'.pc = IF m = writer.left THEN "flush" ELSE "write"
      /\ writer'.job = "running" /\ writer'.len = m /\ writer'.left = writer.left - m
      /\ writer'.since = writer.since + m /\ writer'.zlp = FALSE
  BY <1>2, <1>5 DEF WriterType
<1>7. writer' \in WriterType
  <2>1. writer.left - m \in Nat /\ writer.since + m \in Nat
    BY <1>3, <1>4
  <2> DEFINE l == writer.left - m
             t == writer.since + m
             c == IF m = writer.left THEN "flush" ELSE "write"
  <2>2. l \in Nat /\ t \in Nat /\ c \in {"flush", "write"} /\ m \in Nat
    BY <2>1, <1>4
  <2>3. writer' = [writer EXCEPT !.job = "running", !.len = m, !.left = l, !.pc = c, !.since = t,
                     !.zlp = FALSE]
    BY <1>2, <1>5 DEF WriterType
  <2> HIDE DEF l, t, c
  <2> QED BY <1>2, <2>2, <2>3 DEF WriterType
<1>8. m # writer.left => m % MaxPacket = 0 /\ (writer.since + m) % MaxPacket = 0
  <2> DEFINE t == writer.since
  <2>1. t \in Nat /\ t % MaxPacket = 0
    BY <1>3
  <2> HIDE DEF t
  <2>2. (t + m) % MaxPacket = m % MaxPacket
    BY <1>4, <2>1, MultiplesAside, Assumed
  <2> QED BY <1>4, <2>2, Assumed DEF t
<1>9. EndpointHas(n)'
  BY <1>2, <1>3, <1>4, <1>6, <1>8 DEF EndpointHas, Behind
<1>10. Writing(n)'
  BY <1>2, <1>3, <1>9 DEF Writing, Blocking
<1>11. WriterTypes'
  BY <1>2, <1>7 DEF WriterInv, WriterTypes
<1> QED BY <1>6, <1>10, <1>11 DEF WriterInv

LEMMA FlushKeeps ==
  ASSUME WriterInv, Flush
  PROVE  WriterInv'
<1>1. PICK n : Writing(n)
  BY DEF WriterInv, Flush
<1>2. /\ ~Blocking /\ writer.pc = "flush" /\ writer.job \in {"none", "ok"} /\ writer \in WriterType
      /\ UNCHANGED <<backend, toWrite, heard, partial>>
  BY DEF Flush, Drained, WriterInv, WriterTypes
<1>3. /\ n \in Nat \ {0} /\ writer.since = n /\ writer.left = 0 /\ partial % MaxPacket = 0
      /\ IF writer.zlp \/ n % MaxPacket # 0 THEN Whole ELSE Behind(n) /\ partial = n
  BY <1>1, <1>2 DEF Writing, EndpointHas, WriterType
<1>4. CASE NeedsZlp
  <2>1. /\ writer' \in WriterType /\ writer'.pc = "flush" /\ writer'.job = "running"
        /\ writer'.len = 0 /\ writer'.zlp = TRUE /\ writer'.since = n /\ writer'.left = 0
    BY <1>2, <1>3, <1>4 DEF Flush, WriterType
  <2>2. Behind(n) /\ partial = n
    BY <1>3, <1>4 DEF NeedsZlp
  <2>3. Writing(n)'
    BY <1>2, <1>3, <2>1, <2>2 DEF Writing, EndpointHas, Behind, Blocking
  <2> QED BY <1>2, <2>1, <2>3 DEF WriterInv, WriterTypes
<1>5. CASE ~NeedsZlp
  <2>0. writer' = [writer EXCEPT !.job = "none", !.since = 0, !.pc = "idle"]
    BY <1>5, Zenon DEF Flush
  <2>1. /\ writer' \in WriterType /\ writer'.pc = "idle" /\ writer'.job = "none"
        /\ writer'.since = 0
    BY <1>2, <2>0 DEF WriterType
  <2>2. Whole
    <3>1. writer.zlp \/ n % MaxPacket # 0
      BY <1>2, <1>3, <1>5 DEF NeedsZlp, WriterType
    <3> QED BY <1>3, <3>1
  <2> QED BY <1>2, <2>1, <2>2 DEF WriterInv, WriterTypes, Whole
<1> QED BY <1>4, <1>5

(* A step of a worker thread, or of the task that waits for it. *)
LEMMA WorkerKeeps ==
  ASSUME WriterInv, SpawnWrite \/ WorkerStartsWrite \/ Written \/ WriteErrors
  PROVE  WriterInv'
<1>1. /\ writer.pc \in {"write", "flush"} /\ writer \in WriterType
      /\ UNCHANGED <<backend, toWrite, heard, partial>>
  BY DEF SpawnWrite, WorkerStartsWrite, Written, WriteErrors, WriterInv, WriterTypes, WriterType
<1>2. PICK n : Writing(n)
  BY <1>1 DEF WriterInv
<1>3. CASE SpawnWrite
  <2>1. /\ writer' \in WriterType /\ writer'.pc = "write" /\ writer'.job = "queued"
        /\ writer'.len = writer.left /\ writer'.left = writer.left
        /\ Blocking /\ writer.pc = "write" /\ writer.job = "none"
    BY <1>1, <1>3 DEF SpawnWrite, WriterType
  <2>2. Writing(n)'
    BY <1>1, <1>2, <2>1 DEF Writing, WorkerHas, Behind, Whole, Blocking
  <2> QED BY <1>1, <2>1, <2>2 DEF WriterInv, WriterTypes
<1>4. CASE WorkerStartsWrite
  <2>1. /\ writer' \in WriterType /\ writer'.pc = writer.pc /\ writer'.job = "running"
        /\ writer'.len = writer.len /\ writer'.left = writer.left /\ writer.job = "queued"
    BY <1>1, <1>4 DEF WorkerStartsWrite, WriterType
  <2>2. Writing(n)'
    BY <1>1, <1>2, <2>1 DEF Writing, WorkerHas, EndpointHas, Behind, Whole, Blocking
  <2> QED BY <1>1, <2>1, <2>2 DEF WriterInv, WriterTypes
<1>5. CASE Written
  <2>1. /\ writer' \in WriterType /\ writer'.pc = "idle" /\ writer'.job = "none"
        /\ writer.job = "ok" /\ Blocking
    BY <1>1, <1>5 DEF Written, WriterType
  <2>2. Whole
    BY <1>2, <2>1 DEF Writing, WorkerHas
  <2> QED BY <1>1, <2>1, <2>2 DEF WriterInv, WriterTypes, Whole, Blocking
<1>6. CASE WriteErrors
  <2>1. /\ writer' \in WriterType /\ writer'.pc = writer.pc /\ writer'.job = "error"
        /\ writer'.len = writer.len /\ writer'.left = writer.left /\ writer'.since = writer.since
        /\ writer'.zlp = writer.zlp /\ writer.job \in {"running", "zlp"}
    BY <1>1, <1>6 DEF WriteErrors, WriterType
  <2>2. Writing(n)'
    BY <1>1, <1>2, <2>1 DEF Writing, WorkerHas, EndpointHas, Behind, Whole, Blocking
  <2> QED BY <1>1, <2>1, <2>2 DEF WriterInv, WriterTypes
<1> QED BY <1>3, <1>4, <1>5, <1>6

LEMMA WriterEnds ==
  ASSUME WriterInv, WriteFailed \/ DropWriter
  PROVE  WriterInv'
<1>1. /\ writer \in WriterType /\ UNCHANGED <<backend, toWrite, heard, partial>>
  BY DEF WriteFailed, DropWriter, WriterInv, WriterTypes
<1>2. IsPrefix(heard, toWrite)
  BY FramesDelimitedIfWriter DEF FramesDelimited
<1>3. /\ writer' \in WriterType /\ writer'.pc \in {"failed", "dropped"} /\ writer'.job = "none"
  BY <1>1 DEF WriteFailed, DropWriter, WriterInv, WriterType
<1> QED BY <1>1, <1>2, <1>3 DEF WriterInv, WriterTypes

LEMMA WriteCompletesKeeps ==
  ASSUME WriterInv, WriteCompletes
  PROVE  WriterInv'
<1>1. /\ writer.pc \in {"write", "flush"} /\ writer \in WriterType
      /\ UNCHANGED <<backend, toWrite>> /\ writer.job \in {"running", "zlp"}
      /\ heard \in Seq(Nat) /\ toWrite \in Seq(Nat) /\ partial \in Nat
  BY DEF WriteCompletes, WriterInv, WriterTypes, WriterType
<1>2. PICK n : Writing(n)
  BY <1>1 DEF WriterInv
<1> DEFINE m == IF writer.job = "zlp" THEN 0 ELSE writer.len
           next == IF Blocking /\ writer.job = "running" /\ writer.len % MaxPacket = 0
                   THEN "zlp" ELSE "ok"
<1>3. /\ writer' \in WriterType /\ writer'.pc = writer.pc /\ writer'.job = next
      /\ writer'.len = writer.len /\ writer'.left = writer.left /\ writer'.since = writer.since
      /\ writer'.zlp = writer.zlp
  BY <1>1 DEF WriteCompletes, WriterType
<1>4. m \in Nat /\ Hear(m)
  BY <1>1 DEF WriteCompletes, WriterType
<1>5. IF m % MaxPacket = 0 /\ m > 0 THEN partial' = partial + m /\ heard' = heard
      ELSE heard' = Append(heard, partial + m) /\ partial' = 0
  BY <1>4 DEF Hear
<1>6. heard' \in Seq(Nat) /\ partial' \in Nat
  <2> HIDE DEF m
  <2> DEFINE k == partial + m
  <2>1. k \in Nat
    BY <1>1, <1>4
  <2>2. \/ partial' = k /\ heard' = heard
        \/ heard' = Append(heard, k) /\ partial' = 0
    BY <1>5
  <2> HIDE DEF k
  <2>3. Append(heard, k) \in Seq(Nat)
    BY <1>1, <2>1
  <2>4. heard \in Seq(Nat) /\ 0 \in Nat
    BY <1>1
  <2> QED BY <2>1, <2>2, <2>3, <2>4, Zenon
<1>7. n \in Nat \ {0} /\ Behind(n)
  BY <1>1, <1>2 DEF Writing, WorkerHas, EndpointHas
<1>8. Writing(n)'
  <2>1. CASE Blocking
    <3>1. writer.pc = "write" /\ writer.left = n /\ writer.job = "running" => writer.len = n /\ partial = 0
      BY <1>2, <2>1 DEF Writing, WorkerHas
    <3>2. writer.job = "zlp" => partial = n
      BY <1>2, <2>1 DEF Writing, WorkerHas
    <3>3. WorkerHas(n)'
      <4>1. CASE writer.job = "running" /\ n % MaxPacket = 0
        <5>1. m = n /\ next = "zlp" /\ partial' = n /\ heard' = heard
          BY <1>2, <1>5, <1>7, <2>1, <3>1, <4>1 DEF Writing, WorkerHas
        <5> QED BY <1>1, <1>2, <1>3, <1>7, <2>1, <5>1 DEF Writing, WorkerHas, Behind, Whole
      <4>2. CASE writer.job = "running" /\ n % MaxPacket # 0
        <5>1. m = n /\ next = "ok" /\ partial' = 0 /\ heard' = Append(heard, n)
          BY <1>2, <1>5, <1>7, <2>1, <3>1, <4>2 DEF Writing, WorkerHas
        <5> QED BY <1>1, <1>2, <1>3, <1>7, <2>1, <5>1 DEF Writing, WorkerHas, Behind, Whole
      <4>3. CASE writer.job = "zlp"
        <5>1. m = 0 /\ next = "ok" /\ partial' = 0 /\ heard' = Append(heard, n)
          BY <1>1, <1>5, <1>7, <3>2, <4>3
        <5> QED BY <1>1, <1>2, <1>3, <1>7, <2>1, <5>1 DEF Writing, WorkerHas, Behind, Whole
      <4> QED BY <1>1, <4>1, <4>2, <4>3
    <3> QED BY <1>1, <1>7, <2>1, <3>3 DEF Writing, Blocking
  <2>2. CASE ~Blocking
    <3>1. /\ writer.job = "running" /\ m = writer.len /\ next = "ok" /\ EndpointHas(n)
      BY <1>1, <1>2, <2>2 DEF Writing, EndpointHas
    <3>2. EndpointHas(n)'
      <4>1. CASE writer.pc = "write"
        <5>1. m > 0 /\ m % MaxPacket = 0 /\ partial + m = writer.since /\ writer.since % MaxPacket = 0
          BY <3>1, <4>1 DEF EndpointHas
        <5>2. partial' = writer.since /\ heard' = heard
          BY <1>5, <5>1
        <5> QED BY <1>1, <1>3, <3>1, <4>1, <5>1, <5>2 DEF EndpointHas, Behind
      <4>2. CASE writer.pc = "flush" /\ writer.zlp
        <5>1. m = 0 /\ partial = n /\ writer.since = n /\ writer.left = 0
          BY <1>1, <3>1, <4>2 DEF EndpointHas, WriterType
        <5>2. partial' = 0 /\ heard' = Append(heard, n)
          BY <1>5, <1>7, <5>1
        <5>3. 0 % MaxPacket = 0
          BY Assumed
        <5> QED BY <1>1, <1>3, <1>7, <3>1, <4>2, <5>1, <5>2, <5>3 DEF EndpointHas, Behind, Whole
      <4>3. CASE writer.pc = "flush" /\ ~writer.zlp
        <5>1. /\ m > 0 /\ partial + m = n /\ partial % MaxPacket = 0 /\ writer.since = n
              /\ writer.left = 0
          BY <1>1, <3>1, <4>3 DEF EndpointHas, WriterType
        <5>2. m % MaxPacket = n % MaxPacket
          <6> DEFINE k == m
          <6>1. k \in Nat /\ partial \in Nat /\ partial % MaxPacket = 0 /\ partial + k = n
            BY <1>1, <1>4, <5>1
          <6> HIDE DEF k
          <6>2. (partial + k) % MaxPacket = k % MaxPacket
            BY <6>1, MultiplesAside, Assumed
          <6> QED BY <6>1, <6>2 DEF k
        <5>3. CASE n % MaxPacket = 0
          <6>1. partial' = n /\ heard' = heard
            BY <1>5, <5>1, <5>2, <5>3
          <6> QED BY <1>1, <1>3, <1>7, <3>1, <4>3, <5>1, <5>3, <6>1 DEF EndpointHas, Behind
        <5>4. CASE n % MaxPacket # 0
          <6>1. partial' = 0 /\ heard' = Append(heard, n)
            BY <1>5, <5>1, <5>2, <5>4
          <6>2. 0 % MaxPacket = 0
            BY Assumed
          <6> QED BY <1>1, <1>3, <1>7, <3>1, <4>3, <5>1, <5>4, <6>1, <6>2 DEF EndpointHas, Behind, Whole
        <5> QED BY <5>3, <5>4
      <4> QED BY <1>1, <4>1, <4>2, <4>3 DEF WriterType
    <3> QED BY <1>1, <1>7, <2>2, <3>2 DEF Writing, Blocking
  <2> QED BY <2>1, <2>2
<1> QED BY <1>1, <1>3, <1>6, <1>8 DEF WriterInv, WriterTypes

LEMMA WriterUntouched ==
  ASSUME WriterInv, UNCHANGED <<backend, outVars>>
  PROVE  WriterInv'
<1>1. UNCHANGED <<backend, toWrite, writer, heard, partial>>
  BY DEF outVars
<1>2. \A n : Writing(n) => Writing(n)'
  BY <1>1 DEF Writing, WorkerHas, EndpointHas, Behind, Whole, Blocking
<1>3. Blocking' = Blocking /\ Whole' = Whole
  BY <1>1 DEF Blocking, Whole
<1> QED BY <1>1, <1>2, <1>3 DEF WriterInv, WriterTypes

LEMMA WriterInvInit == IoInit => WriterInv
<1> SUFFICES ASSUME IoInit PROVE WriterInv
  OBVIOUS
<1>1. <<>> \in Seq(Nat)
  OBVIOUS
<1> QED BY <1>1 DEF IoInit, BulkInit, WriterInv, WriterTypes, WriterType, Whole

LEMMA WriterInvHolds == IoSpec => []WriterInv
<1>1. WriterInv /\ [IoNext]_ioVars => WriterInv'
  <2> SUFFICES ASSUME WriterInv, IoNext \/ UNCHANGED ioVars PROVE WriterInv'
    OBVIOUS
  <2>1. CASE OutStep
    BY <2>1, NextFrameKeeps, SubmitKeeps, FlushKeeps, WorkerKeeps, WriterEnds, WriteCompletesKeeps
       DEF OutStep
  <2>2. CASE InStep
    <3>1. UNCHANGED <<backend, outVars>>
      BY <2>2 DEF InStep, DeviceSends, SpawnRead, ReadCompletion, ReadDrain, Deliver, SubmitReads,
                  WorkerStartsRead, Fetch, ReadErrors, ReadFailed, DropReader, WorkerEnds
    <3> QED BY <3>1, WriterUntouched
  <2>3. CASE DeviceGone \/ HandOver \/ UNCHANGED bulkVars
    <3>1. UNCHANGED <<backend, outVars>>
      BY <2>3 DEF DeviceGone, HandOver, bulkVars, outVars
    <3> QED BY <3>1, WriterUntouched
  <2> QED BY <2>1, <2>2, <2>3 DEF IoNext, ioVars
<1> QED BY <1>1, WriterInvInit, PTL DEF IoSpec

(* The device takes for one transfer what the mux wrote as one frame.      *)
THEOREM FramesStayApart == IoSpec => []FramesDelimited
<1> QED BY WriterInvHolds, FramesDelimitedIfWriter, PTL
-----------------------------------------------------------------------------
(* The reader half: where the bytes are that the device has sent.          *)

Bytes == Nat \X Nat
Transfers == Seq(Bytes)

ReaderType ==
  [pc : {"reading", "dropped"},
   job : {"none", "queued", "running", "aborted", "ok", "error"}, cap : Nat,
   drain : Transfers, sawEnd : BOOLEAN, late : BOOLEAN]

ReaderTypes ==
  /\ reader \in ReaderType
  /\ got \in Transfers /\ sent \in Transfers
  /\ wire \in Seq(Transfers) /\ fetched \in Seq(Transfers)

OnTheWay == got \o reader.drain \o FlattenSeq(fetched) \o FlattenSeq(wire)

ReaderInv ==
  /\ ReaderTypes
  /\ ~reader.sawEnd
  /\ IsPrefix(got, sent)
  /\ reader.pc = "reading" => OnTheWay = sent

LEMMA FramesSentIsNumber == ASSUME sent \in Transfers PROVE FramesSent \in Nat
<1> DEFINE n == Len(sent)
           F == {byte[1] : byte \in Range(sent)}
           f == [i \in 1..n |-> sent[i][1]]
<1>1. n \in Nat /\ DOMAIN sent = 1..n
  BY DEF Transfers
<1>2. F = {sent[i][1] : i \in 1..n}
  BY <1>1 DEF Range
<1>3. f \in Surjection(1..n, F)
  BY <1>2 DEF Surjection
<1>4. IsFiniteSet(1..n)
  BY <1>1, FS_Interval
<1> HIDE DEF f, n, F
<1>5. IsFiniteSet(F)
  BY <1>3, <1>4, FS_Surjection
<1> QED BY <1>5, FS_CardinalityType DEF FramesSent, F

(* Sequences of bytes, put together and cut in two.                        *)
LEMMA Joins ==
  ASSUME NEW a \in Transfers, NEW b \in Transfers
  PROVE  a \o b \in Transfers
<1> QED BY ConcatProperties DEF Transfers

LEMMA JoinsAssociate ==
  ASSUME NEW a \in Transfers, NEW b \in Transfers, NEW c \in Transfers
  PROVE  (a \o b) \o c = a \o (b \o c)
<1> QED BY ConcatAssociative DEF Transfers

LEMMA JoinsNothing ==
  ASSUME NEW a \in Transfers
  PROVE  a \o <<>> = a /\ <<>> \o a = a /\ <<>> \in Transfers
<1> QED BY EmptySeq, ConcatEmptySeq DEF Transfers

LEMMA Cut ==
  ASSUME NEW a \in Transfers, NEW n \in Nat, n <= Len(a)
  PROVE  /\ SubSeq(a, 1, n) \in Transfers /\ SubSeq(a, n + 1, Len(a)) \in Transfers
         /\ SubSeq(a, 1, n) \o SubSeq(a, n + 1, Len(a)) = a
         /\ Len(SubSeq(a, 1, n)) = n
<1>1. a \in Seq(Bytes) /\ Len(a) \in Nat
  BY DEF Transfers
<1>2. \A i \in 1..Len(a) : a[i] \in Bytes
  BY <1>1
<1>3. SubSeq(a, 1, n) \in Seq(Bytes) /\ SubSeq(a, n + 1, Len(a)) \in Seq(Bytes)
      /\ Len(SubSeq(a, 1, n)) = n
  BY <1>1, <1>2
<1>4. SubSeq(a, 1, n) \o SubSeq(a, n + 1, Len(a)) = SubSeq(a, 1, Len(a))
  <2> DEFINE m == Len(a)
  <2>1. m \in Nat /\ 1 \in 1..(Len(a) + 1) /\ n \in (1 - 1)..Len(a) /\ m \in n..Len(a)
    BY <1>1
  <2> HIDE DEF m
  <2>2. SubSeq(a, 1, n) \o SubSeq(a, n + 1, m) = SubSeq(a, 1, m)
    BY <1>1, <2>1, ConcatAdjacentSubSeq
  <2> QED BY <2>2 DEF m
<1>5. SubSeq(a, 1, Len(a)) = a
  BY <1>1, SubSeqFull
<1> QED BY <1>3, <1>4, <1>5 DEF Transfers

LEMMA PrefixOfJoin ==
  ASSUME NEW a \in Transfers, NEW b \in Transfers
  PROVE  IsPrefix(a, a \o b)
<1> DEFINE c == a \o b
           n == Len(a)
<1>1. a \in Seq(Bytes) /\ b \in Seq(Bytes) /\ n \in Nat /\ c \in Seq(Bytes)
      /\ Len(c) = n + Len(b) /\ Len(b) \in Nat /\ \A i \in 1..n : c[i] = a[i]
  BY DEF Transfers
<1> DEFINE p == SubSeq(a, 1, n)
           q == SubSeq(c, 1, n)
<1> HIDE DEF c
<1>2. p \in Seq(Bytes) /\ q \in Seq(Bytes) /\ Len(p) = n /\ Len(q) = n
      /\ \A i \in 1..n : p[i] = a[i] /\ q[i] = c[i]
  BY <1>1
<1>3. p = q
  <2> HIDE DEF p, q
  <2>1. Len(p) = Len(q) /\ \A i \in 1..Len(p) : p[i] = q[i]
    BY <1>1, <1>2
  <2> QED BY <1>2, <2>1, SeqEqual
<1> QED BY <1>1, <1>3 DEF IsPrefix, c

LEMMA PrefixOfMore ==
  ASSUME NEW a \in Transfers, NEW b \in Transfers, NEW c \in Transfers, IsPrefix(a, b)
  PROVE  IsPrefix(a, b \o c)
<1> DEFINE n == Len(a)
           r == SubSeq(b, n + 1, Len(b))
<1>1. n \in Nat /\ n <= Len(b) /\ SubSeq(a, 1, n) = SubSeq(b, 1, n) /\ a \in Seq(Bytes)
  BY DEF IsPrefix, Transfers
<1>2. SubSeq(a, 1, n) = a
  BY <1>1, SubSeqFull
<1> HIDE DEF n
<1>3. r \in Transfers /\ b = a \o r
  BY <1>1, <1>2, Cut
<1> HIDE DEF r
<1>4. b \o c = a \o (r \o c) /\ r \o c \in Transfers
  <2>1. (a \o r) \o c = a \o (r \o c)
    BY <1>3, JoinsAssociate, SMTT(60)
  <2>2. r \o c \in Transfers
    BY <1>3, Joins
  <2> QED BY <1>3, <2>1, <2>2
<1> QED BY <1>4, PrefixOfJoin

LEMMA StreamIfReader == ReaderInv => StreamIntact
<1> QED BY DEF ReaderInv, StreamIntact, OnTheWay

(* The four places, as sequences of bytes. *)
LEMMA Places ==
  ASSUME ReaderTypes
  PROVE  /\ got \in Transfers /\ reader.drain \in Transfers /\ sent \in Transfers
         /\ FlattenSeq(fetched) \in Transfers /\ FlattenSeq(wire) \in Transfers
<1>1. wire \in Seq(Seq(Bytes)) /\ fetched \in Seq(Seq(Bytes))
  BY DEF ReaderTypes, Transfers
<1>2. FlattenSeq(fetched) \in Seq(Bytes) /\ FlattenSeq(wire) \in Seq(Bytes)
  BY <1>1, FlatInSeq
<1> QED BY <1>2 DEF ReaderTypes, ReaderType, Transfers

LEMMA FirstTransfer ==
  ASSUME NEW q \in Seq(Transfers), q # <<>>
  PROVE  /\ Head(q) \in Transfers /\ Tail(q) \in Seq(Transfers)
         /\ FlattenSeq(Tail(q)) \in Transfers
         /\ FlattenSeq(q) = Head(q) \o FlattenSeq(Tail(q))
<1>1. Head(q) \in Transfers /\ Tail(q) \in Seq(Transfers)
  OBVIOUS
<1>2. q \in Seq(Seq(Bytes)) /\ Tail(q) \in Seq(Seq(Bytes))
  BY <1>1 DEF Transfers
<1>3. FlattenSeq(q) = Head(q) \o FlattenSeq(Tail(q)) /\ FlattenSeq(Tail(q)) \in Seq(Bytes)
  BY <1>2, FlatOfFirst, FlatInSeq
<1> QED BY <1>1, <1>3 DEF Transfers

LEMMA NextTransfer ==
  ASSUME NEW q \in Seq(Transfers), NEW t \in Transfers
  PROVE  /\ Append(q, t) \in Seq(Transfers) /\ FlattenSeq(Append(q, t)) = FlattenSeq(q) \o t
         /\ <<t>> \o q \in Seq(Transfers) /\ FlattenSeq(<<t>> \o q) = t \o FlattenSeq(q)
<1>1. /\ Append(q, t) \in Seq(Transfers) /\ <<t>> \o q \in Seq(Transfers) /\ <<t>> \o q # <<>>
      /\ Head(<<t>> \o q) = t /\ Tail(<<t>> \o q) = q
  OBVIOUS
<1>2. q \in Seq(Seq(Bytes)) /\ t \in Seq(Bytes)
  BY DEF Transfers
<1>3. FlattenSeq(Append(q, t)) = FlattenSeq(q) \o t
  BY <1>2, FlatOfMore
<1> DEFINE r == <<t>> \o q
<1>4. r \in Seq(Transfers) /\ r # <<>> /\ Head(r) = t /\ Tail(r) = q
  BY <1>1
<1> HIDE DEF r
<1>5. FlattenSeq(r) = t \o FlattenSeq(q)
  BY <1>4, FirstTransfer
<1> QED BY <1>1, <1>3, <1>5 DEF r

LEMMA DeviceSendsKeeps ==
  ASSUME ReaderInv, NEW n \in Sizes, DeviceSends(n)
  PROVE  ReaderInv'
<1> DEFINE frame == [k \in 1..n |-> <<FramesSent + 1, k>>]
           f == FlattenSeq(fetched)
           w == FlattenSeq(wire)
           d == reader.drain
           x == (got \o d) \o f
<1>1. ReaderTypes /\ UNCHANGED <<reader, fetched, got>> /\ sent' = sent \o frame
      /\ wire' = Append(wire, frame) /\ n \in Nat
  BY Assumed DEF ReaderInv, DeviceSends
<1>2. frame \in Transfers
  <2> DEFINE m == FramesSent + 1
  <2>1. m \in Nat
    BY <1>1, FramesSentIsNumber DEF ReaderTypes
  <2> HIDE DEF m
  <2>2. \A k \in 1..n : <<m, k>> \in Bytes
    BY <1>1, <2>1 DEF Bytes
  <2>3. [k \in 1..n |-> <<m, k>>] \in Seq(Bytes)
    BY <1>1, <2>2
  <2> QED BY <2>3 DEF m, Transfers
<1> HIDE DEF frame
<1>3. got \in Transfers /\ d \in Transfers /\ f \in Transfers /\ w \in Transfers /\ sent \in Transfers
  BY <1>1, Places
<1>4. wire' \in Seq(Transfers) /\ FlattenSeq(wire') = w \o frame
  BY <1>1, <1>2, NextTransfer DEF ReaderTypes
<1>5. OnTheWay = x \o w /\ OnTheWay' = x \o (w \o frame)
  BY <1>1, <1>4 DEF OnTheWay
<1> HIDE DEF d, f, w
<1>6. x \in Transfers
  BY <1>3, Joins
<1> HIDE DEF x
<1>7. OnTheWay' = OnTheWay \o frame /\ sent' \in Transfers
  <2>1. (x \o w) \o frame = x \o (w \o frame)
    BY <1>2, <1>3, <1>6, JoinsAssociate, SMTT(60)
  <2>2. sent \o frame \in Transfers
    BY <1>2, <1>3, Joins
  <2> QED BY <1>1, <1>5, <2>1, <2>2
<1>8. IsPrefix(got, sent')
  BY <1>1, <1>2, <1>3, PrefixOfMore DEF ReaderInv
<1>9. ReaderTypes'
  BY <1>1, <1>4, <1>7 DEF ReaderTypes
<1> QED BY <1>1, <1>7, <1>8, <1>9 DEF ReaderInv

LEMMA FetchKeeps ==
  ASSUME ReaderInv, Fetch
  PROVE  ReaderInv'
<1> DEFINE head == Head(wire)
           n == Smaller(Len(head), Room)
           a == SubSeq(head, 1, n)
           b == SubSeq(head, n + 1, Len(head))
           f == FlattenSeq(fetched)
           t == FlattenSeq(Tail(wire))
           y == got \o reader.drain
<1>1. ReaderTypes /\ wire # <<>> /\ wire \in Seq(Transfers) /\ fetched \in Seq(Transfers)
  BY DEF ReaderInv, ReaderTypes, Fetch
<1>2. /\ head \in Transfers /\ Tail(wire) \in Seq(Transfers) /\ t \in Transfers
      /\ FlattenSeq(wire) = head \o t
  BY <1>1, FirstTransfer
<1>3. /\ UNCHANGED <<sent, got>> /\ fetched' = Append(fetched, a)
      /\ wire' = IF n = Room THEN <<b>> \o Tail(wire) ELSE Tail(wire)
  BY DEF Fetch
<1>4. /\ reader' \in ReaderType /\ reader'.pc = reader.pc /\ reader'.drain = reader.drain
      /\ reader'.sawEnd = reader.sawEnd
  BY <1>1 DEF Fetch, ReaderTypes, ReaderType
<1>5. Room \in Nat
  <2>1. TransferSize \in Nat
    <3> DEFINE packets == (ReadSize + MaxPacket - 1) \div MaxPacket
    <3>1. packets \in Nat
      BY Assumed
    <3>2. TransferSize = IF packets = 0 THEN MaxPacket ELSE packets * MaxPacket
      BY DEF TransferSize
    <3> HIDE DEF packets
    <3> QED BY <3>1, <3>2, Assumed
  <2> QED BY <1>1, <2>1 DEF Room, ReaderTypes, ReaderType
<1>6. n \in Nat /\ n <= Len(head) /\ (n # Room => n = Len(head))
  <2>1. Len(head) \in Nat
    BY <1>2 DEF Transfers
  <2> QED BY <1>5, <2>1 DEF Smaller
<1>7. got \in Transfers /\ reader.drain \in Transfers /\ f \in Transfers
  BY <1>1, Places
<1>8. a \in Transfers /\ b \in Transfers /\ a \o b = head /\ (n # Room => a = head)
  <2> HIDE DEF n
  <2>1. a \in Transfers /\ b \in Transfers /\ a \o b = head
    <3> HIDE DEF head
    <3> QED BY <1>2, <1>6, Cut
  <2>2. SubSeq(head, 1, Len(head)) = head
    BY <1>2, SubSeqFull DEF Transfers
  <2> QED BY <1>6, <2>1, <2>2
<1>9. FlattenSeq(fetched') = f \o a /\ fetched' \in Seq(Transfers)
  <2> HIDE DEF a
  <2> QED BY <1>1, <1>3, <1>8, NextTransfer
<1>10. wire' \in Seq(Transfers) /\ (f \o a) \o FlattenSeq(wire') = f \o (head \o t)
  <2> HIDE DEF n, f
  <2>1. CASE n = Room
    <3> HIDE DEF a, b
    <3>1. wire' \in Seq(Transfers) /\ FlattenSeq(wire') = b \o t
      BY <1>2, <1>3, <1>8, <2>1, NextTransfer
    <3> HIDE DEF t, head
    <3>2. (f \o a) \o (b \o t) = f \o (a \o (b \o t)) /\ a \o (b \o t) = (a \o b) \o t
      <4>1. b \o t \in Transfers
        BY <1>2, <1>8, Joins
      <4> DEFINE r == b \o t
      <4>2. a \o (b \o t) = (a \o b) \o t
        BY <1>2, <1>8, JoinsAssociate
      <4>3. r \in Transfers
        BY <4>1
      <4> HIDE DEF r
      <4>4. (f \o a) \o r = f \o (a \o r)
        BY <1>7, <1>8, <4>3, JoinsAssociate, SMTT(60)
      <4> QED BY <4>2, <4>4 DEF r
    <3> QED BY <1>8, <3>1, <3>2
  <2>2. CASE n # Room
    <3>1. wire' = Tail(wire) /\ a = head
      BY <1>3, <1>8, <2>2
    <3>2. FlattenSeq(wire') = t
      BY <3>1
    <3> HIDE DEF t, head, a
    <3>3. (f \o head) \o t = f \o (head \o t)
      BY <1>2, <1>7, JoinsAssociate, Zenon
    <3> QED BY <1>2, <3>1, <3>2, <3>3
  <2> QED BY <2>1, <2>2
<1>11. OnTheWay = (y \o f) \o (head \o t) /\ OnTheWay' = (y \o (f \o a)) \o FlattenSeq(wire')
  BY <1>2, <1>3, <1>4, <1>9 DEF OnTheWay
<1>12. FlattenSeq(wire') \in Transfers
  <2>1. wire' \in Seq(Seq(Bytes))
    BY <1>10 DEF Transfers
  <2>2. FlattenSeq(wire') \in Seq(Bytes)
    BY <2>1, FlatInSeq
  <2> QED BY <2>2 DEF Transfers
<1>13. OnTheWay' = OnTheWay
  <2> DEFINE w == FlattenSeq(wire')
             h == head \o t
             g == f \o a
  <2>1. y \in Transfers /\ w \in Transfers /\ h \in Transfers /\ g \in Transfers /\ g \o w = f \o h
    <3> HIDE DEF f, a, head, t
    <3> QED BY <1>2, <1>7, <1>8, <1>10, <1>12, Joins
  <2>2. OnTheWay = (y \o f) \o h /\ OnTheWay' = (y \o g) \o w
    BY <1>11
  <2> HIDE DEF w, h, g, y, f
  <2>3. (y \o f) \o h = y \o (f \o h) /\ (y \o g) \o w = y \o (g \o w)
    <3>0. y \in Transfers /\ f \in Transfers /\ h \in Transfers
      BY <1>7, <2>1
    <3>1. (y \o f) \o h = y \o (f \o h)
      BY <3>0, JoinsAssociate, SMTT(60)
    <3>2. (y \o g) \o w = y \o (g \o w)
      BY <2>1, JoinsAssociate
    <3> QED BY <3>1, <3>2
  <2> QED BY <2>1, <2>2, <2>3
<1>14. ReaderTypes'
  BY <1>1, <1>3, <1>4, <1>9, <1>10 DEF ReaderTypes
<1> QED BY <1>3, <1>4, <1>13, <1>14 DEF ReaderInv

(* The caller is handed the first of some bytes, the rest is kept. *)
LEMMA DeliverKeeps ==
  ASSUME ReaderInv, NEW bytes \in Transfers, bytes # <<>>, NEW want \in Wants, NEW rest, NEW more,
         Deliver(bytes, want, rest, more), rest \in Seq(Transfers), reader.pc = "reading",
         reader.drain \o FlattenSeq(fetched) = bytes \o FlattenSeq(rest)
  PROVE  ReaderInv'
<1> DEFINE n == Smaller(Len(bytes), want)
           a == SubSeq(bytes, 1, n)
           b == SubSeq(bytes, n + 1, Len(bytes))
           d == reader.drain
           f == FlattenSeq(fetched)
           w == FlattenSeq(wire)
           r == FlattenSeq(rest)
<1>1. ReaderTypes /\ reader \in ReaderType /\ reader.pc = "reading" /\ ~reader.sawEnd
  BY DEF ReaderInv, ReaderTypes
<1>2. /\ got' = got \o a /\ fetched' = rest /\ UNCHANGED <<sent, wire>>
      /\ reader' = [reader EXCEPT !.drain = b, !.sawEnd = @ \/ (n = 0 /\ want > 0),
                      !.job = IF Blocking /\ more THEN "none" ELSE @]
  BY DEF Deliver
<1>3. /\ Len(bytes) \in Nat /\ Len(bytes) > 0 /\ want \in Nat /\ n \in Nat /\ n <= Len(bytes)
      /\ ~ (n = 0 /\ want > 0)
  <2>1. Len(bytes) \in Nat /\ Len(bytes) > 0 /\ want \in Nat
    BY Assumed DEF Transfers
  <2> QED BY <2>1 DEF Smaller
<1> HIDE DEF n
<1>4. a \in Transfers /\ b \in Transfers /\ a \o b = bytes
  BY <1>3, Cut
<1> HIDE DEF a, b
<1>5. reader' \in ReaderType /\ reader'.drain = b /\ ~reader'.sawEnd
  BY <1>1, <1>2, <1>3, <1>4 DEF ReaderType
<1>6. got \in Transfers /\ d \in Transfers /\ f \in Transfers /\ w \in Transfers /\ sent \in Transfers
  BY <1>1, Places
<1>7. r \in Transfers
  <2>1. rest \in Seq(Seq(Bytes))
    BY DEF Transfers
  <2>2. FlattenSeq(rest) \in Seq(Bytes)
    BY <2>1, FlatInSeq
  <2> QED BY <2>2 DEF Transfers
<1>8. OnTheWay = ((got \o d) \o f) \o w /\ OnTheWay' = (((got \o a) \o b) \o r) \o w
  BY <1>2, <1>5 DEF OnTheWay
<1>9. d \o f = bytes \o r
  OBVIOUS
<1> HIDE DEF d, f, w, r
<1>10. (got \o d) \o f = got \o (d \o f)
  BY <1>6, JoinsAssociate, SMTT(60)
<1>11. (got \o a) \o b = got \o (a \o b)
  <2>1. got \in Transfers /\ a \in Transfers /\ b \in Transfers
    BY <1>4, <1>6
  <2> QED BY <2>1, JoinsAssociate, SMTT(60)
<1>12. (got \o bytes) \o r = got \o (bytes \o r)
  BY <1>6, <1>7, JoinsAssociate, SMTT(60)
<1>13. OnTheWay' = OnTheWay
  BY <1>4, <1>8, <1>9, <1>10, <1>11, <1>12
<1>14. got' \in Transfers
  <2>1. got \o a \in Transfers
    BY <1>4, <1>6, Joins
  <2> QED BY <1>2, <2>1
<1>15. IsPrefix(got', sent)
  <2> DEFINE g == got \o a
             u == b \o r
             v == u \o w
  <2>1. g \in Transfers /\ b \o r \in Transfers
    BY <1>4, <1>6, <1>7, Joins
  <2>2. u \in Transfers
    BY <2>1
  <2>3. u \o w \in Transfers
    <3> HIDE DEF u
    <3> QED BY <1>6, <2>2, Joins
  <2>4. ((g \o b) \o r) \o w = g \o ((b \o r) \o w)
    <3> HIDE DEF g
    <3>0. g \in Transfers /\ b \in Transfers /\ r \in Transfers
      BY <1>4, <1>7, <2>1
    <3>1. (g \o b) \o r = g \o (b \o r)
      BY <3>0, JoinsAssociate, Zenon
    <3> HIDE DEF u
    <3>2. g \in Transfers /\ u \in Transfers /\ w \in Transfers
      BY <1>6, <2>1, <2>2
    <3>3. (g \o u) \o w = g \o (u \o w)
      BY <3>2, JoinsAssociate, SMTT(60)
    <3> QED BY <3>1, <3>3 DEF u
  <2>5. sent = g \o v /\ got' = g
    BY <1>1, <1>2, <1>8, <1>13, <2>4 DEF ReaderInv
  <2>6. v \in Transfers
    BY <2>3
  <2> HIDE DEF g, v
  <2> QED BY <2>1, <2>5, <2>6, PrefixOfJoin
<1>16. ReaderTypes'
  BY <1>1, <1>2, <1>5, <1>14 DEF ReaderTypes
<1> QED BY <1>1, <1>2, <1>5, <1>13, <1>15, <1>16 DEF ReaderInv

LEMMA ReadKeeps ==
  ASSUME ReaderInv, NEW want \in Wants, ReadCompletion(want) \/ ReadDrain(want)
  PROVE  ReaderInv'
<1>1. /\ ReaderTypes /\ reader \in ReaderType /\ reader.drain \in Transfers
      /\ fetched \in Seq(Transfers) /\ reader.pc = "reading"
      /\ FlattenSeq(fetched) \in Transfers
  BY Places DEF ReaderInv, ReaderTypes, ReaderType, ReadCompletion, ReadDrain
<1>2. CASE ReadDrain(want)
  <2>1. Deliver(reader.drain, want, fetched, FALSE) /\ reader.drain # <<>>
    BY <1>2 DEF ReadDrain
  <2> DEFINE bytes == reader.drain
  <2>2. bytes \in Transfers /\ bytes # <<>> /\ Deliver(bytes, want, fetched, FALSE)
        /\ reader.drain \o FlattenSeq(fetched) = bytes \o FlattenSeq(fetched)
    BY <1>1, <2>1
  <2> HIDE DEF bytes
  <2> QED BY <1>1, <2>2, DeliverKeeps
<1>3. CASE ReadCompletion(want)
  <2> DEFINE bytes == Head(fetched)
             rest == Tail(fetched)
  <2>1. fetched # <<>> /\ reader.drain = <<>>
    BY <1>3 DEF ReadCompletion
  <2>2. /\ bytes \in Transfers /\ rest \in Seq(Transfers) /\ FlattenSeq(rest) \in Transfers
        /\ FlattenSeq(fetched) = bytes \o FlattenSeq(rest)
    BY <1>1, <2>1, FirstTransfer
  <2>3. reader.drain \o FlattenSeq(fetched) = bytes \o FlattenSeq(rest)
    <3> DEFINE f == FlattenSeq(fetched)
    <3>1. f \in Transfers /\ f = bytes \o FlattenSeq(rest)
      BY <1>1, <2>2
    <3> HIDE DEF f
    <3>2. <<>> \o f = f
      BY <3>1, JoinsNothing
    <3> QED BY <2>1, <3>1, <3>2 DEF f
  <2>4. CASE bytes # <<>>
    <3>1. Deliver(bytes, want, rest, TRUE)
      BY <1>3, <2>4 DEF ReadCompletion
    <3> HIDE DEF bytes, rest
    <3> QED BY <1>1, <2>2, <2>3, <2>4, <3>1, DeliverKeeps
  <2>5. CASE bytes = <<>>
    <3>1. /\ fetched' = rest /\ UNCHANGED <<sent, wire, got>>
          /\ reader' = IF Blocking THEN [reader EXCEPT !.job = "none"] ELSE reader
      BY <1>3, <2>5 DEF ReadCompletion
    <3>2. reader' \in ReaderType /\ reader'.pc = reader.pc /\ reader'.drain = reader.drain
          /\ reader'.sawEnd = reader.sawEnd
      BY <1>1, <3>1 DEF ReaderType
    <3>3. FlattenSeq(rest) = FlattenSeq(fetched)
      <4> DEFINE r == FlattenSeq(rest)
      <4>1. r \in Transfers /\ FlattenSeq(fetched) = <<>> \o r
        BY <2>2, <2>5
      <4> HIDE DEF r
      <4>2. <<>> \o r = r
        BY <4>1, JoinsNothing
      <4> QED BY <4>1, <4>2 DEF r
    <3>4. OnTheWay' = OnTheWay
      BY <3>1, <3>2, <3>3 DEF OnTheWay
    <3>5. ReaderTypes'
      BY <1>1, <2>2, <3>1, <3>2 DEF ReaderTypes
    <3> QED BY <3>1, <3>2, <3>4, <3>5 DEF ReaderInv
  <2> QED BY <2>4, <2>5
<1> QED BY <1>2, <1>3

(* Steps that move no byte. *)
LEMMA ReaderWaits ==
  ASSUME ReaderInv, NEW want,
         \/ SubmitReads \/ (want \in Wants /\ SpawnRead(want)) \/ WorkerStartsRead \/ ReadErrors \/ ReadFailed
         \/ DropReader \/ WorkerEnds
  PROVE  ReaderInv'
<1>1. UNCHANGED <<sent, wire, fetched, got>> /\ ReaderTypes /\ reader \in ReaderType
  BY DEF SubmitReads, SpawnRead, WorkerStartsRead, ReadErrors, ReadFailed, DropReader, WorkerEnds,
         ReaderInv, ReaderTypes
<1>2. /\ reader' \in ReaderType /\ reader'.drain = reader.drain /\ reader'.sawEnd = reader.sawEnd
      /\ reader'.pc = "reading" => reader.pc = "reading"
  <2>1. CASE want \in Wants /\ SpawnRead(want)
    <3> DEFINE cap == IF backend = "apple" THEN Smaller(IF want = 0 THEN 1 ELSE want, Chunk) ELSE Chunk
    <3>1. cap \in Nat
      BY <2>1, Assumed DEF Smaller
    <3>2. reader' = [reader EXCEPT !.job = "queued", !.cap = cap]
      BY <2>1 DEF SpawnRead
    <3> HIDE DEF cap
    <3> QED BY <1>1, <3>1, <3>2 DEF ReaderType
  <2>2. CASE SubmitReads \/ WorkerStartsRead \/ ReadErrors \/ ReadFailed \/ WorkerEnds
    BY <1>1, <2>2 DEF SubmitReads, WorkerStartsRead, ReadErrors, ReadFailed, WorkerEnds, ReaderType
  <2>3. CASE DropReader
    <3> DEFINE late == reader.job = "queued"
               job == IF ~Blocking \/ reader.job \in {"ok", "error"} THEN "none"
                      ELSE IF reader.job = "running" THEN "aborted" ELSE reader.job
    <3>1. late \in BOOLEAN /\ job \in {"none", "queued", "running", "aborted", "ok", "error"}
      BY <1>1 DEF ReaderType
    <3>2. reader' = [reader EXCEPT !.pc = "dropped", !.late = late, !.job = job]
      BY <1>1, <2>3 DEF DropReader, ReaderType
    <3> HIDE DEF late, job
    <3> QED BY <1>1, <3>1, <3>2 DEF ReaderType
  <2> QED BY <2>1, <2>2, <2>3
<1>3. OnTheWay' = OnTheWay
  BY <1>1, <1>2 DEF OnTheWay
<1> QED BY <1>1, <1>2, <1>3 DEF ReaderInv, ReaderTypes

LEMMA ReaderUntouched ==
  ASSUME ReaderInv, UNCHANGED inVars
  PROVE  ReaderInv'
<1> QED BY DEF inVars, ReaderInv, ReaderTypes, OnTheWay

LEMMA ReaderInvInit == IoInit => ReaderInv
<1> SUFFICES ASSUME IoInit PROVE ReaderInv
  OBVIOUS
<1>1. <<>> \in Transfers /\ <<>> \in Seq(Transfers) /\ <<>> \o <<>> = <<>>
  BY EmptySeq, ConcatEmptySeq DEF Transfers
<1>2. /\ sent = <<>> /\ wire = <<>> /\ fetched = <<>> /\ got = <<>>
      /\ reader \in ReaderType /\ reader.drain = <<>> /\ ~reader.sawEnd
  BY <1>1 DEF IoInit, BulkInit, ReaderType
<1>3. OnTheWay = <<>>
  BY <1>1, <1>2, FlatOfNone DEF OnTheWay
<1>4. IsPrefix(<<>>, <<>>)
  BY DEF IsPrefix
<1> QED BY <1>1, <1>2, <1>3, <1>4 DEF ReaderInv, ReaderTypes

LEMMA ReaderInvHolds == IoSpec => []ReaderInv
<1>1. ReaderInv /\ [IoNext]_ioVars => ReaderInv'
  <2> SUFFICES ASSUME ReaderInv, IoNext \/ UNCHANGED ioVars PROVE ReaderInv'
    OBVIOUS
  <2>1. CASE InStep
    <3>1. ASSUME NEW n \in Sizes, DeviceSends(n) PROVE ReaderInv'
      BY <3>1, DeviceSendsKeeps
    <3>2. ASSUME NEW want \in Wants, SpawnRead(want) \/ ReadCompletion(want) \/ ReadDrain(want)
          PROVE  ReaderInv'
      BY <3>2, ReadKeeps, ReaderWaits
    <3>3. CASE Fetch
      BY <3>3, FetchKeeps
    <3>4. CASE SubmitReads \/ WorkerStartsRead \/ ReadErrors \/ ReadFailed \/ DropReader \/ WorkerEnds
      BY <3>4, ReaderWaits
    <3> QED BY <2>1, <3>1, <3>2, <3>3, <3>4 DEF InStep
  <2>2. CASE OutStep
    <3>1. UNCHANGED inVars
      BY <2>2 DEF OutStep, NextFrame, Submit, Flush, SpawnWrite, WorkerStartsWrite, WriteCompletes,
                  WriteErrors, Written, WriteFailed, DropWriter
    <3> QED BY <3>1, ReaderUntouched
  <2>3. CASE DeviceGone \/ HandOver \/ UNCHANGED bulkVars
    <3>1. UNCHANGED inVars
      BY <2>3 DEF DeviceGone, HandOver, bulkVars, inVars
    <3> QED BY <3>1, ReaderUntouched
  <2> QED BY <2>1, <2>2, <2>3 DEF IoNext, ioVars
<1> QED BY <1>1, ReaderInvInit, PTL DEF IoSpec

(* The caller of a reader gets the bytes that the device sent, in order    *)
(* and without a gap, and never the end of the stream.                     *)
THEOREM StreamStaysIntact == IoSpec => []StreamIntact
<1> QED BY ReaderInvHolds, StreamIfReader, PTL
=============================================================================
