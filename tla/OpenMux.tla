------------------------------ MODULE OpenMux ------------------------------
(***************************************************************************)
(* Opening the mux interface of a caller's device (src/src/usb/apple.rs,   *)
(* open_mux_with_progress): the attempts to claim it from whoever holds    *)
(* it, without a device reset in the first half and with one in the        *)
(* second. The operating system and the other claimer are external.        *)
(***************************************************************************)
EXTENDS Naturals, Sequences, FiniteSets, SequencesExt

CONSTANTS
  Configs,      \* configuration values of the device, in descriptor order
  Attempts      \* the attempt budgets callers pick

ASSUME ConfigsAssumption == Configs \in Seq(Nat)
ASSUME AttemptsAssumption == Attempts \subseteq Nat

VARIABLES
  budget,       \* max_attempts
  platform,     \* "linux" or "macos"
  muxConfigs,   \* configurations with a mux interface
  config,       \* the active configuration
  holder,       \* of the mux interface: "nobody", "driver", "muxer" or "us"
  attempt,      \* attempts made so far: the loop variable
  at,           \* control state of the call
  candidates,   \* mux configurations in the order they are tried
  lastErr,      \* last_err
  tried         \* <<half, candidate>> whose turn came and failed (history)

openVars == <<budget, platform, muxConfigs, config, holder, attempt, at, candidates,
              lastErr, tried>>
device == <<budget, platform, muxConfigs>>

ConfigSet == {Configs[i] : i \in DOMAIN Configs}

(* The configurations of a set, in descriptor order. *)
InOrder(S) ==
  FlattenSeq([i \in DOMAIN Configs |-> IF Configs[i] \in S THEN <<Configs[i]>> ELSE <<>>])

(* The active configuration comes first. *)
Candidates(active) == InOrder(muxConfigs \cap {active}) \o InOrder(muxConfigs \ {active})

(* find_no_mux_config: the first, if there is one. *)
NoMux == InOrder(ConfigSet \ muxConfigs)

OpenInit ==
  /\ budget \in Attempts
  /\ platform \in {"linux", "macos"}
  /\ muxConfigs \in SUBSET ConfigSet
  /\ config \in ConfigSet
  /\ holder \in {"nobody", "driver", "muxer"}
  /\ attempt = 0 /\ at = "open" /\ candidates = <<>>
  /\ lastErr = "none" /\ tried = {}

Tries == IF budget = 0 THEN 1 ELSE budget          \* max_attempts.max(1)
ResetThreshold == (Tries + 1) \div 2               \* attempts.div_ceil(2)
UseReset == attempt >= ResetThreshold

(* Mutant: the same candidate every time. *)
TargetFirst == candidates[1]

Target == candidates[(attempt % Len(candidates)) + 1]
Half == IF UseReset THEN "second" ELSE "first"
-----------------------------------------------------------------------------
(* The other claimers: a kernel driver, or another usbmuxd, comes back     *)
(* when the interface is free.                                             *)
OtherClaims ==
  /\ at \notin {"opened", "failed"} /\ holder = "nobody" /\ config \in muxConfigs
  /\ holder' \in {"driver", "muxer"}
  /\ UNCHANGED <<device, config, attempt, at, candidates, lastErr, tried>>

(* The open fails, or no configuration has a mux interface. *)
OpenFailsAtOnce ==
  /\ at = "open"
  /\ lastErr' \in IF muxConfigs = {} THEN {"Open", "NoMuxInterface"} ELSE {"Open"}
  /\ at' = "failed"
  /\ UNCHANGED <<device, config, holder, attempt, candidates, tried>>

OpenDevice ==
  /\ at = "open" /\ muxConfigs # {}
  /\ candidates' = Candidates(config)
  /\ at' = "attempt"
  /\ UNCHANGED <<device, config, holder, attempt, lastErr, tried>>

(* The delay before each burst of attempts comes before this. *)
BeginAttempt ==
  /\ at = "attempt" /\ attempt < Tries
  /\ at' = IF UseReset THEN "reset" ELSE "target"
  /\ UNCHANGED <<device, config, holder, attempt, candidates, lastErr, tried>>

GiveUp ==
  /\ at = "attempt" /\ attempt = Tries
  /\ at' = "failed"
  /\ UNCHANGED <<device, config, holder, attempt, candidates, lastErr, tried>>

(* "continue" *)
NextAttempt ==
  /\ tried' = tried \cup {<<Half, Target>>}
  /\ attempt' = attempt + 1 /\ at' = "attempt"
  /\ UNCHANGED <<device, candidates>>

(* A reset evicts every claimer; on macOS a held device refuses it. *)
ResetDevice ==
  /\ at = "reset" /\ ~(platform = "macos" /\ holder = "muxer")
  /\ holder' = "nobody" /\ at' = "target"
  /\ UNCHANGED <<device, config, attempt, candidates, lastErr, tried>>

(* "skip the rest of the attempt" *)
ResetFails ==
  /\ at = "reset" /\ lastErr' = "Reset"
  /\ NextAttempt /\ UNCHANGED <<config, holder>>

(* SET_CONFIGURATION: on Linux it is refused while an interface is held;   *)
(* on macOS it takes the device from the other claimer.                    *)
MaySwitch == platform = "macos" \/ holder = "nobody"
Switched(c) == config' = c /\ holder' = "nobody"

(* No switch is needed when the active configuration has the interface. *)
SkipSwitch ==
  /\ at = "target" /\ config = Target
  /\ at' = "claim"
  /\ UNCHANGED <<device, config, holder, attempt, candidates, lastErr, tried>>

(* A retry that switches goes through a configuration without mux, if      *)
(* there is one; whether that worked is ignored.                           *)
Bounce ==
  /\ at = "target" /\ config # Target
  /\ attempt > 0 /\ NoMux # <<>>
  /\ \/ MaySwitch /\ Switched(Head(NoMux))
     \/ UNCHANGED <<config, holder>>
  /\ at' = "switch"
  /\ UNCHANGED <<device, attempt, candidates, lastErr, tried>>

Switching == \/ at = "switch"
             \/ at = "target" /\ config # Target /\ (attempt = 0 \/ NoMux = <<>>)

SwitchConfig ==
  /\ Switching /\ MaySwitch
  /\ Switched(Target) /\ at' = "claim"
  /\ UNCHANGED <<device, attempt, candidates, lastErr, tried>>

(* Mutant: the claim is tried nevertheless. *)
SwitchFailsGoesOn ==
  /\ Switching
  /\ lastErr' = "SetConfiguration" /\ at' = "claim"
  /\ UNCHANGED <<device, config, holder, attempt, candidates, tried>>

SwitchFails ==
  /\ Switching /\ lastErr' = "SetConfiguration"
  /\ NextAttempt /\ UNCHANGED <<config, holder>>

(* detach_and_claim_interface: Linux takes the interface from a driver. *)
ClaimInterface ==
  /\ at = "claim"
  /\ holder \in IF platform = "linux" THEN {"nobody", "driver"} ELSE {"nobody"}
  /\ holder' = "us" /\ at' = "endpoints"
  /\ UNCHANGED <<device, config, attempt, candidates, lastErr, tried>>

(* Mutant: the failed attempt is not counted. *)
ClaimFailsUncounted ==
  /\ at = "claim" /\ lastErr' = "ClaimInterface"
  /\ tried' = tried \cup {<<Half, Target>>}
  /\ at' = "attempt"
  /\ UNCHANGED <<device, config, holder, attempt, candidates>>

ClaimFails ==
  /\ at = "claim" /\ lastErr' = "ClaimInterface"
  /\ NextAttempt /\ UNCHANGED <<config, holder>>

(* An endpoint that cannot be claimed ends the call, and the interface is  *)
(* released.                                                               *)
EndpointFails ==
  /\ at = "endpoints"
  /\ at' = "failed" /\ lastErr' = "ClaimBulk" /\ holder' = "nobody"
  /\ UNCHANGED <<device, config, attempt, candidates, tried>>

Opened ==
  /\ at = "endpoints"
  /\ at' = "opened"
  /\ UNCHANGED <<device, config, holder, attempt, candidates, lastErr, tried>>

OpenStep ==
  \/ OpenFailsAtOnce \/ OpenDevice \/ BeginAttempt \/ GiveUp
  \/ ResetDevice \/ ResetFails
  \/ SkipSwitch \/ Bounce \/ SwitchConfig \/ SwitchFails
  \/ ClaimInterface \/ ClaimFails \/ EndpointFails \/ Opened

OpenSpec == OpenInit /\ [][OpenStep \/ OtherClaims]_openVars
-----------------------------------------------------------------------------
(* Properties.                                                             *)

(* The endpoints handed out are those of the active configuration, which   *)
(* another attempt's failed switch or bounce may have changed.             *)
ClaimsInActiveConfig ==
  at \in {"endpoints", "opened"} =>
    holder = "us" /\ config = Target /\ config \in muxConfigs

(* "split the attempts in half so we cover both platforms": each half      *)
(* comes round to every candidate, if its share of the budget allows.      *)
HalvesCoverCandidates ==
  at = "failed" /\ attempt = Tries =>
    \A i \in DOMAIN candidates :
      /\ ResetThreshold >= Len(candidates) => <<"first", candidates[i]>> \in tried
      /\ Tries - ResetThreshold >= Len(candidates) => <<"second", candidates[i]>> \in tried
=============================================================================
