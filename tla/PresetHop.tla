----------------------------- MODULE PresetHop ------------------------------
(***************************************************************************)
(* Changing the modem preset under traffic (src/src/meshtastic_preset.c):   *)
(* frames are composed under one preset's channel hash, queued, checked     *)
(* against the preset generation and keyed with whatever mt.modem and       *)
(* mt.frequency then say, while a scheduled hop (with a drain) or an        *)
(* operator's config write (without) changes the three, one at a time.      *)
(*                                                                          *)
(* A preset stands for what it determines: mt.modem, the channel hashes and *)
(* the frequency are each "the preset they were derived from".  Of the      *)
(* queue (Outbound) only the order of steps of one frame is kept.           *)
(***************************************************************************)
EXTENDS Naturals, FiniteSets

CONSTANTS
    Presets,
    Frames,
    Switchers,      \* the threads that change the preset
    Hops,           \* those of them that do it through meshtastic_preset_hop
    NoPlan,         \* presets without a frequency plan in this region
    MaxGen          \* bound on the preset switches started

ASSUME PresetAssumption ==
    /\ Hops \subseteq Switchers /\ NoPlan \subseteq Presets
    /\ MaxGen \in Nat
    /\ IsFiniteSet(Switchers)

VARIABLES
    modem,          \* mt.modem_preset and mt.modem
    hash,           \* the derived channel hashes
    freq,           \* mt.frequency
    generation,     \* gate.generation
    spc,            \* where each switcher is
    target, prev,   \* its preset argument and prev_preset
    started,        \* switches started (bounded)
    stage,          \* where each frame is
    fhash,          \* the hash it was composed with
    fgen,           \* ob_item.gen
    air,            \* <<modem, freq>> it was keyed with
    clean,          \* history: composed and enqueued on one settled preset
    tangled         \* history: a config write met another switch half way, or no plan

switch == <<modem, hash, freq, generation, spc, target, prev, started, tangled>>
frames == <<stage, fhash, fgen, air, clean>>
vars == <<modem, hash, freq, generation, spc, target, prev, started,
          stage, fhash, fgen, air, clean, tangled>>

Idle == {"idle", "drain"}

\* Mutant of Pending: the frame in the worker's hand is not counted.
PendingInQueue == {f \in Frames : stage[f] = "queued"}

\* meshtastic_outbound_pending: queued, or out of the queue and not yet done with.
Pending == {f \in Frames : stage[f] \in {"queued", "inhand", "checked"}}

\* No switch is between its first and its last assignment.
Quiet == \A s \in Switchers : spc[s] \in Idle

Init ==
    /\ modem \in Presets \ NoPlan /\ hash = modem /\ freq = modem
    /\ generation = 0 /\ started = 0
    /\ spc = [s \in Switchers |-> "idle"]
    /\ target = [s \in Switchers |-> modem] /\ prev = [s \in Switchers |-> modem]
    /\ stage = [f \in Frames |-> "idle"]
    /\ fhash = [f \in Frames |-> modem]
    /\ fgen = [f \in Frames |-> 0]
    /\ air = [f \in Frames |-> <<modem, modem>>]
    /\ clean = [f \in Frames |-> FALSE] /\ tangled = FALSE

-----------------------------------------------------------------------------
(* Senders and the outbound worker.                                         *)

\* mt_ws_build_wire_locked: the channel hash goes into the wire header.
Compose(f) ==
    /\ stage[f] = "idle"
    /\ stage' = [stage EXCEPT ![f] = "composed"]
    /\ fhash' = [fhash EXCEPT ![f] = hash]
    /\ clean' = [clean EXCEPT ![f] = Quiet /\ ~tangled]
    /\ UNCHANGED <<fgen, air, switch>>

\* outbound_enqueue: the generation is stamped here.
Enqueue(f) ==
    /\ stage[f] = "composed"
    /\ stage' = [stage EXCEPT ![f] = "queued"]
    /\ fgen' = [fgen EXCEPT ![f] = generation]
    /\ UNCHANGED <<fhash, air, clean, switch>>

Dequeue(f) ==
    /\ stage[f] = "queued"
    /\ \A g \in Frames : stage[g] \notin {"inhand", "checked"}
    /\ stage' = [stage EXCEPT ![f] = "inhand"]
    /\ UNCHANGED <<fhash, fgen, air, clean, switch>>

\* The worker compares the stamp with the live generation.
Check(f) ==
    /\ stage[f] = "inhand"
    /\ stage' = [stage EXCEPT ![f] = IF fgen[f] = generation THEN "checked" ELSE "stale"]
    /\ UNCHANGED <<fhash, fgen, air, clean, switch>>

\* meshtastic_radio_send_wire_now, under mt_radio_sem and mt.lock: config and send read
\* mt.modem and mt.frequency as they are.
Transmit(f) ==
    /\ stage[f] = "checked"
    /\ stage' = [stage EXCEPT ![f] = "sent"]
    /\ air' = [air EXCEPT ![f] = <<modem, freq>>]
    /\ UNCHANGED <<fhash, fgen, clean, switch>>

\* A busy channel: the frame goes back with its stamp.
Defer(f) ==
    /\ stage[f] = "checked"
    /\ stage' = [stage EXCEPT ![f] = "queued"]
    /\ UNCHANGED <<fhash, fgen, air, clean, switch>>

Frame(f) == Compose(f) \/ Enqueue(f) \/ Dequeue(f) \/ Check(f) \/ Transmit(f) \/ Defer(f)

-----------------------------------------------------------------------------
(* meshtastic_preset_hop and meshtastic_preset_switch.                      *)

Goto(s, pc) == spc' = [spc EXCEPT ![s] = pc]

\* hop: hop_lock is tried, not waited for; then the drain begins.
HopBegin(s) ==
    /\ s \in Hops /\ spc[s] = "idle" /\ started < MaxGen
    /\ \A h \in Hops : spc[h] = "idle"
    /\ \E p \in Presets : target' = [target EXCEPT ![s] = p]
    /\ started' = started + 1
    /\ Goto(s, "drain")
    /\ UNCHANGED <<modem, hash, freq, generation, prev, tangled, frames>>

\* Mutant of HopGiveUp: the drain has no deadline.
HopWaits(s) == FALSE /\ UNCHANGED vars

\* The deadline of the drain passed with frames still pending: -EBUSY.
HopGiveUp(s) ==
    /\ spc[s] = "drain" /\ Pending # {}
    /\ Goto(s, "idle")
    /\ UNCHANGED <<modem, hash, freq, generation, target, prev, started, tangled, frames>>

\* What a switch starts with: mt.modem_preset and mt.modem under mt.lock.  A frame
\* caught between its composition and its enqueue, or without a drain anywhere before
\* its transmission, is no longer clean.
SetModem(s) ==
    /\ prev' = [prev EXCEPT ![s] = modem]
    /\ modem' = target'[s]
    /\ clean' = [f \in Frames |-> clean[f] /\ stage[f] # "composed"
                                         /\ (s \in Hops \/ f \notin Pending)]
    /\ tangled' = (tangled \/ ~Quiet)
    /\ Goto(s, "hash")
    /\ UNCHANGED <<hash, freq, generation, stage, fhash, fgen, air>>

\* hop: the queue has drained, and the switch begins.
HopSwitch(s) ==
    /\ spc[s] = "drain" /\ Pending = {}
    /\ UNCHANGED <<target, started>>
    /\ SetModem(s)

\* meshtastic_config_store_set_config: apply_core has no drain and asks nobody.
StoreBegin(s) ==
    /\ s \notin Hops /\ spc[s] = "idle" /\ started < MaxGen
    /\ \E p \in Presets : target' = [target EXCEPT ![s] = p]
    /\ started' = started + 1
    /\ SetModem(s)

\* meshtastic_channels_refresh_derived: hashes of the preset now in mt.
Refresh(s) ==
    /\ spc[s] = "hash"
    /\ hash' = modem
    /\ Goto(s, "plan")
    /\ UNCHANGED <<modem, freq, generation, target, prev, started, tangled, frames>>

\* The preset the frequency is resolved for: the argument of meshtastic_preset_switch,
\* or mt.modem_preset as meshtastic_preset_apply_stored finds it.
PlanFor(s) == IF s \in Hops THEN target[s] ELSE modem

\* meshtastic_region_freq_plan answered: mt.frequency.
SetFrequency(s) ==
    /\ spc[s] = "plan" /\ PlanFor(s) \notin NoPlan
    /\ freq' = PlanFor(s)
    /\ Goto(s, "retune")
    /\ UNCHANGED <<modem, hash, generation, target, prev, started, tangled, frames>>

\* No plan.  The switch goes back to prev_preset (and then refreshes the hashes);
\* apply_stored just returns.
RollBack(s) ==
    /\ spc[s] = "plan" /\ PlanFor(s) \in NoPlan /\ s \in Hops
    /\ modem' = prev[s]
    /\ Goto(s, "rehash")
    /\ UNCHANGED <<hash, freq, generation, target, prev, started, tangled, frames>>

\* Mutant of RehashBack: the hashes keep the refused preset.
RehashForgotten(s) ==
    /\ spc[s] = "rehash"
    /\ Goto(s, "idle")
    /\ UNCHANGED <<modem, hash, freq, generation, target, prev, started, tangled, frames>>

RehashBack(s) ==
    /\ spc[s] = "rehash"
    /\ hash' = modem
    /\ Goto(s, "idle")
    /\ UNCHANGED <<modem, freq, generation, target, prev, started, tangled, frames>>

StoreNoPlan(s) ==
    /\ spc[s] = "plan" /\ PlanFor(s) \in NoPlan /\ s \notin Hops
    /\ Goto(s, "idle")
    /\ tangled' = TRUE
    /\ UNCHANGED <<modem, hash, freq, generation, target, prev, started, frames>>

\* meshtastic_radio_retune: the chip takes the configuration, or lora_config fails
\* and the switch returns the error, with mt.* as they are and no new generation.
Retune(s) ==
    /\ spc[s] = "retune"
    /\ Goto(s, "bump") \/ Goto(s, "idle")
    /\ UNCHANGED <<modem, hash, freq, generation, target, prev, started, tangled, frames>>

Bump(s) ==
    /\ spc[s] = "bump"
    /\ generation' = generation + 1
    /\ Goto(s, "idle")
    /\ UNCHANGED <<modem, hash, freq, target, prev, started, tangled, frames>>

\* What a switch that has begun does next.
Step(s) ==
    \/ HopGiveUp(s) \/ HopSwitch(s) \/ Refresh(s) \/ SetFrequency(s) \/ RollBack(s)
    \/ RehashBack(s) \/ StoreNoPlan(s) \/ Retune(s) \/ Bump(s)

Next ==
    \/ \E f \in Frames : Frame(f)
    \/ \E s \in Switchers : HopBegin(s) \/ StoreBegin(s) \/ Step(s)

\* A switch that has begun runs on: its thread is ready, or its sleep is bounded.
Spec == Init /\ [][Next]_vars /\ \A s \in Switchers : WF_vars(Step(s))

-----------------------------------------------------------------------------
\* "Only a radio-level failure can leave the node mid-switch" (meshtastic_preset.h): when
\* no switch is running, modem, channel hashes and frequency are those of one preset,
\* unless a config write interfered: nothing excludes it from a hop's assignments.
SettledAgree == Quiet /\ ~tangled => modem = hash /\ hash = freq

\* The drain of meshtastic_preset_hop: a frame composed and enqueued while no switch was
\* under way goes out on the preset it was composed for, or not at all.
DrainProtects ==
    \A f \in Frames : stage[f] = "sent" /\ clean[f] => air[f] = <<fhash[f], fhash[f]>>

\* Every switch returns, also when frames keep being deferred for ever.
SwitchesReturn ==
    \A s \in Switchers : spc[s] # "idle" ~> spc[s] = "idle"
=============================================================================
