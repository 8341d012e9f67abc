------------------------------ MODULE Scanner -------------------------------
(***************************************************************************)
(* The multi-preset survey (src/src/meshtastic_scanner.c): the sweep thread,*)
(* the start/stop handshake over scan_wake and scan_idle, and the transmit  *)
(* path's two looks at the gate (src/src/meshtastic_radio.c).               *)
(*                                                                          *)
(* The sweep thread (priority 10) outranks the shell thread (14), and is    *)
(* outranked by the thread that runs shell commands received over BLE       *)
(* (mcumgr's shell group, priority 3); they share one core.  A caller that  *)
(* does not outrank the thread moves only while the thread is blocked; one  *)
(* that does (Urgent) may preempt it anywhere, and keeps the core until it  *)
(* blocks itself.                                                           *)
(***************************************************************************)
EXTENDS Naturals, Sequences

CONSTANTS
    Presets,        \* presets the survey may visit
    Home,           \* what mt.modem_preset stands for; not one of them
    None,           \* scan_tuned = -1
    Lists,          \* lists given to meshtastic_scanner_set_presets
    NoPlan,         \* presets without a frequency plan in this region
    Urgent,         \* start and stop are called by a thread that outranks the sweep's
    SlowTx,         \* a transmission may outlast stop()'s 2000 ms backstop
    MaxStarts

ASSUME ScannerAssumption ==
    /\ Home \notin Presets /\ None \notin Presets
    /\ Lists \subseteq Seq(Presets) \ {<<>>}
    /\ NoPlan \subseteq Presets
    /\ {Urgent, SlowTx} \subseteq BOOLEAN
    /\ MaxStarts \in Nat

VARIABLES
    sweeping, txClosed, cur,    \* struct scan
    slots, n,                   \* scan_list, scan_list_n
    tuned,                      \* scan_tuned
    wake, idle,                 \* scan_wake, scan_idle
    tpc, ti,                    \* the sweep thread and its i
    opc, was,                   \* the caller of start/stop and its was_sweeping
    txpc,                       \* the outbound worker in send_wire_now
    modem, freq,                \* mt.modem, mt.frequency
    chip,                       \* <<modem, frequency>> last given to lora_config
    aired,                      \* history: every transmission so far was at home
    starts

gate == <<sweeping, txClosed>>
list == <<slots, n>>
sems == <<wake, idle>>
mt == <<modem, freq>>
history == <<aired>>
bounds == <<starts>>
vars == <<gate, cur, list, tuned, sems, tpc, ti, opc, was, txpc, mt, chip, history, bounds>>

\* tx_closed is set from the start in an image built with SCANNER_AUTOSTART.
Init ==
    /\ sweeping = FALSE /\ txClosed \in BOOLEAN /\ cur = 1
    /\ slots \in Lists /\ n = Len(slots)
    /\ tuned = None /\ wake = 0 /\ idle = 0
    /\ tpc = "top" /\ ti = 1
    /\ opc = "none" /\ was = FALSE
    /\ txpc = "none"
    /\ modem = Home /\ freq = Home /\ chip = <<Home, Home>>
    /\ aired = TRUE
    /\ starts = 0

After(i) == (i % n) + 1

\* mt_radio_sem is held from the second look at the gate to the end of the transmission.
SemFree == txpc \notin {"holding", "sending"}

\* mt.lock is held while a frame is on the air.
LockFree == txpc # "sending"

-----------------------------------------------------------------------------
(* scan_thread_fn.                                                          *)

Top ==
    /\ tpc = "top"
    /\ IF sweeping THEN tpc' = "resolve" /\ ti' = cur
                   ELSE tpc' = "park" /\ UNCHANGED ti
    /\ UNCHANGED <<gate, cur, list, tuned, sems, opc, was, txpc, mt, chip, history, bounds>>

\* Mutant of ParkGive: the park is not announced.
ParkSilent ==
    /\ tpc = "park"
    /\ tpc' = "wait"
    /\ UNCHANGED <<gate, cur, list, tuned, sems, ti, opc, was, txpc, mt, chip, history, bounds>>

ParkGive ==
    /\ tpc = "park"
    /\ idle' = 1
    /\ tpc' = "wait"
    /\ UNCHANGED <<gate, cur, list, tuned, wake, ti, opc, was, txpc, mt, chip, history, bounds>>

ParkWake ==
    /\ tpc = "wait" /\ wake = 1
    /\ wake' = 0
    /\ tpc' = "top"
    /\ UNCHANGED <<gate, cur, list, tuned, idle, ti, opc, was, txpc, mt, chip, history, bounds>>

\* The next preset of the list.
Skip == cur' = After(ti) /\ tpc' = "top"

\* No frequency plan: next preset.  Already tuned there (a list of one): no retune.
Resolve ==
    /\ tpc = "resolve"
    /\ CASE slots[ti] \in NoPlan -> Skip
         [] slots[ti] \notin NoPlan /\ tuned = slots[ti] -> tpc' = "note" /\ UNCHANGED cur
         [] OTHER -> tpc' = "write" /\ UNCHANGED cur
    /\ UNCHANGED <<gate, list, tuned, sems, ti, opc, was, txpc, mt, chip, history, bounds>>

\* meshtastic_radio_tune_explicit writes mt under mt.lock alone ...
TuneWrite ==
    /\ tpc = "write" /\ LockFree
    /\ modem' = slots[ti] /\ freq' = slots[ti]
    /\ tpc' = "retune"
    /\ UNCHANGED <<gate, cur, list, tuned, sems, ti, opc, was, txpc, chip, history, bounds>>

\* ... and meshtastic_radio_retune takes the radio semaphore.
TuneRetune ==
    /\ tpc = "retune" /\ SemFree
    /\ chip' = <<modem, freq>>
    /\ tpc' = "note"
    /\ UNCHANGED <<gate, cur, list, tuned, sems, ti, opc, was, txpc, mt, history, bounds>>

\* Mutant of TuneFail: the cache survives the failure.
TuneFailCached ==
    /\ tpc = "retune" /\ SemFree
    /\ chip' \in {chip, <<modem, freq>>}
    /\ UNCHANGED tuned
    /\ Skip
    /\ UNCHANGED <<gate, list, sems, ti, opc, was, txpc, mt, history, bounds>>

\* lora_config failed; what the chip has taken by then is unknown.
TuneFail ==
    /\ tpc = "retune" /\ SemFree
    /\ chip' \in {chip, <<modem, freq>>}
    /\ tuned' = None
    /\ Skip
    /\ UNCHANGED <<gate, list, sems, ti, opc, was, txpc, mt, history, bounds>>

TuneNote ==
    /\ tpc = "note"
    /\ tuned' = slots[ti]
    /\ tpc' = "dwell"
    /\ UNCHANGED <<gate, cur, list, sems, ti, opc, was, txpc, mt, chip, history, bounds>>

\* The dwell ends by its timer or by scan_wake.
Dwell ==
    /\ tpc = "dwell"
    /\ wake' \in {wake, 0}
    /\ Skip
    /\ UNCHANGED <<gate, list, tuned, idle, ti, opc, was, txpc, mt, chip, history, bounds>>

\* The thread has the core.
ThreadMayRun ==
    Urgent => \/ opc = "none"
              \/ opc = "waitidle" /\ idle = 0
              \/ opc = "modem" /\ ~LockFree
              \/ opc = "retune"

Thread ==
    /\ ThreadMayRun
    /\ \/ Top \/ ParkGive \/ ParkWake \/ Resolve \/ TuneWrite \/ TuneRetune \/ TuneFail
       \/ TuneNote \/ Dwell

\* The thread waits for a semaphore or for its dwell to end.
ThreadBlocked ==
    \/ tpc \in {"wait", "dwell"} /\ wake = 0
    \/ tpc = "retune" /\ ~SemFree
    \/ tpc = "write" /\ ~LockFree

\* Whether the caller of start or stop has the core.
MayRun == Urgent \/ ThreadBlocked

-----------------------------------------------------------------------------
(* meshtastic_scanner_start and meshtastic_scanner_stop.                    *)

StartCall ==
    /\ opc = "none" /\ MayRun /\ ~sweeping /\ starts < MaxStarts
    /\ txClosed' = TRUE /\ sweeping' = TRUE /\ cur' = 1
    /\ starts' = starts + 1
    /\ opc' = "drain"
    /\ UNCHANGED <<list, tuned, sems, tpc, ti, was, txpc, mt, chip, history>>

StartDrain ==
    /\ opc = "drain" /\ MayRun
    /\ idle' = 0
    /\ opc' = "untune"
    /\ UNCHANGED <<gate, cur, list, tuned, wake, tpc, ti, was, txpc, mt, chip, history, bounds>>

StartUntune ==
    /\ opc = "untune" /\ MayRun
    /\ tuned' = None
    /\ opc' = "wake"
    /\ UNCHANGED <<gate, cur, list, sems, tpc, ti, was, txpc, mt, chip, history, bounds>>

StartWake ==
    /\ opc = "wake" /\ MayRun
    /\ wake' = 1
    /\ opc' = "none"
    /\ UNCHANGED <<gate, cur, list, tuned, idle, tpc, ti, was, txpc, mt, chip, history, bounds>>

StopCall ==
    /\ opc = "none" /\ MayRun
    /\ sweeping \/ txClosed
    /\ was' = sweeping
    /\ sweeping' = FALSE
    /\ opc' = IF sweeping THEN "stopwake" ELSE "modem"
    /\ UNCHANGED <<txClosed, cur, list, tuned, sems, tpc, ti, txpc, mt, chip, history, bounds>>

StopWake ==
    /\ opc = "stopwake" /\ MayRun
    /\ wake' = 1
    /\ opc' = "waitidle"
    /\ UNCHANGED <<gate, cur, list, tuned, idle, tpc, ti, was, txpc, mt, chip, history, bounds>>

StopTake ==
    /\ opc = "waitidle" /\ MayRun /\ idle = 1
    /\ idle' = 0
    /\ opc' = "modem"
    /\ UNCHANGED <<gate, cur, list, tuned, wake, tpc, ti, was, txpc, mt, chip, history, bounds>>

\* The 2000 ms backstop.
StopTimeout ==
    /\ opc = "waitidle" /\ MayRun /\ idle = 0 /\ SlowTx /\ txpc = "sending"
    /\ opc' = "modem"
    /\ UNCHANGED <<gate, cur, list, tuned, sems, tpc, ti, was, txpc, mt, chip, history, bounds>>

\* meshtastic_preset_switch(mt.modem_preset): modem, frequency, radio.
RestoreModem ==
    /\ opc = "modem" /\ MayRun /\ LockFree
    /\ modem' = Home
    /\ opc' = "freq"
    /\ UNCHANGED <<gate, cur, list, tuned, sems, tpc, ti, was, txpc, freq, chip, history, bounds>>

RestoreFreq ==
    /\ opc = "freq" /\ MayRun /\ LockFree
    /\ freq' = Home
    /\ opc' = "retune"
    /\ UNCHANGED <<gate, cur, list, tuned, sems, tpc, ti, was, txpc, modem, chip, history, bounds>>

RestoreRetune ==
    /\ opc = "retune" /\ MayRun /\ SemFree
    /\ \/ chip' = <<modem, freq>> /\ opc' = "open"
       \/ chip' \in {chip, <<modem, freq>>} /\ opc' = "shut"
    /\ UNCHANGED <<gate, cur, list, tuned, sems, tpc, ti, was, txpc, mt, history, bounds>>

\* Mutant of StopEnd: the gate opens whatever the restore did.
StopEndOpen ==
    /\ opc \in {"open", "shut"} /\ MayRun
    /\ tuned' = None /\ txClosed' = FALSE
    /\ opc' = "none"
    /\ UNCHANGED <<sweeping, cur, list, sems, tpc, ti, was, txpc, mt, chip, history, bounds>>

\* scan_tuned is void, and the gate opens only if the restore succeeded.
StopEnd ==
    /\ opc \in {"open", "shut"} /\ MayRun
    /\ tuned' = None
    /\ txClosed' = (txClosed /\ opc = "shut")
    /\ opc' = "none"
    /\ UNCHANGED <<sweeping, cur, list, sems, tpc, ti, was, txpc, mt, chip, history, bounds>>

Caller ==
    \/ StartDrain \/ StartUntune \/ StartWake \/ StopWake \/ StopTake \/ StopTimeout
    \/ RestoreModem \/ RestoreFreq \/ RestoreRetune \/ StopEnd

-----------------------------------------------------------------------------
(* meshtastic_radio_send_wire_now and the receive callback.                 *)

\* The early look, outside the radio semaphore.
TxGate ==
    /\ txpc = "none" /\ ~txClosed
    /\ txpc' = "passed"
    /\ UNCHANGED <<gate, cur, list, tuned, sems, tpc, ti, opc, was, mt, chip, history, bounds>>

\* The semaphore, and the decisive look; the settle wait follows with it held.
TxTake ==
    /\ txpc = "passed"
    /\ txpc' = IF txClosed THEN "none" ELSE "holding"
    /\ UNCHANGED <<gate, cur, list, tuned, sems, tpc, ti, opc, was, mt, chip, history, bounds>>

\* Under mt.lock: configure from mt and send ...
TxSend ==
    /\ txpc = "holding"
    /\ chip' = <<modem, freq>>
    /\ aired' = (aired /\ modem = Home /\ freq = Home)
    /\ txpc' = "sending"
    /\ UNCHANGED <<gate, cur, list, tuned, sems, tpc, ti, opc, was, mt, bounds>>

\* ... until the frame is out; then the lock and the semaphore are given back.
TxDone ==
    /\ txpc = "sending"
    /\ txpc' = "none"
    /\ UNCHANGED <<gate, cur, list, tuned, sems, tpc, ti, opc, was, mt, chip, history, bounds>>

\* A packet is being received: deferred, and the semaphore given back.
TxDefer ==
    /\ txpc = "holding"
    /\ txpc' = "none"
    /\ UNCHANGED <<gate, cur, list, tuned, sems, tpc, ti, opc, was, mt, chip, history, bounds>>

Worker == TxTake \/ TxSend \/ TxDone \/ TxDefer

Next == Thread \/ Caller \/ StartCall \/ StopCall \/ TxGate \/ Worker

Spec == Init /\ [][Next]_vars

\* Each thread goes on when it is ready; a wait for the radio ends with the frame; a
\* retune that is tried again and again succeeds (lora_config fails with -EBUSY only).
FairSpec ==
    /\ Spec
    /\ WF_vars(Thread) /\ WF_vars(Caller) /\ WF_vars(Worker)
    /\ SF_vars(TuneRetune)

-----------------------------------------------------------------------------
\* "leaving the radio parked on a scan frequency with TX allowed, the one outcome this
\* design exists to prevent" (meshtastic_scanner_start): while the gate is open, mt and
\* the chip are on the operating preset and the sweep thread is not about to move them.
GateOpenMeansHome ==
    ~txClosed => /\ modem = Home /\ freq = Home /\ chip = <<Home, Home>>
                 /\ tpc \notin {"write", "retune"}

\* scan_tuned never lies: a dwell listens on the preset it was opened for, also when the
\* retune was skipped because the thread believed it was already there.
DwellIsTuned ==
    tpc = "dwell" /\ sweeping => chip = <<tuned, tuned>>

\* "the decisive check belongs on this side of it" (send_wire_now, of the gate asked
\* again under mt_radio_sem): no frame is transmitted on a survey preset.
TransmitsAtHome == aired

\* No command is lost, whatever the tokens of earlier ones: a stop ends in the parked thread (or
\* a new start), a start reaches a dwell (or is stopped), over and over, and stop()'s wait for
\* the park is answered.
CommandsTake ==
    /\ ~sweeping ~> (tpc = "wait" \/ sweeping)
    /\ sweeping ~> (tpc = "dwell" \/ ~sweeping)
    /\ opc = "waitidle" ~> opc = "none"
=============================================================================
