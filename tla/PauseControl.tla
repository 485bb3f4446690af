---------------------------- MODULE PauseControl ----------------------------
(***************************************************************************)
(* Hardware-aware scanning: the flag isPaused of the ScannerService, the   *)
(* goroutine of MonitorThermal (pkg/utils/thermal.go), the RAM and CPU     *)
(* monitor of RunScan (pkg/scanner/service.go) and the workers that poll   *)
(* the flag before each record.                                            *)
(*                                                                         *)
(* Temperature and RAM usage are levels 0 .. Top that change freely; a     *)
(* monitor reads a level in one step and stores the flag in a later one.   *)
(***************************************************************************)
EXTENDS Integers

CONSTANTS
  Worker,
  Top,              \* the highest level
  Thresholds,       \* values the user may give to either threshold option
  ThermalMargin,    \* the 15 degrees below it at which scanning resumes
  RamMargin         \* the 10 percent below it

Level == 0 .. Top

(* ScannerOptions: a threshold of 0 leaves its monitor out. *)
Options == [ThermalThreshold: Thresholds \cup {0},
            MaxRAMThreshold: Thresholds \cup {0},
            AutoScale: BOOLEAN]

ASSUME LevelAssumption ==
  /\ {Top, ThermalMargin, RamMargin} \subseteq Nat \ {0}
  /\ Thresholds \subseteq Level \ {0}

VARIABLES
  opts,            \* the options of the scan
  temp, ram,       \* the hardware
  isPaused,        \* s.isPaused
  isThrottled,     \* s.isThrottled
  thermalPaused,   \* the local isPaused of MonitorThermal
  thermalAt,       \* "read", or the callback it is about to call
  thermalSaw,      \* the last temperature it read
  ramAt,           \* "read", or the value the monitor is about to store
  ramSaw,          \* and the RAM usage of its stats, 0 between two turns
  pc               \* workers: "recv", "gate" (polling isPaused), "work"

hwVars == <<temp, ram>>
thermalVars == <<thermalPaused, thermalAt, thermalSaw>>
ramVars == <<ramAt, ramSaw>>
vars == <<opts, hwVars, isPaused, isThrottled, thermalVars, ramVars, pc>>

Critical == opts.ThermalThreshold
Safety == Critical - ThermalMargin
MaxRam == opts.MaxRAMThreshold

TypeOK ==
  /\ opts \in Options
  /\ temp \in Level /\ ram \in Level
  /\ isPaused \in BOOLEAN /\ isThrottled \in BOOLEAN
  /\ thermalPaused \in BOOLEAN
  /\ thermalAt \in {"read", "onCritical", "onSafe"}
  /\ thermalAt = "onCritical" => thermalPaused
  /\ thermalAt = "onSafe" => ~thermalPaused
  /\ thermalSaw \in Level
  /\ ramAt \in {"read", "pause", "unpause", "keep"} /\ ramSaw \in Level
  /\ pc \in [Worker -> {"recv", "gate", "work"}]

Init ==
  /\ opts \in Options
  /\ temp \in Level /\ ram \in Level
  /\ isPaused = FALSE /\ isThrottled = FALSE
  /\ thermalPaused = FALSE /\ thermalAt = "read" /\ thermalSaw = 0
  /\ ramAt = "read" /\ ramSaw = 0
  /\ pc = [w \in Worker |-> "recv"]

-----------------------------------------------------------------------------
HardwareChange ==
  /\ temp' \in Level /\ ram' \in Level
  /\ hwVars' # hwVars
  /\ UNCHANGED <<opts, isPaused, isThrottled, thermalVars, ramVars, pc>>

MutReadTemperature ==
  /\ Critical > 0 /\ thermalAt = "read"
  /\ thermalSaw' = temp
  /\ \/ /\ temp >= Critical /\ ~thermalPaused
        /\ thermalPaused' = TRUE /\ thermalAt' = "onCritical"
     \/ /\ temp < Critical /\ thermalPaused
        /\ thermalPaused' = FALSE /\ thermalAt' = "onSafe"
  /\ UNCHANGED <<opts, hwVars, isPaused, isThrottled, ramVars, pc>>

MutReadForgets ==
  /\ Critical > 0 /\ thermalAt = "read"
  /\ thermalSaw' = temp
  /\ \/ /\ temp >= Critical /\ ~thermalPaused
        /\ thermalPaused' = TRUE /\ thermalAt' = "onCritical"
     \/ /\ temp <= Safety /\ thermalPaused
        /\ UNCHANGED thermalPaused /\ thermalAt' = "onSafe"
  /\ UNCHANGED <<opts, hwVars, isPaused, isThrottled, ramVars, pc>>

(* One turn of MonitorThermal that changes something: the comparison and   *)
(* the local flag, then the callback.                                      *)
ReadTemperature ==
  /\ Critical > 0 /\ thermalAt = "read"
  /\ thermalSaw' = temp
  /\ \/ /\ temp >= Critical /\ ~thermalPaused
        /\ thermalPaused' = TRUE /\ thermalAt' = "onCritical"
     \/ /\ temp <= Safety /\ thermalPaused
        /\ thermalPaused' = FALSE /\ thermalAt' = "onSafe"
  /\ UNCHANGED <<opts, hwVars, isPaused, isThrottled, ramVars, pc>>

Callback ==
  /\ thermalAt # "read"
  /\ isPaused' = (thermalAt = "onCritical")
  /\ thermalAt' = "read"
  /\ UNCHANGED <<opts, hwVars, isThrottled, thermalPaused, thermalSaw, ramVars, pc>>

MutReadStats ==
  /\ MaxRam > 0 \/ opts.AutoScale
  /\ ramAt = "read" /\ ramSaw' = ram
  /\ ramAt' = IF MaxRam > 0 /\ ram >= MaxRam THEN "pause" ELSE "unpause"
  /\ UNCHANGED <<opts, hwVars, isPaused, isThrottled, thermalVars, pc>>

MutReadStatsNoResume ==
  /\ MaxRam > 0 \/ opts.AutoScale
  /\ ramAt = "read" /\ ramSaw' = ram
  /\ ramAt' = IF MaxRam > 0 /\ ram >= MaxRam THEN "pause" ELSE "keep"
  /\ UNCHANGED <<opts, hwVars, isPaused, isThrottled, thermalVars, pc>>

(* GetSystemStats in the monitor of RunScan, and the comparisons. *)
ReadStats ==
  /\ MaxRam > 0 \/ opts.AutoScale
  /\ ramAt = "read" /\ ramSaw' = ram
  /\ ramAt' = CASE MaxRam > 0 /\ ram >= MaxRam -> "pause"
                [] MaxRam > 0 /\ ram < MaxRam - RamMargin -> "unpause"
                [] OTHER -> "keep"
  /\ UNCHANGED <<opts, hwVars, isPaused, isThrottled, thermalVars, pc>>

(* The stores: isPaused unless it is kept, then isThrottled by CPU usage.  *)
StoreFlags ==
  /\ ramAt # "read"
  /\ isPaused' = CASE ramAt = "pause" -> TRUE
                   [] ramAt = "unpause" -> FALSE
                   [] OTHER -> isPaused
  /\ isThrottled' \in (IF opts.AutoScale THEN BOOLEAN ELSE {FALSE})
  /\ ramAt' = "read" /\ ramSaw' = 0
  /\ UNCHANGED <<opts, hwVars, thermalVars, pc>>

ReceiveRecord(w) ==
  /\ pc[w] = "recv"
  /\ pc' = [pc EXCEPT ![w] = "gate"]
  /\ UNCHANGED <<opts, hwVars, isPaused, isThrottled, thermalVars, ramVars>>

(* for isPaused == 1 { sleep }; the delay of isThrottled changes nothing.  *)
PassGate(w) ==
  /\ pc[w] = "gate" /\ ~isPaused
  /\ pc' = [pc EXCEPT ![w] = "work"]
  /\ UNCHANGED <<opts, hwVars, isPaused, isThrottled, thermalVars, ramVars>>

FinishRecord(w) ==
  /\ pc[w] = "work"
  /\ pc' = [pc EXCEPT ![w] = "recv"]
  /\ UNCHANGED <<opts, hwVars, isPaused, isThrottled, thermalVars, ramVars>>

Work(w) == ReceiveRecord(w) \/ PassGate(w) \/ FinishRecord(w)
Thermal == ReadTemperature \/ Callback
Memory == ReadStats \/ StoreFlags

Next == \/ HardwareChange \/ Thermal \/ Memory
        \/ \E w \in Worker : Work(w)

(* The monitors poll for ever, the workers never run out of records.       *)
Fairness == /\ WF_vars(Thermal) /\ WF_vars(Memory)
            /\ \A w \in Worker : WF_vars(Work(w))

Spec == Init /\ [][Next]_vars /\ Fairness

-----------------------------------------------------------------------------
(* The thermal watchdog alone stores the flag. *)
ThermalOnly == Critical > 0 /\ MaxRam = 0

(* onCritical has run and MonitorThermal has not seen a safe temperature.  *)
ThermalHold == thermalPaused /\ thermalAt = "read"

(* The flag is what the thermal watchdog last decided, as long as no RAM   *)
(* threshold makes the other monitor store it: AutoScale does run that     *)
(* monitor, and its throttling never touches the pause.                    *)
PauseHolds == ThermalOnly => (ThermalHold => isPaused)

(* Hysteresis: no pause is lifted but by a monitor that has just seen its  *)
(* own level safe, its margin below the threshold, whichever monitors are  *)
(* on.  It need not be the monitor that paused the scan: calm memory lifts *)
(* a thermal pause, and the other way round.                               *)
ResumesWhenSafe ==
  [][isPaused /\ ~isPaused' =>
       \/ thermalAt = "onSafe" /\ thermalSaw <= Safety
       \/ ramAt = "unpause" /\ ramSaw < MaxRam - RamMargin]_vars

(* The machine is as cool and its memory as free as can be asked for: at   *)
(* the safe levels or, where none is that low, at the lowest.              *)
Calm == /\ Critical > 0 => temp <= Safety \/ temp = 0
        /\ MaxRam > 0 => ram < MaxRam - RamMargin \/ ram = 0

(* A threshold whose safe level no machine can reach. *)
NeverSafe == \/ Critical > 0 /\ Safety < 0
             \/ MaxRam > 0 /\ MaxRam - RamMargin <= 0

(* Once the machine stays calm, every worker goes on for ever: no pause    *)
(* outlives its cause, with either monitor or both.  The one way to lose   *)
(* the scan is to be paused for good by a threshold that is too low for    *)
(* its margin, which RunScan subtracts without a look at the result.       *)
CalmResumes ==
  <>[]Calm => \/ \A w \in Worker : []<>(pc[w] = "work")
              \/ NeverSafe /\ <>[]isPaused
=============================================================================
