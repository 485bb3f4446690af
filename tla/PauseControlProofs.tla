-------------------------- MODULE PauseControlProofs --------------------------
(***************************************************************************)
(* Proofs about PauseControl, for any number of workers, any thresholds    *)
(* and any course of temperature and memory.                               *)
(***************************************************************************)
EXTENDS PauseControl, TLAPS

(* The types hold: in particular MonitorThermal calls onCritical only with *)
(* its own flag up, and onSafe only with it down.                          *)
THEOREM TypeCorrect == Spec => []TypeOK
<1> USE LevelAssumption DEF Level
<1>1. Init => TypeOK
  <2>1. 0 \in Level
    OBVIOUS
  <2> QED
    BY <2>1 DEF Init, TypeOK
<1>2. TypeOK /\ [Next]_vars => TypeOK'
  <2> SUFFICES ASSUME TypeOK, [Next]_vars PROVE TypeOK'
    OBVIOUS
  <2> USE DEF TypeOK
  <2>1. CASE HardwareChange
    BY <2>1 DEF HardwareChange, thermalVars, ramVars
  <2>2. CASE ReadTemperature
    BY <2>2 DEF ReadTemperature, hwVars, ramVars
  <2>3. CASE Callback
    BY <2>3 DEF Callback, hwVars, ramVars
  <2>4. CASE ReadStats
    BY <2>4 DEF ReadStats, hwVars, thermalVars
  <2>5. CASE StoreFlags
    <3>1. 0 \in Level
      OBVIOUS
    <3>2. isPaused' \in BOOLEAN
      <4>1. CASE ramAt \in {"pause", "unpause"}
        BY <2>5, <4>1 DEF StoreFlags
      <4>2. CASE ramAt \notin {"pause", "unpause"}
        BY <2>5, <4>2 DEF StoreFlags
      <4> QED
        BY <4>1, <4>2
    <3>3. isThrottled' \in BOOLEAN
      BY <2>5 DEF StoreFlags
    <3> QED
      BY <2>5, <3>1, <3>2, <3>3 DEF StoreFlags, hwVars, thermalVars
  <2>6. ASSUME NEW w \in Worker, Work(w) PROVE TypeOK'
    BY <2>6 DEF Work, ReceiveRecord, PassGate, FinishRecord, hwVars, thermalVars, ramVars
  <2>7. CASE UNCHANGED vars
    BY <2>7 DEF vars, hwVars, thermalVars, ramVars
  <2> QED
    BY <2>1, <2>2, <2>3, <2>4, <2>5, <2>6, <2>7 DEF Next, Thermal, Memory
<1> QED
  BY <1>1, <1>2, PTL DEF Spec

-----------------------------------------------------------------------------
(* What a monitor is about to call or to store matches what it saw; and    *)
(* with the thermal watchdog alone, the other one never means to store the *)
(* flag.                                                                   *)
WatchdogInv ==
  /\ thermalAt = "onSafe" => thermalSaw <= Safety
  /\ ramAt = "unpause" => ramSaw < MaxRam - RamMargin
  /\ ThermalOnly => /\ ramAt \in {"read", "keep"}
                    /\ ThermalHold => isPaused

LEMMA WatchdogStep ==
  ASSUME TypeOK, WatchdogInv, [Next]_vars
  PROVE  WatchdogInv'
<1> USE DEF WatchdogInv, ThermalOnly, ThermalHold, Critical, MaxRam, Safety
<1>1. CASE HardwareChange
  BY <1>1 DEF HardwareChange, thermalVars, ramVars
<1>2. CASE ReadTemperature
  BY <1>2 DEF ReadTemperature, ramVars
<1>3. CASE Callback
  BY <1>3 DEF Callback, TypeOK, ramVars
<1>4. CASE ReadStats
  BY <1>4 DEF ReadStats, thermalVars
<1>5. CASE StoreFlags
  <2>1. ThermalOnly => isPaused' = isPaused
    BY <1>5 DEF StoreFlags
  <2> QED
    BY <1>5, <2>1 DEF StoreFlags, thermalVars
<1>6. ASSUME NEW w \in Worker, Work(w) PROVE WatchdogInv'
  BY <1>6 DEF Work, ReceiveRecord, PassGate, FinishRecord, thermalVars, ramVars
<1>7. CASE UNCHANGED vars
  BY <1>7 DEF vars, thermalVars, ramVars
<1> QED
  BY <1>1, <1>2, <1>3, <1>4, <1>5, <1>6, <1>7 DEF Next, Thermal, Memory

LEMMA WatchdogHolds == Spec => []WatchdogInv
<1>1. Init => WatchdogInv
  BY DEF Init, WatchdogInv, ThermalHold
<1> QED
  BY <1>1, WatchdogStep, TypeCorrect, PTL DEF Spec

(* As long as no memory threshold is given, the pause that onCritical has  *)
(* stored stands until MonitorThermal has seen a safe temperature, with    *)
(* or without AutoScale.                                                   *)
THEOREM PauseStands == Spec => []PauseHolds
<1>1. WatchdogInv => PauseHolds
  BY DEF WatchdogInv, PauseHolds
<1> QED
  BY <1>1, WatchdogHolds, PTL

(* Hysteresis: whichever monitors are on, the flag falls only by onSafe,   *)
(* after a reading at or below the safety threshold, or by the store of    *)
(* the memory goroutine, after one below its own.                          *)
THEOREM ResumesOnlyWhenSafe == Spec => ResumesWhenSafe
<1> DEFINE Lifted == \/ thermalAt = "onSafe" /\ thermalSaw <= Safety
                     \/ ramAt = "unpause" /\ ramSaw < MaxRam - RamMargin
<1>1. TypeOK /\ WatchdogInv /\ [Next]_vars => [isPaused /\ ~isPaused' => Lifted]_vars
  <2> SUFFICES ASSUME TypeOK, WatchdogInv, [Next]_vars, isPaused, ~isPaused'
               PROVE  Lifted
    OBVIOUS
  <2>1. CASE Callback
    BY <2>1 DEF Callback, WatchdogInv, TypeOK
  <2>2. CASE StoreFlags
    <3>1. ramAt = "unpause"
      BY <2>2 DEF StoreFlags
    <3> QED
      BY <3>1 DEF WatchdogInv
  <2>3. ASSUME NEW w \in Worker, Work(w) PROVE FALSE
    BY <2>3 DEF Work, ReceiveRecord, PassGate, FinishRecord
  <2> QED
    BY <2>1, <2>2, <2>3 DEF Next, Thermal, Memory, HardwareChange, ReadTemperature,
       ReadStats, vars
<1> QED
  BY <1>1, WatchdogHolds, TypeCorrect, PTL DEF Spec, ResumesWhenSafe
=============================================================================
