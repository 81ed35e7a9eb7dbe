----------------------------- MODULE Thermostat -----------------------------
(***************************************************************************)
(* The thermostat of chap6/thermo_control.rs: three futures that poll all    *)
(* the time and share the atomics TEMP and HEAT_ON.  The display decides     *)
(* whether the heater is on, the heater warms by 3 after every Period in     *)
(* which it was on, and heat loss cools by 1 after more than a Period.       *)
(*                                                                          *)
(* Time goes in ticks of a fraction of the three seconds.  The futures wake  *)
(* themselves in every poll, so each is polled between two ticks; the loads  *)
(* and stores of two polls may still fall between each other.  A decision of  *)
(* the display is thus up to two ticks late: Period has to be longer.        *)
(***************************************************************************)
EXTENDS Integers

CONSTANTS
    Start, Desired,     \* the initial values of TEMP and DESIRED_TEMP
    Period              \* three seconds, in ticks

VARIABLES
    temp, heatOn,   \* TEMP and HEAT_ON
    snap,           \* temp_snapshot of the display
    dpc, seen,      \* the display's poll, and the temperature it has loaded
    hpc,            \* the heater's poll
    heaterAge, lossAge, \* ticks since their time_snapshot
    polled          \* futures polled since the last tick

vars == <<temp, heatOn, snap, dpc, seen, hpc, heaterAge, lossAge, polled>>

Init ==
    /\ temp = Start /\ heatOn = FALSE
    /\ snap = Start /\ dpc = "load" /\ seen = Start
    /\ hpc = "check" /\ heaterAge = 0 /\ lossAge = 0
    /\ polled = {}

-----------------------------------------------------------------------------
DisplayLoad ==
    /\ dpc = "load"
    /\ seen' = temp
    /\ dpc' = "decide"
    /\ UNCHANGED <<temp, heatOn, snap, hpc, heaterAge, lossAge, polled>>

\* Mutant: the temperature of the last poll is compared.
SwitchOnSnapshot ==
    IF seen = snap THEN heatOn
    ELSE IF snap < Desired THEN TRUE ELSE IF snap > Desired THEN FALSE ELSE heatOn

\* Nothing is decided until the temperature differs from the last poll's; at the
\* desired temperature the heater stays as it is.
Switch ==
    IF seen = snap THEN heatOn
    ELSE IF seen < Desired THEN TRUE ELSE IF seen > Desired THEN FALSE ELSE heatOn

DisplayDecide ==
    /\ dpc = "decide"
    /\ heatOn' = Switch
    /\ snap' = seen
    /\ dpc' = "load" /\ polled' = polled \cup {"display"}
    /\ UNCHANGED <<temp, seen, hpc, heaterAge, lossAge>>

\* An idle heater counts no time.
HeaterIdle ==
    /\ hpc = "check" /\ ~heatOn
    /\ heaterAge' = 0 /\ polled' = polled \cup {"heater"}
    /\ UNCHANGED <<temp, heatOn, snap, dpc, seen, hpc, lossAge>>

HeaterCheck ==
    /\ hpc = "check" /\ heatOn
    /\ hpc' = IF heaterAge < Period THEN "check" ELSE "warm"
    /\ polled' = IF heaterAge < Period THEN polled \cup {"heater"} ELSE polled
    /\ UNCHANGED <<temp, heatOn, snap, dpc, seen, heaterAge, lossAge>>

HeaterWarm ==
    /\ hpc = "warm"
    /\ temp' = temp + 3
    /\ heaterAge' = 0
    /\ hpc' = "check" /\ polled' = polled \cup {"heater"}
    /\ UNCHANGED <<heatOn, snap, dpc, seen, lossAge>>

HeatLoss ==
    /\ temp' = IF lossAge > Period THEN temp - 1 ELSE temp
    /\ lossAge' = IF lossAge > Period THEN 0 ELSE lossAge
    /\ polled' = polled \cup {"loss"}
    /\ UNCHANGED <<heatOn, snap, dpc, seen, hpc, heaterAge>>

\* Time_snapshots are never read once they are more than a Period old.
Tick ==
    /\ polled = {"display", "heater", "loss"}
    /\ heaterAge' = IF heaterAge <= Period THEN heaterAge + 1 ELSE heaterAge
    /\ lossAge' = IF lossAge <= Period THEN lossAge + 1 ELSE lossAge
    /\ polled' = {}
    /\ UNCHANGED <<temp, heatOn, snap, dpc, seen, hpc>>

-----------------------------------------------------------------------------
Display == DisplayLoad \/ DisplayDecide
Heater == HeaterIdle \/ HeaterCheck \/ HeaterWarm

Next == Display \/ Heater \/ HeatLoss \/ Tick

Spec == Init /\ [][Next]_vars

\* tokio polls what has woken itself, and time goes on.
FairSpec == Spec /\ WF_vars(Display) /\ WF_vars(Heater) /\ WF_vars(HeatLoss) /\ WF_vars(Tick)

-----------------------------------------------------------------------------
(* Properties.                                                             *)

\* The room gets warm, from its first loss of heat on, and then stays so, at most
\* one warming too much and two losses too many, although the display decides on
\* a temperature that may be gone when it stores HEAT_ON, and the heater warms on
\* a HEAT_ON that may have been cleared.  The timers bound the harm, as long as no
\* poll is late by three seconds.
SettlesAtDesired == <>[](temp \in Desired - 2 .. Desired + 3)
=============================================================================
