----------------------------- MODULE DutyCycle -----------------------------
(***************************************************************************)
(* One TimeProportionalOutput driven as its tests drive it: the timing is  *)
(* set once and update() is called on a tick that may come late.  A demand *)
(* is held for a window of cycles; owed is what the window has asked for   *)
(* and not been given, in units of open time (a history variable).         *)
(***************************************************************************)
EXTENDS TimeProportionalOutput

CONSTANTS CycleMs,    \* cycleMs
          TravelMs,   \* travelMs, one stroke of the valve
          MaxStep     \* the longest time between two calls of update()

ASSUME TimingAssumption ==
    /\ CycleMs \in Nat
    /\ TravelMs \in Nat \ {0}
    /\ TimingValid(CycleMs, TravelMs)
    /\ MaxStep \in Nat \ {0}

VARIABLES duty,    \* the object
          held,    \* the demand in force, as a share of the cycle
          fresh,   \* no cycle has begun since held last changed
          owed,    \* asked minus delivered since then
          openFor  \* how long the current cycle has really been open

dutyVars == <<duty, held, fresh, owed, openFor>>

Demands == 0 .. CycleMs

DutyInit ==
    /\ duty = NewTpo(CycleMs, TravelMs)
    /\ held \in Demands
    /\ fresh = TRUE
    /\ owed = 0
    /\ openFor = 0

\* The caller starts to ask for something else, at any point of a cycle.
Demand == \E s \in Demands \ {held} :
              /\ held' = s
              /\ fresh' = TRUE
              /\ owed' = 0
              /\ UNCHANGED <<duty, openFor>>

\* One call of update(), dt after the previous one.  A fresh object is called at once.
Tick == \E dt \in 1 .. MaxStep :
            LET seen == [duty EXCEPT !.elapsed = @ + dt]
                next == Update(seen, held)
            IN  /\ duty' = next
                /\ held' = held
                /\ IF CycleDue(seen)
                   THEN /\ owed' = owed + held - next.openMs
                        /\ fresh' = FALSE
                        /\ openFor' = 0
                   ELSE /\ openFor' = IF duty.open THEN openFor + dt ELSE openFor
                        /\ UNCHANGED <<owed, fresh>>

\* suspension of the heating: reset() forgets the cycle and closes.
Forget == /\ duty.started
          /\ duty' = Reset(duty)
          /\ fresh' = TRUE
          /\ owed' = 0
          /\ openFor' = 0
          /\ held' = held

DutyNext == Demand \/ Tick \/ Forget

DutySpec == DutyInit /\ [][DutyNext]_dutyVars
-----------------------------------------------------------------------------
DutyTypeOK ==
    /\ duty \in Tpo
    /\ duty.cycle = CycleMs /\ duty.travel = TravelMs
    /\ duty.elapsed < CycleMs + MaxStep
    /\ held \in Demands
    /\ fresh \in BOOLEAN
    /\ owed \in Int
    /\ openFor \in Nat

\* Every open interval and every closed interval of a cycle is a full stroke or
\* nothing: the valve is never asked for a stroke it cannot finish (beginCycle()).
FullStrokes == /\ duty.openMs = 0 \/ duty.openMs >= TravelMs
               /\ CycleMs - duty.openMs = 0 \/ CycleMs - duty.openMs >= TravelMs

\* What is carried to the next cycle is less than one stroke, owed or owing: the
\* floor of beginCycle() at a whole cycle is never reached.
CreditBelowStroke == 0 - TravelMs < duty.credit /\ duty.credit < TravelMs

\* However long a demand is held and whatever was banked before it, the open time
\* delivered stays within two strokes of what was asked: no duty collapses to
\* zero and none runs away (credit carried between cycles by beginCycle()).
AverageTracksDemand == 0 - 2 * TravelMs < owed /\ owed < 2 * TravelMs

\* A cycle that has closed was really open for its latched time, up to the lateness
\* of the tick that ended it (update() compares the elapsed time with openMs).
OpenTimeDelivered ==
    /\ openFor <= duty.openMs + MaxStep - 1
    /\ duty.started /\ ~duty.open => openFor >= duty.openMs

\* Once a cycle has begun, its duty changes only where the next one begins, at
\* least a cycle later, or through reset(): a new demand waits (latching in update()).
DutyLatched == [][duty'.openMs # duty.openMs =>
                    \/ ~duty.started
                    \/ ~duty'.started
                    \/ duty'.elapsed = 0 /\ duty.elapsed + MaxStep >= CycleMs]_dutyVars

\* The inductive invariant behind them.  While a demand is held, what the cycles owe
\* and the credit move together; only the first cycle under a new demand can be
\* capped at the rail, and then by less than a stroke.
CreditFollowsOwed ==
    /\ fresh => owed = 0
    /\ ~fresh => duty.credit + held <= CycleMs /\ (held = 0 => duty.credit = 0)
    /\ 0 - TravelMs < owed - duty.credit /\ owed - duty.credit < TravelMs

OpenTimeCounted ==
    /\ duty.open <=> duty.elapsed < duty.openMs
    /\ duty.open => openFor = duty.elapsed
    /\ duty.openMs <= CycleMs

DutyIInv == DutyTypeOK /\ FullStrokes /\ CreditBelowStroke /\ CreditFollowsOwed
        /\ OpenTimeCounted /\ OpenTimeDelivered
=============================================================================
