----------------------- MODULE TimeProportionalOutput -----------------------
(***************************************************************************)
(* Slow PWM for an on/off valve: src/control/TimeProportionalOutput.cpp.   *)
(* The object is a record; each operator is one member function and        *)
(* returns the object after the call.  Demand is given as its share of one *)
(* cycle (demand * cycleMs), so the arithmetic is on whole time units; the *)
(* rounding of the float credit to a whole millisecond is left out.        *)
(* elapsed is now - cycleStartMs, kept by the clock of the module that uses *)
(* the object and read only while a cycle is started.                      *)
(***************************************************************************)
EXTENDS Integers

\* The object between two calls.
Tpo == [cycle: Nat, travel: Nat, started: BOOLEAN, elapsed: Nat,
        openMs: Nat, credit: Int, open: BOOLEAN]

\* timingValid(): a cycle fits four full strokes of the valve.
TimingValid(cycle, travel) == cycle > 0 /\ cycle >= 4 * travel

\* A cycle that starts now, open for on of it, with credit left for the next.
Latched(t, on, credit) == [t EXCEPT !.started = TRUE, !.elapsed = 0, !.openMs = on,
                                    !.credit = credit]

Reset(t) == [Latched(t, 0, 0) EXCEPT !.started = FALSE, !.open = FALSE]

NewTpo(cycle, travel) == [cycle |-> cycle, travel |-> travel, started |-> FALSE,
                          elapsed |-> 0, openMs |-> 0, credit |-> 0, open |-> FALSE]

\* setTiming() resets the cycle whether or not the timing changed.
SetTiming(t, cycle, travel) == [Reset(t) EXCEPT !.cycle = cycle, !.travel = travel]

\* The credit a cycle has to spend: never more than the cycle can deliver.
Banked(t, share) == IF t.credit + share > t.cycle THEN t.cycle ELSE t.credit + share

SnappedBelowOnly(t, bank) == IF bank < t.travel THEN 0 ELSE bank   \* mutant: no upper rail

\* Dwell snapping: nothing below one stroke, everything within a stroke of the end.
Snapped(t, bank) == IF bank < t.travel THEN 0
                    ELSE IF t.cycle - bank < t.travel THEN t.cycle
                    ELSE bank

CarriedNothing(t, balance) == 0   \* mutant: the remainder dropped

\* The debt a snapped-up cycle leaves, floored at one cycle.
Carried(t, balance) == IF balance < 0 - t.cycle THEN 0 - t.cycle ELSE balance

BeginCycle(t, share) ==
    LET bank == Banked(t, share)
        on   == Snapped(t, bank)
    IN  IF share = 0 THEN Latched(t, 0, 0) ELSE Latched(t, on, Carried(t, bank - on))

CycleDueAlways(t) == TRUE       \* mutant: a cycle begins at every tick

\* update(): the demand is sampled only where a cycle begins.
CycleDue(t) == ~t.started \/ t.elapsed >= t.cycle

Update(t, share) ==
    LET u == IF CycleDue(t) THEN BeginCycle(t, share) ELSE t
    IN  [u EXCEPT !.open = u.elapsed < u.openMs]
=============================================================================
