------------------------------ MODULE Counters ------------------------------
(***************************************************************************)
(* The running counters of the Counter peripheral as the processor drives  *)
(* them: what a reader of the counters may rely on, without the processor. *)
(***************************************************************************)
EXTENDS Naturals

CONSTANT CounterMod    \* the counters count modulo this; 2^64 in the program

Events == {"CpuInstructions", "IrqEvents", "NmiEvents"}
CounterFields == {"ClockCycles"} \cup Events

VARIABLE Counter

CountersInit == Counter = [f \in CounterFields |-> 0]

(* One event, and the cycles it took.                                      *)
Advance(event, cycles) ==
    Counter' = [Counter EXCEPT ![event] = (@ + 1) % CounterMod,
                               !.ClockCycles = (@ + cycles) % CounterMod]

(* An interrupt takes seven cycles, an instruction at most eight.          *)
Tick ==
    \/ \E cycles \in 0..8 : Advance("CpuInstructions", cycles)
    \/ \E event \in {"IrqEvents", "NmiEvents"} : Advance(event, 7)

CountersSpec == CountersInit /\ [][Tick]_Counter
=============================================================================
