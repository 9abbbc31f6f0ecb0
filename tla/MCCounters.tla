----------------------------- MODULE MCCounters -----------------------------
(***************************************************************************)
(* Counters of two bytes of four values each, small enough for the clock   *)
(* to wrap and for both bytes to change while a program reads them.  The   *)
(* machine runs one of two programs: the one with polite handlers, or the  *)
(* one with handlers that latch.                                           *)
(***************************************************************************)
EXTENDS SharedLatches

VARIABLE latching   \* which of the two programs

MCTimes == {[sec |-> 0, nsec |-> 2], [sec |-> 3, nsec |-> 1]}

mcVars == <<vars, sharedVars, latching>>

MCInit == Init /\ SharedInit /\ latching \in BOOLEAN

(* The bound: with handlers that latch, the time cannot be read.           *)
NoClock == Latched'[WALLCLOCK_TIME] \in {0, CounterMod - 1}

MCNext ==
    /\ UNCHANGED latching
    /\ \/ ~latching /\ Next /\ UNCHANGED <<reader, handlers, samples>>
       \/ latching /\ SharedNext /\ NoClock /\ UNCHANGED <<main, values, handler, instant>>

MCSpec == MCInit /\ [][MCNext]_mcVars
=============================================================================
