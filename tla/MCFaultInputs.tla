--------------------------- MODULE MCFaultInputs ---------------------------
(***************************************************************************)
(* One run for two kinds of inputs to the fault manager: overload, stalled  *)
(* frames and encoder bursts, or the bus, the operator and the policy.  A   *)
(* behaviour may change from one kind to the other once the traces of the   *)
(* first are cleared; OneKindOfInput, the run's constraint, leaves out the  *)
(* states where both are present.  The task, the interrupt's trip and the   *)
(* clear go with either.  The constraint blocks no fair step: the task only  *)
(* crosses it by sensing a stalled frame or a burst, and may sense none.    *)
(***************************************************************************)
EXTENDS MCFaultManager

\* Some code of S is active, latched, injected or about to be raised.
Traces(S) ==
    \/ S \cap (active \cup latched \cup injected) # {}
    \/ pc \in RaiseLabels /\ arg \in S

SignalsMoved ==
    slowOver # {} \/ adc_stall_cnt > 0 \/ Traces(SlowCodes \cup {AdcTimeout, EncRead})

OperatorMoved ==
    bus # "normal" \/ policy # DesignPolicy \/ ~actions_en \/ Traces({VbusOv, VbusUv})

OneKindOfInput == ~(SignalsMoved /\ OperatorMoved)
=============================================================================
