-------------------------------- MODULE MCHalt --------------------------------
(***************************************************************************)
(* The pipeline halted and resumed from either side: in one half of the     *)
(* behaviours a debugger is attached and the buttons are left alone, in the *)
(* other somebody presses the buttons in any pattern, both together too.    *)
(***************************************************************************)
EXTENDS MCPipeline

VARIABLE controls

HaltInit == Init /\ controls \in {"debugger", "buttons"}
HaltNext ==
  /\ \E b \in SUBSET Buttons, i_grant, d_grant \in BOOLEAN : Clock(b, i_grant, d_grant)
                                                             /\ (controls = "debugger" => b = {})
  /\ controls = "buttons" => cmd' = "none"
  /\ UNCHANGED controls

HaltSpec == HaltInit /\ [][HaltNext]_<<vars, controls>> /\ Fairness
=============================================================================
