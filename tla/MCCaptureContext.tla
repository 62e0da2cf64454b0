-------------------------- MODULE MCCaptureContext --------------------------
(* A small instance of CaptureContext: TR-POL, which calls its caller's     *)
(* code, at both levels, and TR-SCA at the second only; a run attempts      *)
(* Level 0, or Levels 0 and 1.                                              *)
EXTENDS CaptureContext

MCPlans == {<<<<0, "TR-POL">>>>,
            <<<<0, "TR-POL">>, <<1, "TR-POL">>, <<1, "TR-SCA">>>>}

MCPublicPlan == <<"TR-POL">>

MCPilots == {"TR-POL", "TR-SCA"}

MCCalling == {"TR-POL"}
=============================================================================
