------------------------------ MODULE MCBoard ------------------------------
(***************************************************************************)
(* The builds that exist: stage 2 on a crystal, on either vendor's chip,   *)
(* and without one on a GD32; applications at the speeds of mcuSelect.     *)
(* The delay is 3 ticks and the LEDs change every 2.                       *)
(***************************************************************************)
EXTENDS Board

Build(crystal, gd, external, speed) ==
  [crystal |-> crystal, gd |-> gd, external |-> external, speed |-> speed]
MCBuilds ==
  {Build(TRUE, FALSE, TRUE, 72), Build(TRUE, TRUE, TRUE, 96), Build(FALSE, TRUE, FALSE, 96),
   Build(TRUE, TRUE, TRUE, 72)}

\* The hypothesis of BoardProofs' SettingsAlwaysFit holds of these builds.
ASSUME ExactSpeeds
=============================================================================
