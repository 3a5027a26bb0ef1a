-------------------------- MODULE MCDeviceRequests --------------------------
(***************************************************************************)
(* Instances of DeviceRequests for TLC.                                    *)
(***************************************************************************)
EXTENDS DeviceRequests, TLC

Symmetry == Permutations(Requests)

\* What happens after a change has overtaken setup is explored while the clock
\* stands at 0.
OvertakenEarly == overtaken => now = 0
=============================================================================
