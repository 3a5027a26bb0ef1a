--------------------------- MODULE MCAdminRuntime ---------------------------
(***************************************************************************)
(* Instances of AdminRuntime for TLC.  Management clients, device          *)
(* connections, device tokens, provider settings and origins are           *)
(* interchangeable; services are not, because CHOOSE picks a fresh one.    *)
(***************************************************************************)
EXTENDS AdminRuntime, TLC

ClientSymmetry ==
    UNION {Permutations(Admins), Permutations(Requests), Permutations(Devices),
           Permutations(Configs), Permutations(Origins)}
=============================================================================
