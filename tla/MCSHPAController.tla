-------------------------- MODULE MCSHPAController --------------------------
(* Small instances of SHPAController for TLC. *)
EXTENDS SHPARefinement

MCSpec(min, max, dryRun) ==
    [MinReplicas |-> min, MaxReplicas |-> max,
     ScaleUpLimitFactor |-> 50, ScaleDownLimitFactor |-> 20,
     UpscaleForbiddenWindow |-> 1, DownscaleForbiddenWindow |-> 2,
     DryRun |-> dryRun]

\* Two ranges that share only their middle, and the first as a dry run.
MCSpecs == {MCSpec(1, 3, FALSE), MCSpec(2, 4, FALSE), MCSpec(1, 3, TRUE)}
MCOneSpec == {MCSpec(1, 3, FALSE)}
MCDryRun == {MCSpec(1, 3, FALSE), MCSpec(1, 3, TRUE)}
MCRanges == {MCSpec(1, 2, FALSE), MCSpec(3, 3, FALSE)}
\* Windows longer than the retry delay in both directions.
MCSlow == {[MCSpec(1, 3, FALSE) EXCEPT !.UpscaleForbiddenWindow = 2]}
MCRoundsDown == {}
MCProposals == {-1, 2, 5}
=============================================================================
