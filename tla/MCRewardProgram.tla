---------------------------- MODULE MCRewardProgram ----------------------------
EXTENDS RewardProgram, TLC

CONSTANTS n1, aave, generic, dai, silver, silver2, gold

MCMultiplierOf == silver :> 110 @@ silver2 :> 110 @@ gold :> 510
MCMaxPrincipal == aave :> 1 @@ generic :> 2
Symmetry == Permutations({silver, silver2})
MCUnit == [a \in Assets |-> 1]

ASSUME InstanceInScale == MultipliersInScale

(* The multipliers of the six lepton types of presets.Lepton are in scale.    *)
Presets == {110, 130, 150, 180, 230, 510}
ASSUME PresetsInScale ==
    /\ Presets \subseteq LEPTON_MULTIPLIER_SCALE .. 10 * LEPTON_MULTIPLIER_SCALE
    /\ SumSet(Presets) <= 20 * LEPTON_MULTIPLIER_SCALE
================================================================================
