---------------------------- MODULE MCDraftGraphs ----------------------------
EXTENDS DraftGraphs

Plain == [lens |-> {4}, firsts |-> {}, limit |-> 4, serial |-> FALSE, split |-> FALSE,
          unified |-> FALSE, merged |-> FALSE, precompact |-> FALSE, force |-> FALSE,
          runtime |-> FALSE]
Gamma2 == [Plain EXCEPT !.serial = TRUE, !.firsts = {9, 12}]

MCConfigs ==
    {[Gamma2 EXCEPT !.unified = TRUE], [Gamma2 EXCEPT !.split = TRUE],
     [Gamma2 EXCEPT !.unified = TRUE, !.limit = 3],
     [Plain EXCEPT !.serial = TRUE, !.unified = TRUE, !.precompact = TRUE, !.runtime = TRUE],
     [Plain EXCEPT !.merged = TRUE], [Plain EXCEPT !.force = TRUE, !.firsts = {9, 12}],
     [Plain EXCEPT !.limit = 1], [Plain EXCEPT !.limit = 0, !.runtime = TRUE],
     [Plain EXCEPT !.serial = TRUE, !.unified = TRUE, !.lens = {5}],
     [Plain EXCEPT !.serial = TRUE, !.unified = TRUE, !.lens = {5, 6}]}
MCHostSizes == {1, 2, 4, 8, 16, 24}

\* The settings above are among those the theorems are about.
ASSUME SettingsAssumption == ForcedSizesCaptured /\ SwitchesAgree
=============================================================================
