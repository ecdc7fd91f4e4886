------------------------ MODULE MCSetupTransaction ------------------------
EXTENDS SetupTransaction, TLC
CONSTANTS s1, s2
MCOne == {s1}
MCTwo == {s1, s2}
MCVersions == {1, 2}
MCAll == Actions \X Versions
MCSome == {<<"Install", 1>>, <<"Upgrade", 2>>, <<"Repair", 1>>, <<"Reinstall", 1>>}
MCSymmetry == Permutations(Setups)

\* Either one Setup, with a throw and an update, or several of them, with Cadence, with neither.
MCScope ==
  \/ \E s \in Setups : \A r \in Setups \ {s} :
       pc[r] = "none" /\ ~dir[r] /\ stash[r] = "absent" /\ shot[r] = None /\ saved[r] = None
  \/ /\ faults = 0 /\ updates = 0 /\ ~skip
     /\ \A s \in Setups : target[s] # None => <<action[s], target[s]>> \in MCSome
=============================================================================
