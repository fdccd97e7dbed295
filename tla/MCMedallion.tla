----------------------------- MODULE MCMedallion -----------------------------
EXTENDS Medallion, TLC

\* Two ticks with one dedup key; another with the key of one that has no volume.
CONSTANTS first, second, other, invalid, k1, k2

MCTicks == {first, second, other, invalid}
MCValid == {first, second, other}
MCKeys == {k1, k2}
MCKeyOf == [e \in MCTicks |-> IF e \in {first, second} THEN k1 ELSE k2]
=============================================================================
