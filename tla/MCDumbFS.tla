------------------------------- MODULE MCDumbFS -------------------------------
EXTENDS DumbFS, TLC

OneWay == {{"Read"}, {"Write"}}
PathsAlike == Permutations(Paths)
=============================================================================
