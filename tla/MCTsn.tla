-------------------------------- MODULE MCTsn --------------------------------
(* A word of 8 and seconds of 4 ns: every carry and cut happens.           *)
EXTENDS Tsn, TLC

MCClock == {<<2, 0>>, <<2, 3>>}
MCOffsets == {<<0, 0>>, <<1, 2>>, <<0, 9>>, <<0, -1>>, <<-1, -9>>}
Symmetry == Permutations(Procs)
=============================================================================
