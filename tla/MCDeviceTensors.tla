--------------------------- MODULE MCDeviceTensors ---------------------------
EXTENDS DeviceTensors, TLC
CONSTANTS t1, t2, a1, a2, k1

Upload == [src |-> Host, dst |-> 0, bytes |-> 1, same |-> TRUE]
Move == [src |-> 0, dst |-> 1, bytes |-> 1, same |-> TRUE]
Download == [src |-> 1, dst |-> Host, bytes |-> 1, same |-> TRUE]
Mismatch == [src |-> 0, dst |-> 1, bytes |-> 1, same |-> FALSE]

MCBatches == {<<Upload, Move>>, <<Move, Download>>, <<Move, Mismatch>>}
Symmetric == Permutations({t1, t2}) \cup Permutations({a1, a2})
=============================================================================
