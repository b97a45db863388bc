---------------------------- MODULE MCLiveCounter ---------------------------
(* Instances of LiveCounter for TLC.                                         *)
EXTENDS LiveCounter, TLC, Functions

\* Sound where no liveness property is checked.
Symmetry == Permutations(Calls) \union Permutations(Instances)

\* No copy looks at a stamp, so that it is enough to let copies get old where all
\* clocks read 1, and the readings differ among fresh copies.
ReadingsAgree == latest <= 1 /\ \A c \in Calls : call[c].count.asOf <= 1
NothingIsOld  == /\ \A n \in 0..MaxAdjusts : replaced[n] = 0
                 /\ \A copy \in {redis} \union Range(local) : copy # Gone => copy.age = 0
EitherVaries == ReadingsAgree' \/ NothingIsOld'
=============================================================================
