--------------------------- MODULE SealedExchange ---------------------------
(***************************************************************************)
(* What the exchange of statements promises the two sides of a case (D-2,  *)
(* D-3), without handlers, awaits, stages of a case or moderators: in each *)
(* round both sides write under seal, both seals are broken in one step    *)
(* and after both have written, nothing is written to a round whose seals  *)
(* are broken, and nobody reads the other's words without having written   *)
(* their own. PathCase is shown to implement it.                           *)
(***************************************************************************)
CONSTANTS Users,   \* whoever may take a side
          Stages   \* the rounds

VARIABLES said,    \* what was written, sealed or not
          opened,  \* what had its seal broken
          heard    \* what each user has read of the other side's

vars == <<said, opened, heard>>

Words == [party : Users, stage : Stages]
Of(s) == {w \in said : w.stage = s}

Init == said = {} /\ opened = {} /\ heard = [u \in Users |-> {}]

\* No third side is ever heard of, in any round.
TwoSides(S) == \E x, y \in Users : \A w \in S : w.party \in {x, y}

Write == \E w \in Words \ said :
           /\ said' = said \union {w}
           /\ \A o \in opened : o.stage # w.stage
           /\ TwoSides(said')
           /\ UNCHANGED <<opened, heard>>

Open == \E s \in Stages :
          /\ opened' = opened \union Of(s)
          /\ \E x, y \in Of(s) : x.party # y.party
          /\ UNCHANGED <<said, heard>>

\* One reading shows every opened round, and needs words of one's own in each.
Read == \E u \in Users :
          /\ heard' = [heard EXCEPT ![u] = @ \union {o \in opened : o.party # u}]
          /\ \A o \in opened : [party |-> u, stage |-> o.stage] \in said
          /\ UNCHANGED <<said, opened>>

Next == Write \/ Open \/ Read

Spec == Init /\ [][Next]_vars
=============================================================================
