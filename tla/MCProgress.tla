------------------------------ MODULE MCProgress ------------------------------
(***************************************************************************)
(* The throttle, the flags and the pages of a tab in one run, as in MCSite *)
(* but with the fairness that what they promise in the end asks for.       *)
(***************************************************************************)
EXTENDS Throttle, Flags, Pages

VARIABLE part

vars == <<throttle, flags, pages, part>>

T(A) == part = "throttle" /\ A /\ UNCHANGED <<flags, pages, part>>
F(A) == part = "flags"    /\ A /\ UNCHANGED <<throttle, pages, part>>
P(A) == part = "pages"    /\ A /\ UNCHANGED <<throttle, flags, part>>

Init == part \in {"throttle", "flags", "pages"} /\ ThrottleInit /\ FlagsInit /\ PagesInit

Next == T(ThrottleNext) \/ F(FlagsNext) \/ P(PagesNext)

\* A request that has begun goes on to its end; keys and copies get old; Redis
\* comes back, and so does a client that was refused; the effects of a page run.
Fairness ==
  /\ \A q \in Calls : WF_vars(T(Proceed(q))) /\ WF_vars(T(Comes(q)))
  /\ WF_vars(T(WindowEnds)) /\ WF_vars(T(BlockEnds)) /\ WF_vars(T(RedisBack))
  /\ \A a \in Asks : WF_vars(F(Serves(a)))
  /\ \A s \in Servers : WF_vars(F(GrowsOld(s)))
  /\ \A s \in Slots : WF_vars(P(Settle(s)))
  /\ WF_vars(P(\E s \in Slots : Effect(s)))

Spec == Init /\ [][Next]_vars /\ Fairness
=============================================================================
