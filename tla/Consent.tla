------------------------------- MODULE Consent -------------------------------
(***************************************************************************)
(* What the two parties of a case answer beside their statements: whether  *)
(* it may be published (CasesService.setPublicationConsent), and how fair  *)
(* it was (rateFairness), another column of the same rows.                 *)
(*                                                                         *)
(* A request writes the party's answer, reads both parties' and replies,   *)
(* and others run between the statements. Bounds: two requests at a time,  *)
(* MaxCuts of them cut short. ReadFirst is a plausible mistake in the      *)
(* definition that follows it; only the mutation runs use it.              *)
(***************************************************************************)
EXTENDS Integers, FiniteSets

CONSTANTS Parties,      \* the members who are a party to the case
          Members,      \* who ask, parties or not
          Answers,      \* requests under way
          MaxCuts

ASSUME ConsentAssumption == Cardinality(Parties) = 2 /\ Parties \subseteq Members

VARIABLES party,     \* the row of each party
          answering, \* the requests
          told,      \* a party was told that both consent, and both still do
          cuts

consent == <<party, answering, told, cuts>>

NoRating  == 0
Ratings   == 1..5
Unanswered == [by |-> "nobody", wants |-> FALSE, at |-> "none", both |-> FALSE]

ConsentTypeOK ==
  /\ party \in [Parties -> [publication : BOOLEAN, rating : Ratings \union {NoRating}]]
  /\ answering \in [Answers -> [by : Members \union {"nobody"}, wants : BOOLEAN,
                                at : {"none", "write", "read", "reply"}, both : BOOLEAN]]
  /\ told \in BOOLEAN /\ cuts \in 0..MaxCuts

ConsentInit ==
  /\ party = [p \in Parties |-> [publication |-> FALSE, rating |-> NoRating]]
  /\ answering = [a \in Answers |-> Unanswered]
  /\ told = FALSE /\ cuts = 0

BothConsent == \A p \in Parties : party[p].publication

\* The statements of setPublicationConsent after requireParty, in their order.
ReadFirst == <<"read", "write", "reply">>
ConsentSteps == <<"write", "read", "reply">>

StepAfter(step) == CHOOSE next \in {"write", "read", "reply", "none"} :
  \E i \in 1..3 : ConsentSteps[i] = step /\ next = IF i = 3 THEN "none" ELSE ConsentSteps[i + 1]

GoesOn(a, q) == answering' =
  [answering EXCEPT ![a] = IF StepAfter(q.at) = "none" THEN Unanswered
                           ELSE [q EXCEPT !.at = StepAfter(q.at)]]

\* requireParty refuses whoever is not a party.
AskToPublish(a, u, wants) ==
  /\ answering[a] = Unanswered /\ u \in Parties
  /\ answering' = [answering EXCEPT ![a] = [by |-> u, wants |-> wants,
                                            at |-> ConsentSteps[1], both |-> FALSE]]
  /\ UNCHANGED <<party, told, cuts>>

WriteConsent(a) ==
  LET q == answering[a] IN
  /\ q.at = "write"
  /\ party' = [party EXCEPT ![q.by].publication = q.wants]
  /\ told' = (told /\ q.wants)
  /\ GoesOn(a, q)
  /\ UNCHANGED cuts

ReadConsents(a) ==
  LET q == answering[a] IN
  /\ q.at = "read"
  /\ GoesOn(a, [q EXCEPT !.both = BothConsent])
  /\ UNCHANGED <<party, told, cuts>>

TellConsents(a) ==
  LET q == answering[a] IN
  /\ q.at = "reply"
  /\ told' = (told \/ (q.both /\ BothConsent))
  /\ GoesOn(a, q)
  /\ UNCHANGED <<party, cuts>>

\* A statement fails, or the process stops.
CutShort(a) ==
  /\ answering[a] # Unanswered
  /\ cuts < MaxCuts /\ cuts' = cuts + 1
  /\ answering' = [answering EXCEPT ![a] = Unanswered]
  /\ UNCHANGED <<party, told>>

-----------------------------------------------------------------------------
(* rateFairness                                                              *)

Clamped(rating) == IF rating < 1 THEN 1 ELSE IF rating > 5 THEN 5 ELSE rating

\* The rating comes as any number; one that is none is refused by the database.
RateFairness(u, rating) ==
  /\ u \in Parties
  /\ party' = [party EXCEPT ![u].rating = Clamped(rating)]
  /\ UNCHANGED <<answering, told, cuts>>

ConsentNext ==
  \/ \E a \in Answers :
       \/ \E u \in Members, wants \in BOOLEAN : AskToPublish(a, u, wants)
       \/ WriteConsent(a) \/ ReadConsents(a) \/ TellConsents(a) \/ CutShort(a)
  \/ \E u \in Members, rating \in {-1, 9} : RateFairness(u, rating)

ConsentSpec == ConsentInit /\ [][ConsentNext]_consent

-----------------------------------------------------------------------------
(* Properties                                                                *)

\* D-6: when both parties consent to publication and nobody is answering any
\* more, one of them was told so, however their two answers overlapped: whoever
\* writes last reads what the other wrote. Only a request cut short may leave
\* both believing that the other has not answered yet.
LastToConsentIsTold ==
  BothConsent /\ (\A a \in Answers : answering[a] = Unanswered) => told \/ cuts > 0
=============================================================================
