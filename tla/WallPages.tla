------------------------------ MODULE WallPages ------------------------------
(***************************************************************************)
(* The Wall of Voices as it is read: the window of the newest voices,      *)
(* shuffled by a seed the reader gets for the day and cut into pages       *)
(* (VoiceService.wall), and the web page of the Wall, rendered on the      *)
(* server, kept by its cache, and added to by the announcements of voices  *)
(* that arrive while it is open.                                           *)
(*                                                                         *)
(* The reader is a client that pages through the API, or one that has the  *)
(* page open; what only the other would see, announcements and the page    *)
(* rendered anew, is left out while one pages through the API.             *)
(*                                                                         *)
(* Bounds: a window of Window voices (500 in the code), pages of Page,     *)
(* Kept arrivals (30), random numbers of which there are Grain (2^32).     *)
(* OneShort is a plausible mistake in the definition that follows it; only *)
(* the mutation runs use it.                                               *)
(***************************************************************************)
EXTENDS Integers, Sequences, FiniteSets, Functions

CONSTANTS Voices, Window, Page, Kept, Grain

ASSUME WallPagesAssumption ==
  /\ Window \in Nat \ {0} /\ Page \in 1..Window /\ Kept \in Nat \ {0}
  /\ Grain \in Nat /\ Grain >= Window

VARIABLES order,     \* the published voices, newest first
          gone,      \* the voices that were withdrawn
          due,       \* published, not yet announced
          seed,      \* what the reader's random numbers are drawn from today
          reader,    \* how far a client of the API has read
          cache,     \* the voices on the page as the web server keeps it
          viewed     \* the open page

wallpages == <<order, gone, due, seed, reader, cache, viewed>>

Smaller(m, n) == IF m < n THEN m ELSE n

-----------------------------------------------------------------------------
(* seededShuffle                                                             *)

\* A random number is one of Grain values, evenly spread over [0, 1), and taken
\* to be as likely as any other whatever was drawn before.
Draws == 0..Grain - 1
Seeds == [1..Window - 1 -> Draws]
Unseeded == [k \in 1..Window - 1 |-> 0]

\* The index a draw picks among 0..i.
OneShort(draw, i) == (draw * i) \div Grain
Pick(draw, i) == (draw * (i + 1)) \div Grain

Swap(s, i, j) == [s EXCEPT ![i] = s[j], ![j] = s[i]]

\* The last element first: it changes places with one up to it, then the one
\* before it does, until the first is left: n - 1 times among n.
Rounds(n) == IF n = 0 THEN 0 ELSE n - 1

Arrange(items, places) ==
  LET n == Len(items)
      after[k \in 0..Rounds(n)] ==
        IF k = 0 THEN items ELSE Swap(after[k - 1], n - k + 1, places[k] + 1)
  IN after[Rounds(n)]

Shuffle(items, draws) ==
  Arrange(items, [k \in 1..Rounds(Len(items)) |-> Pick(draws[k], Len(items) - k)])

-----------------------------------------------------------------------------
(* VoiceService.wall and the controller before it                            *)

\* What the database is asked for: as many of the newest as reach to the page.
Recent(offset) == SubSeq(order, 1, Smaller(Len(order), Smaller(offset + Page, Window)))

Cut(s, offset) == SubSeq(s, offset + 1, Smaller(Len(s), offset + Page))

Items(offset, s) == Cut(Shuffle(Recent(offset), s), offset)

\* Voices by what their author chose: the mode, and whether a country was given.
Authors == [mode : {"NAME", "FIRST_NAME", "ANONYMOUS"}, country : BOOLEAN]

\* attributionFor: its kind, and what its value tells: the name, the first (given)
\* name, or the country.
Attribution(c) ==
  CASE c.mode = "NAME"       -> [kind |-> "name", tells |-> {"name"}]
    [] c.mode = "FIRST_NAME" -> [kind |-> "firstName", tells |-> {"given"}]
    [] OTHER -> IF c.country THEN [kind |-> "anonymousFromCountry", tells |-> {"country"}]
                ELSE [kind |-> "anonymous", tells |-> {}]

ToPublicVoice(c) == [attribution |-> Attribution(c), country |-> c.country]

\* The place after the attribution, which is the place itself when it is anonymous.
Beside(p) == IF p.country /\ p.attribution.kind # "anonymousFromCountry" THEN {"country"} ELSE {}

\* What a card of the Wall tells of the author, and a card that arrives above it.
VoiceCard(p) ==
  Beside(p) \union CASE p.attribution.kind \in {"name", "firstName"} -> p.attribution.tells
                     [] p.attribution.kind = "anonymousFromCountry" -> {"country"}
                     [] OTHER -> {}
ArrivedCard(p) ==
  Beside(p) \union IF p.attribution.kind = "anonymousFromCountry" THEN {"country"}
                  ELSE p.attribution.tells

\* A full page promises another one.
NextOffset(offset, items) == IF Cardinality(items) = Page THEN offset + Page ELSE -1

FromTheTop == [seen |-> {}, next |-> 0, repeats |-> FALSE, still |-> TRUE]
NoTab == [open |-> FALSE, served |-> {}, arrived |-> <<>>]

WallPagesTypeOK ==
  /\ Range(order) \subseteq Voices /\ IsInjective(order)
  /\ gone \subseteq Voices \ Range(order) /\ due \subseteq Voices
  /\ seed \in Seeds
  /\ reader \in [seen : SUBSET Voices, next : -1..Cardinality(Voices) + Page,
                 repeats : BOOLEAN, still : BOOLEAN]
  /\ cache \subseteq Voices
  /\ viewed.open \in BOOLEAN /\ viewed.served \subseteq Voices /\ Len(viewed.arrived) \in 0..Kept

WallPagesInit ==
  /\ order = <<>> /\ gone = {} /\ due = {} /\ cache = {}
  /\ seed = Unseeded /\ reader = FromTheTop /\ viewed = NoTab

\* The reader's pages are of one Wall only as long as nothing happens to it.
Disturbed == IF reader = FromTheTop THEN reader ELSE [reader EXCEPT !.still = FALSE]

\* A voice without media; the count and the announcement come after it.
Publish(v) ==
  /\ v \notin Range(order) \union gone
  /\ order' = <<v>> \o order
  /\ due' = IF reader = FromTheTop THEN due \union {v} ELSE due
  /\ reader' = Disturbed
  /\ UNCHANGED <<gone, seed, cache, viewed>>

Withdraw(v) ==
  /\ \E k \in DOMAIN order :
       /\ order[k] = v
       /\ order' = SubSeq(order, 1, k - 1) \o SubSeq(order, k + 1, Len(order))
  /\ gone' = gone \union {v} /\ reader' = Disturbed
  /\ UNCHANGED <<due, seed, cache, viewed>>

\* displaySeed: the same for a reader on one day.
ReadPage(s) ==
  LET items == Range(Items(reader.next, s)) IN
  /\ ~ viewed.open /\ reader.next >= 0
  /\ IF reader = FromTheTop THEN due = {} /\ cache = {} ELSE s = seed
  /\ seed' = s
  /\ reader' = [reader EXCEPT !.seen = @ \union items, !.next = NextOffset(@, items),
                              !.repeats = @ \/ items \intersect reader.seen # {}]
  /\ UNCHANGED <<order, gone, due, cache, viewed>>

\* Another day: another order, and the reader begins again.
NewDay ==
  /\ reader # FromTheTop
  /\ seed' = Unseeded /\ reader' = FromTheTop
  /\ UNCHANGED <<order, gone, due, cache, viewed>>

-----------------------------------------------------------------------------
(* The page                                                                  *)

\* What fetchVoices may return: nothing, when the API does not answer.
FetchVoices == {Range(Items(0, seed)), {}}

\* The page is kept as it was rendered.
Render ==
  /\ reader = FromTheTop
  /\ cache' \in FetchVoices
  /\ UNCHANGED <<order, gone, due, seed, reader, viewed>>

\* LiveWall is not there on an empty Wall.
LiveWall(t) == t.open /\ t.served # {}

\* The newest first, and no more than are kept.
Arrived(t, v) == [t EXCEPT !.arrived = SubSeq(<<v>> \o @, 1, Smaller(Kept, Len(@) + 1))]

OpenWall ==
  /\ ~ viewed.open /\ reader = FromTheTop
  /\ viewed' = [NoTab EXCEPT !.open = TRUE, !.served = cache]
  /\ UNCHANGED <<order, gone, due, seed, reader, cache>>

CloseWall ==
  /\ viewed.open /\ viewed' = NoTab
  /\ UNCHANGED <<order, gone, due, seed, reader, cache>>

\* The end of submit: the row is read again, whatever has happened to it since.
Announce(v) ==
  /\ v \in due /\ due' = due \ {v}
  /\ viewed' = IF LiveWall(viewed) THEN Arrived(viewed, v) ELSE viewed
  /\ UNCHANGED <<order, gone, seed, reader, cache>>

WallPagesNext ==
  \/ \E v \in Voices : Publish(v) \/ Withdraw(v) \/ Announce(v)
  \/ (\E s \in Seeds : ReadPage(s)) \/ NewDay \/ Render \/ OpenWall \/ CloseWall

-----------------------------------------------------------------------------
(* Properties                                                                *)

\* What may be chosen for a list of n: in round k one of the first n - k + 1
\* places, counted from 0.
Choices(n) == {p \in [1..Rounds(n) -> 0..n - 1] : \A k \in 1..Rounds(n) : p[k] <= n - k}

Orders(items) == Bijection(1..Len(items), Range(items))

\* Of the draws as many pick one place as another, but for one draw.
EvenDraws ==
  \A i \in 0..Window - 1 :
    /\ \A d \in Draws : Pick(d, i) \in 0..i
    /\ \A j \in 0..i :
         Cardinality({d \in Draws : Pick(d, i) = j}) - Grain \div (i + 1) \in {0, 1}

OneOrderEach(items) ==
  LET places == Choices(Len(items))
  IN [p \in places |-> Arrange(items, p)] \in Bijection(places, Orders(items))

SameOnEveryCard ==
  \A c \in Authors :
    LET card == VoiceCard(ToPublicVoice(c)) IN
    /\ ArrivedCard(ToPublicVoice(c)) = card
    /\ ("name" \in card) = (c.mode = "NAME")
    /\ ("given" \in card) = (c.mode = "FIRST_NAME")
    /\ ("country" \in card) = c.country

\* Among the voices a page is cut from none is favoured, whichever page is asked
\* for: at each round of the shuffle the draws are spread evenly over the places,
\* and of the ways to choose the places each gives one order of those voices,
\* every order, and no order twice, so that each of them is as likely as another
\* to stand at a place of the page but for one draw in Grain a round; and a card
\* tells what its author chose, whether it was there or arrives. Nothing is said
\* of the voices that are not drawn: the page at the top is cut from the Page
\* newest alone.
NoneFavouredAmongDrawn ==
  /\ EvenDraws
  /\ \A offset \in 0..Window : OneOrderEach(Recent(offset))
  /\ SameOnEveryCard

\* "so that no voice is placed above another": each voice of the Wall comes first
\* for some reader.
EveryVoiceMayStandFirst ==
  \A v \in Range(order) : \E s \in Seeds : Shuffle(Recent(0), s)[1] = v

\* "A reader paging through the Wall of Voices needs a stable order", so that
\* no voice stands on two of the pages while nothing happens to the Wall.
PagesAreDisjoint == reader.still => ~ reader.repeats

\* LiveWall adds what the page below does not show already.
ShownOnce == viewed.served \intersect Range(viewed.arrived) = {}
=============================================================================
