------------------------------ MODULE Community ------------------------------
(***************************************************************************)
(* Circles and posts: CirclesService and PostsService. A member creates,   *)
(* joins and leaves circles and writes in them; create of a post checks    *)
(* the membership and then writes. A reader pages through a list, newest   *)
(* first, by the time of the last post of each page. A moderator's         *)
(* decisions are in Moderation: here a post may be put on the site or      *)
(* taken off it at any moment.                                             *)
(*                                                                         *)
(* Bound: Now is the last millisecond. AnyoneIsMember, UpToAndWith are     *)
(* plausible mistakes in the definition that follows each of them; only    *)
(* the mutation runs use them.                                             *)
(***************************************************************************)
EXTENDS Integers, Sequences, FiniteSets

CONSTANTS Users, Circles, Posts,
          Stories,      \* the posts of type STORY
          Writers,      \* requests that write a post
          PageSize, Now

ASSUME CommunityAssumption ==
  /\ Stories \subseteq Posts /\ "none" \notin Users
  /\ PageSize \in Nat \ {0} /\ Now \in Nat

VARIABLES role,      \* the memberships of a circle
          post,      \* the posts
          writing,   \* a request that has passed the check
          clock,     \* milliseconds
          cursor,    \* the reader's: none before the first page, the time of the last post
          read,      \* what the reader has been given, in order
          founder,   \* history: who has created a circle
          joined,    \* history: who has ever been in a circle
          usurped,   \* history: circles changed by another than their creator
          standing   \* history: what has been on the site since the reader began

community == <<role, post, writing, clock, cursor, read, founder, joined, usurped, standing>>
circles   == <<founder, usurped>>

Unwritten == [author |-> "none", circle |-> "none", at |-> 0, shown |-> FALSE]
NoRequest == [who |-> "none", post |-> "none", circle |-> "none"]

Start == [phase |-> "start", before |-> Now + 1]

CommunityTypeOK ==
  /\ role \in [Circles -> [Users -> {"none", "MEMBER", "STEWARD"}]]
  /\ founder \in [Circles -> Users \union {"none"}] /\ usurped \subseteq Circles
  /\ post \in [Posts -> [author : Users \union {"none"}, circle : Circles \union {"none"},
                         at : 0..Now, shown : BOOLEAN]]
  /\ writing \in [Writers -> [who : Users \union {"none"}, post : Posts \union {"none"},
                              circle : Circles \union {"none"}]]
  /\ clock \in 0..Now /\ read \in Seq(Posts) /\ standing \subseteq Posts
  /\ cursor \in [phase : {"start", "more", "end"}, before : 0..Now + 1]
  /\ joined \subseteq Circles \X Users

CommunityInit ==
  /\ role = [c \in Circles |-> [u \in Users |-> "none"]]
  /\ founder = [c \in Circles |-> "none"] /\ usurped = {}
  /\ post = [p \in Posts |-> Unwritten]
  /\ writing = [w \in Writers |-> NoRequest]
  /\ clock = 0 /\ cursor = Start /\ read = <<>> /\ joined = {} /\ standing = {}

Exists(c)  == founder[c] # "none"
Shown      == {p \in Posts : post[p].shown}

-----------------------------------------------------------------------------
(* CirclesService                                                            *)

\* The one who creates a circle is its steward.
CreateCircle(u, c) ==
  /\ ~ Exists(c)
  /\ role' = [role EXCEPT ![c][u] = "STEWARD"]
  /\ joined' = joined \union {<<c, u>>} /\ founder' = [founder EXCEPT ![c] = u]
  /\ UNCHANGED <<usurped, post, writing, clock, cursor, read, standing>>

\* join: get, and then an upsert that leaves a membership as it is. Nothing takes
\* a circle's status back between the two, so they are one step here.
Join(u, c) ==
  /\ Exists(c)
  /\ role' = [role EXCEPT ![c][u] = IF @ = "none" THEN "MEMBER" ELSE @]
  /\ joined' = joined \union {<<c, u>>}
  /\ UNCHANGED <<circles, post, writing, clock, cursor, read, standing>>

\* Anybody may leave, the last steward too.
Leave(u, c) ==
  /\ role[c][u] # "none"
  /\ role' = [role EXCEPT ![c][u] = "none"]
  /\ UNCHANGED <<circles, post, writing, clock, cursor, read, joined, standing>>

AssertSteward(u, c) == role[c][u] = "STEWARD"

\* update: assertSteward, and then the write. Only a steward's own leaving undoes
\* what is asserted, so they are one step here.
UpdateCircle(u, c) ==
  /\ AssertSteward(u, c)
  /\ usurped' = IF founder[c] = u THEN usurped ELSE usurped \union {c}
  /\ UNCHANGED <<role, post, writing, clock, cursor, read, founder, joined, standing>>

-----------------------------------------------------------------------------
(* PostsService                                                              *)

AnyoneIsMember(u, c) == TRUE
IsMember(u, c) == role[c][u] # "none"

\* create: in a circle only by a member of it, as far as isMember has seen.
CheckPost(w, u, p, c) ==
  /\ writing[w] = NoRequest
  /\ post[p] = Unwritten /\ \A x \in Writers : writing[x].post # p
  /\ c # "none" => IsMember(u, c)
  /\ writing' = [writing EXCEPT ![w] = [who |-> u, post |-> p, circle |-> c]]
  /\ UNCHANGED <<role, circles, post, clock, cursor, read, joined, standing>>

\* A story waits for an editor, a discussion appears.
CreatePost(w) ==
  LET q == writing[w] IN
  /\ q # NoRequest
  /\ post' = [post EXCEPT ![q.post] = [author |-> q.who, circle |-> q.circle, at |-> clock,
                                       shown |-> q.post \notin Stories]]
  /\ writing' = [writing EXCEPT ![w] = NoRequest]
  /\ UNCHANGED <<role, circles, clock, cursor, read, joined, standing>>

\* What a moderator's decision does to a post, story or not (Moderation).
Decided(p) ==
  /\ post[p] # Unwritten
  /\ post' = [post EXCEPT ![p].shown = ~ @]
  /\ standing' = standing \ {p}
  /\ UNCHANGED <<role, circles, writing, clock, cursor, read, joined>>

UpToAndWith(p, before) == post[p].at <= before
Earlier(p, before) == post[p].at < before

\* A page: the newest PageSize of what is earlier than the cursor, newest first;
\* nothing orders posts of the same millisecond.
IsPage(page, before) ==
  LET rest == {p \in Shown : Earlier(p, before)} \ {page[k] : k \in DOMAIN page} IN
  /\ \A k \in DOMAIN page : page[k] \in Shown /\ Earlier(page[k], before)
  /\ \A j, k \in DOMAIN page : j < k => page[j] # page[k] /\ post[page[j]].at >= post[page[k]].at
  /\ \A k \in DOMAIN page, p \in rest : post[p].at <= post[page[k]].at
  /\ Len(page) < PageSize => rest = {}

Pages == UNION {[1..n -> Posts] : n \in 0..PageSize}

\* list: a full page carries a cursor, a shorter one is the last.
List(page) ==
  /\ cursor.phase # "end"
  /\ IsPage(page, cursor.before)
  /\ read' = read \o page
  /\ cursor' = IF Len(page) = PageSize THEN [phase |-> "more", before |-> post[page[PageSize]].at]
               ELSE [cursor EXCEPT !.phase = "end"]
  /\ standing' = IF cursor.phase = "start" THEN Shown ELSE standing
  /\ UNCHANGED <<role, circles, post, writing, clock, joined>>

\* The next reader.
BeginReading ==
  /\ cursor.phase = "end"
  /\ cursor' = Start /\ read' = <<>> /\ standing' = {}
  /\ UNCHANGED <<role, circles, post, writing, clock, joined>>

TimePasses ==
  /\ clock < Now /\ clock' = clock + 1
  /\ UNCHANGED <<role, circles, post, writing, cursor, read, joined, standing>>

CommunityNext ==
  \/ \E u \in Users, c \in Circles :
       CreateCircle(u, c) \/ Join(u, c) \/ Leave(u, c) \/ UpdateCircle(u, c)
  \/ \E w \in Writers :
       \/ CreatePost(w)
       \/ \E u \in Users, p \in Posts, c \in Circles \union {"none"} : CheckPost(w, u, p, c)
  \/ \E p \in Posts : Decided(p)
  \/ \E page \in Pages : List(page)
  \/ BeginReading \/ TimePasses

CommunitySpec == CommunityInit /\ [][CommunityNext]_community

-----------------------------------------------------------------------------
(* Properties                                                                *)

Given == {read[k] : k \in DOMAIN read}

\* Whoever wrote in a circle has been a member of it, although the membership is
\* read before the post is written and may end in between; and nobody but who
\* created a circle has changed it, whoever came, went or came back.
WrittenByMembers ==
  /\ \A p \in Posts : post[p].circle # "none" => <<post[p].circle, post[p].author>> \in joined
  /\ usurped = {}

\* A reader who pages to the end is given no post twice, each later in the order
\* of writing than the next, and every post that was on the site all along; of
\* two posts of the same millisecond, one may be missed.
ListIsWhole ==
  /\ \A j, k \in DOMAIN read : j < k => read[j] # read[k] /\ post[read[j]].at >= post[read[k]].at
  /\ cursor.phase = "end" =>
       \A p \in standing : p \in Given \/ \E q \in Posts \ {p} : q \in Given /\ post[q].at = post[p].at
=============================================================================
