------------------------------- MODULE Presence -------------------------------
(***************************************************************************)
(* Whether a member is to be seen by others: the profile, read in two      *)
(* statements (MembersService.profile), the directory (DirectoryService),  *)
(* the name beside what the member wrote (PostsService), and the switches  *)
(* of the member and of moderation between them.                           *)
(*                                                                         *)
(* One member looked at; bound: Looks requests at a time. FlagOnly is a    *)
(* plausible mistake in the definition that follows it; only the mutation  *)
(* runs use it.                                                            *)
(***************************************************************************)
EXTENDS Integers, FiniteSets

CONSTANT Looks

VARIABLES member,   \* the row
          look      \* requests for it, and what was so while each was under way

presence == <<member, look>>

Visibilities == {"PUBLIC", "MEMBERS_ONLY", "PRIVATE"}
Statuses     == {"ACTIVE", "HIDDEN", "SUSPENDED", "DELETION_PENDING"}
Viewers      == {"self", "member", "visitor"}

\* Where others come across the member, and the first statement of each.
Ways     == {"profile", "search", "posts", "replies"}
FirstStatement(what) == CASE what = "profile" -> "row"
                          [] what = "search"  -> "rows"
                          [] OTHER            -> "author"

\* To whom a row of this visibility is shown.
Admits(visibility) == CASE visibility = "PUBLIC"       -> Viewers
                        [] visibility = "MEMBERS_ONLY" -> {"self", "member"}
                        [] visibility = "PRIVATE"      -> {"self"}

\* isHidden
FlagOnly(m) == m.presenceHidden
IsHidden(m) == m.presenceHidden \/ m.status # "ACTIVE"

\* What the directory asks of a row.
Searchable(m) == m.status = "ACTIVE" /\ ~ m.presenceHidden /\ m.visibility # "PRIVATE"

NoLook == [what |-> "none", by |-> "self", at |-> "none", visibility |-> "PRIVATE", shows |-> FALSE,
           total |-> 0, wasPresent |-> FALSE, admitted |-> {}, wasBoth |-> FALSE, named |-> FALSE]

\* The history of a request: the member was present, admitted these viewers,
\* was present and admitted this one, did not hide the name.
Witness(q, m) ==
  LET present == m.status = "ACTIVE" /\ ~ m.presenceHidden IN
  [q EXCEPT !.wasPresent = @ \/ present,
            !.admitted   = @ \union Admits(m.visibility),
            !.wasBoth    = @ \/ (present /\ q.by \in Admits(m.visibility)),
            !.named      = @ \/ ~ m.presenceHidden]

PresenceTypeOK ==
  /\ member \in [visibility : Visibilities, presenceHidden : BOOLEAN, status : Statuses]
  /\ \A l \in Looks : /\ look[l].what \in {"none"} \union Ways /\ look[l].by \in Viewers
                      /\ look[l].at \in {"none", "row", "hidden", "rows", "count", "author", "answer"}
                      /\ look[l].total \in 0..1

PresenceInit ==
  /\ member = [visibility |-> "MEMBERS_ONLY", presenceHidden |-> FALSE, status |-> "ACTIVE"]
  /\ look = [l \in Looks |-> NoLook]

\* The row changes; the requests under way live through it.
Becomes(m) ==
  /\ member' = m
  /\ look' = [l \in Looks |-> IF look[l] = NoLook THEN NoLook ELSE Witness(look[l], m)]

\* updateProfile. A request whose session was resolved before moderation revoked
\* it may still get here, and to the other two switches of the member.
UpdateProfile(visibility) == Becomes([member EXCEPT !.visibility = visibility])

\* setPresenceHidden: the flag and the status, whatever the status was.
SetPresenceHidden(hidden) ==
  Becomes([member EXCEPT !.presenceHidden = hidden, !.status = IF hidden THEN "HIDDEN" ELSE "ACTIVE"])

\* requestDeletion, and a moderator's SUSPEND.
RequestDeletion == Becomes([member EXCEPT !.status = "DELETION_PENDING"])
Suspend         == Becomes([member EXCEPT !.status = "SUSPENDED"])

-----------------------------------------------------------------------------
(* The requests                                                              *)

Ask(l, what, by) ==
  /\ look[l] = NoLook /\ (what = "search" => by # "visitor")
  /\ look' = [look EXCEPT ![l] = Witness([NoLook EXCEPT !.what = what, !.by = by,
                                          !.at = FirstStatement(what)], member)]
  /\ UNCHANGED member

\* profile: first the public fields,
ReadMember(l) ==
  /\ look[l].at = "row"
  /\ look' = [look EXCEPT ![l].at = "hidden", ![l].visibility = member.visibility]
  /\ UNCHANGED member

\* then, in a statement of its own, whether the member is hidden.
CheckHidden(l) ==
  LET q == look[l]
      refused == q.by # "self" /\ (IsHidden(member) \/ q.by \notin Admits(q.visibility)) IN
  /\ q.at = "hidden"
  /\ look' = [look EXCEPT ![l].at = "answer", ![l].shows = ~ refused]
  /\ UNCHANGED member

\* search: the rows and the count in one transaction, each with its own snapshot.
FindRows(l) ==
  /\ look[l].at = "rows"
  /\ look' = [look EXCEPT ![l].at = "count", ![l].shows = Searchable(member)]
  /\ UNCHANGED member

CountRows(l) ==
  /\ look[l].at = "count"
  /\ look' = [look EXCEPT ![l].at = "answer", ![l].total = IF Searchable(member) THEN 1 ELSE 0]
  /\ UNCHANGED member

\* list of the posts of a circle: the name is left out if the member hides it.
ShowPosts(l) ==
  /\ look[l].at = "author" /\ look[l].what = "posts"
  /\ look' = [look EXCEPT ![l].at = "answer", ![l].shows = ~ member.presenceHidden]
  /\ UNCHANGED member

\* replies: the author as the row has it.
ShowReplies(l) ==
  /\ look[l].at = "author" /\ look[l].what = "replies"
  /\ look' = [look EXCEPT ![l].at = "answer", ![l].shows = TRUE]
  /\ UNCHANGED member

AnswerLook(l) ==
  /\ look[l].at = "answer"
  /\ look' = [look EXCEPT ![l] = NoLook]
  /\ UNCHANGED member

PresenceNext ==
  \/ RequestDeletion \/ Suspend
  \/ \E visibility \in Visibilities : UpdateProfile(visibility)
  \/ \E hidden \in BOOLEAN : SetPresenceHidden(hidden)
  \/ \E l \in Looks :
       \/ \E what \in Ways, by \in Viewers : Ask(l, what, by)
       \/ ShowPosts(l) \/ ShowReplies(l)
       \/ ReadMember(l) \/ CheckHidden(l) \/ FindRows(l) \/ CountRows(l) \/ AnswerLook(l)

PresenceSpec == PresenceInit /\ [][PresenceNext]_presence

-----------------------------------------------------------------------------
(* Properties                                                                *)

Showing == {look[l] : l \in Looks}

\* S-10 and B-5: nobody else is shown a member who was hidden, barred or being
\* deleted, or who did not admit them, all the while their request was under
\* way, although the row changes between the statements that read it.
HiddenIsNotShown ==
  \A q \in Showing : q.what \in {"profile", "search"} /\ q.at = "answer" /\ q.shows /\ q.by # "self" =>
    q.wasPresent /\ q.by \in q.admitted

\* B-5, "visibility is enforced here": the member was, at one moment of the
\* request, both present and open to who asked.
ShownAsOfOneMoment ==
  \A q \in Showing : q.what \in {"profile", "search"} /\ q.at = "answer" /\ q.shows /\ q.by # "self" => q.wasBoth

\* "A member who hid their presence keeps their words, without their name."
WordsWithoutName ==
  \A q \in Showing : q.what \in {"posts", "replies"} /\ q.at = "answer" /\ q.shows => q.named
=============================================================================
