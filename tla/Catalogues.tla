------------------------------ MODULE Catalogues ------------------------------
(***************************************************************************)
(* The words of the site: the catalogues of each language, the calls for   *)
(* a translation in the source, scripts/check-messages.mjs, which judges   *)
(* both before a build, and what a reader is shown (src/i18n).             *)
(*                                                                         *)
(* Developers and translators change one entry at a time, and any state of *)
(* the tree may be checked and built. A key is a leaf of its namespace's   *)
(* one group, a message is null, empty or words (a null stands for every   *)
(* leaf that is no text). Bounds: Keys of a namespace, and one call, as    *)
(* the check judges each on its own.                                       *)
(* EmptyInReference is a plausible mistake in the definition that follows  *)
(* it; only the mutation runs use it.                                      *)
(***************************************************************************)
CONSTANTS Locales, Reference, Namespaces, Keys

ASSUME CataloguesAssumption == Reference \in Locales /\ "none" \notin Namespaces

VARIABLES file,    \* the messages of a language in a namespace, if there is a file
          calls    \* the calls for a translation

catalogues == <<file, calls>>

\* A call asks for a key, written out or put together at run time, of the
\* namespace its translator has. The matcher sees the namespaces bound in the
\* same file, one of each variable, and takes the last one bound to the variable
\* of the call; a translator that came from elsewhere is bound in no line.
Call == {c \in [of : Namespaces, bound : SUBSET Namespaces, taken : Namespaces \union {"none"},
                key : Keys, form : {"plain", "dynamic"}] :
           c.taken \in IF c.bound = {} THEN {"none"} ELSE c.bound}

NoFile == [k \in Keys |-> "absent"]

Messages == {"none", "null", "empty", "words"}

CataloguesTypeOK ==
  /\ file \in [Locales -> [Namespaces -> {NoFile} \union [Keys -> Messages]]]
  /\ calls \subseteq Call

CataloguesInit ==
  /\ file = [l \in Locales |-> [n \in Namespaces |-> NoFile]]
  /\ calls = {}

Translate(l, n, k, message) ==
  /\ file' = [file EXCEPT ![l][n] = [j \in Keys |-> IF j = k THEN message
                                       ELSE IF @ = NoFile THEN "none" ELSE @[j]]]
  /\ UNCHANGED calls

RemoveFile(l, n) ==
  /\ file' = [file EXCEPT ![l][n] = NoFile] /\ UNCHANGED calls

CallFor(c) == calls' = {c} /\ UNCHANGED file

CataloguesNext ==
  \/ \E l \in Locales, n \in Namespaces :
       \/ RemoveFile(l, n)
       \/ \E k \in Keys, message \in Messages : Translate(l, n, k, message)
  \/ \E c \in Call : CallFor(c)

-----------------------------------------------------------------------------
(* check-messages.mjs                                                        *)

\* flatten: a null is a leaf like any other.
Present(l, n) == {k \in Keys : file[l][n][k] \in {"null", "empty", "words"}}

\* readdirSync: the languages with a directory, the files of the reference.
Directories == {l \in Locales : \E n \in Namespaces : file[l][n] # NoFile}
Checked     == {n \in Namespaces : file[Reference][n] # NoFile}

\* 1. A key is found in any namespace bound in the file; the parent of a key put
\* together is a group; a translator bound in no line is not looked at.
Found(c) ==
  \/ c.taken = "none"
  \/ c.form = "plain" /\ \E n \in c.bound : c.key \in Present(Reference, n)
  \/ c.form = "dynamic" /\ Present(Reference, c.taken) # {}

\* 2.
NoDrift == \A l \in Directories : \A n \in Checked :
             file[l][n] # NoFile /\ Present(l, n) = Present(Reference, n)

EmptyInReference ==
  \A n \in Checked : \A k \in Keys : file[Reference][n][k] # "empty"

\* 3. It asks this of text alone.
NoneEmpty == \A l \in Directories : \A n \in Checked : \A k \in Keys : file[l][n][k] # "empty"

Accepted ==
  /\ Reference \in Directories
  /\ (\A c \in calls : Found(c)) /\ NoDrift /\ NoneEmpty

-----------------------------------------------------------------------------
(* load-messages.ts, request.ts                                              *)

\* The messages of a page: of its language, or of the default one. NAMESPACES
\* names every namespace that has a file.
LoadNamespace(l, n) == IF file[l][n] # NoFile THEN file[l][n] ELSE file[Reference][n]

Message(l, c) == LoadNamespace(l, c.of)[c.key]

\* Words of the reader's language, or what getMessageFallback finds for a message
\* that is not there, or is null.
ShownTo(l, c) ==
  CASE Message(l, c) = "words" /\ file[l][c.of] # NoFile -> "words"
    [] Message(l, c) = "empty" -> "nothing"
    [] OTHER -> IF Message(Reference, c) = "words" THEN "English" ELSE "nothing"

\* The calls whose key the matcher can read and cannot take for another's.
Legible(c) ==
  /\ c.form = "plain" /\ c.of \in c.bound
  /\ \A n \in c.bound \ {c.of} : c.key \notin Present(Reference, n)

\* In a tree the check accepts, wherever a key is written out beside the
\* translator it is for, every reader of every language is shown words of their
\* own language, but for a null, which shows the English words if those are not
\* null as well: none is missing, none is empty, and nothing but a null falls
\* back to English.
AcceptedIsWorded ==
  Accepted => \A l \in Directories : \A c \in calls : Legible(c) =>
    \/ ShownTo(l, c) = "words"
    \/ /\ file[l][c.of][c.key] = "null"
       /\ ShownTo(l, c) = IF file[Reference][c.of][c.key] = "null" THEN "nothing" ELSE "English"

\* "No key is present but empty, which parity alone would call fine."
PresentIsWorded ==
  Accepted => \A l \in Directories : \A n \in Checked : \A k \in Present(l, n) : file[l][n][k] = "words"

\* "Still catches a key that exists nowhere, which is the failure that reaches a
\* reader": a key of another namespace in the same file reaches the reader too.
ElsewhereIsNotMissed ==
  Accepted => \A l \in Directories : \A c \in calls :
    c.form = "plain" /\ c.taken # "none" /\ Message(Reference, c) # "null" => ShownTo(l, c) # "nothing"

CataloguesSpec == CataloguesInit /\ [][CataloguesNext]_catalogues
=============================================================================
