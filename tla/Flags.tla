-------------------------------- MODULE Flags --------------------------------
(***************************************************************************)
(* FlagsService: a feature flag in the database, and the copy each         *)
(* instance keeps of it for half a minute. all reads the rows and then     *)
(* keeps them; set writes the row, drops the copy of its own instance and  *)
(* then does what all does. Others run in between. Bound: a copy is not    *)
(* told apart once it is too old. NeverTooOld is a plausible mistake in    *)
(* the definition after it; only the mutation runs use it.                 *)
(***************************************************************************)
EXTENDS Integers

CONSTANTS Servers, Asks   \* the instances, the requests in flight

VARIABLES row,      \* the flag in the database
          copy,     \* of each instance: its value, and whether its half minute is over
          query       \* a request: the step it is at, where, and the value it carries

flags == <<row, copy, query>>

Values == {"on", "off"}
NoCopy == [value |-> "none", old |-> FALSE]
Silent == [at |-> "idle", on |-> "none", value |-> "off"]

FlagsTypeOK ==
  /\ row \in Values
  /\ copy \in [Servers -> [value : Values \union {"none"}, old : BOOLEAN]]
  /\ query \in [Asks -> [at : {"idle", "upsert", "drop", "read", "keep"}, on : Servers \union {"none"},
                         value : Values]]

FlagsInit == row = "off" /\ copy = [s \in Servers |-> NoCopy] /\ query = [a \in Asks |-> Silent]

NeverTooOld(c) == c.value # "none"
Fresh(c) == c.value # "none" /\ ~ c.old

\* all: a fresh copy answers at once, and nothing changes.
AskAll(a, s) ==
  /\ query[a] = Silent /\ ~ Fresh(copy[s])
  /\ query' = [query EXCEPT ![a] = [Silent EXCEPT !.at = "read", !.on = s]]
  /\ UNCHANGED <<row, copy>>

ReadRows(a) ==
  /\ query[a].at = "read"
  /\ query' = [query EXCEPT ![a].at = "keep", ![a].value = row]
  /\ UNCHANGED <<row, copy>>

KeepRows(a) ==
  /\ query[a].at = "keep"
  /\ copy' = [copy EXCEPT ![query[a].on] = [value |-> query[a].value, old |-> FALSE]]
  /\ query' = [query EXCEPT ![a] = Silent]
  /\ UNCHANGED row

AskSet(a, s, enabled) ==
  /\ query[a] = Silent
  /\ query' = [query EXCEPT ![a] = [at |-> "upsert", on |-> s, value |-> enabled]]
  /\ UNCHANGED <<row, copy>>

Upsert(a) ==
  /\ query[a].at = "upsert"
  /\ row' = query[a].value
  /\ query' = [query EXCEPT ![a].at = "drop"]
  /\ UNCHANGED copy

\* set goes on: the copy is dropped, so all reads the rows.
DropCopy(a) ==
  /\ query[a].at = "drop"
  /\ copy' = [copy EXCEPT ![query[a].on] = NoCopy]
  /\ query' = [query EXCEPT ![a].at = "read"]
  /\ UNCHANGED row

GrowsOld(s) ==
  /\ copy[s].value # "none" /\ ~ copy[s].old
  /\ copy' = [copy EXCEPT ![s].old = TRUE]
  /\ UNCHANGED <<row, query>>

Serves(a) == ReadRows(a) \/ KeepRows(a) \/ Upsert(a) \/ DropCopy(a)

FlagsNext ==
  \/ \E a \in Asks, s \in Servers : AskAll(a, s) \/ \E b \in Values : AskSet(a, s, b)
  \/ \E a \in Asks : Serves(a)
  \/ \E s \in Servers : GrowsOld(s)

\* What an instance answers to a request that comes now.
Told(s) == IF Fresh(copy[s]) THEN copy[s].value ELSE row

\* A flag that is not switched any more is in the end the same on every
\* instance, although no instance hears of a switch made on another, and a read
\* that began before the switch may put the old value back after the copy was
\* dropped.
FlagsCatchUp == \A b \in Values : <>[](row = b) => <>[](\A s \in Servers : Told(s) = b)
=============================================================================
