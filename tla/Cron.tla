--------------------------------- MODULE Cron ---------------------------------
(***************************************************************************)
(* parseCron and nextFireAfter of src/src/schedule/cron.ts: the search for *)
(* the next minute that matches a five-field expression, with its jumps    *)
(* over months and hours that cannot match.  An instant is a minute of the *)
(* host's local time; the calendar is a parameter.                         *)
(***************************************************************************)
EXTENDS Integers

CONSTANTS
  Horizon,       \* the last instant of the calendar
  Minute, Hour, Dom, Month, Dow,   \* the local-time fields of every instant
  HourEnd,       \* HourEnd[t]: the last minute of t's hour (setMinutes(59))
  MonthEnd,      \* MonthEnd[t]: the last minute of t's month
  MaxLookahead,  \* iterations before an expression counts as unsatisfiable
  Exprs          \* the expressions to search for

Instants == 0..Horizon

ASSUME CronAssumption ==
  /\ Horizon \in Nat /\ MaxLookahead \in Nat
  /\ HourEnd \in [Instants -> Instants] /\ MonthEnd \in [Instants -> Instants]
  /\ \A t \in Instants :
       /\ HourEnd[t] >= t /\ \A u \in t..HourEnd[t] : Hour[u] = Hour[t]
       /\ MonthEnd[t] >= t /\ \A u \in t..MonthEnd[t] : Month[u] = Month[t]

VARIABLES spec, from, cursor, i, result

searchVars == <<spec, from, cursor, i, result>>

Searching == -1
Unsatisfiable == -2

-----------------------------------------------------------------------------
(* parseField, parseCron.                                                  *)

\* One part of a field: `*`, a value or a range, with its step (0: none).
Part == [kind : {"star", "value", "range"}, lo : Nat, hi : Nat, step : Nat]

\* A bare number with a step runs to the field's maximum.
PartValues(p, min, max) ==
  LET lo == IF p.kind = "star" THEN min ELSE p.lo
      hi == IF p.kind = "star" \/ (p.kind = "value" /\ p.step > 0) THEN max ELSE p.hi
      step == IF p.step = 0 THEN 1 ELSE p.step
  IN {v \in lo..hi : (v - lo) % step = 0}

FieldValues(parts, min, max) == UNION {PartValues(p, min, max) : p \in parts}

\* Sunday is 0 and `sunday`, the largest day of the week, at once.
DowValues(parts, sunday) ==
  {IF v = sunday THEN 0 ELSE v : v \in FieldValues(parts, 0, sunday)}

Star == [kind |-> "star", lo |-> 0, hi |-> 0, step |-> 0]

parseCron(e, max) ==
  [minute |-> FieldValues(e.minute, 0, max.minute), hour |-> FieldValues(e.hour, 0, max.hour),
   dom |-> FieldValues(e.dom, 1, max.dom), month |-> FieldValues(e.month, 1, max.month),
   dow |-> DowValues(e.dow, max.dow),
   domIsWildcard |-> e.dom = {Star}, dowIsWildcard |-> e.dow = {Star}]

-----------------------------------------------------------------------------
(* cronMatches, nextFireAfter.                                             *)

DayMatches(s, t) ==
  LET dom == Dom[t] \in s.dom
      dow == Dow[t] \in s.dow
  IN IF ~s.domIsWildcard /\ ~s.dowIsWildcard THEN dom \/ dow ELSE dom /\ dow

cronMatches(s, t) ==
  /\ Minute[t] \in s.minute /\ Hour[t] \in s.hour /\ Month[t] \in s.month
  /\ DayMatches(s, t)

SearchInit ==
  /\ spec \in Exprs /\ from \in Instants
  /\ cursor = from /\ i = 0 /\ result = Searching

Running == result = Searching /\ i < MaxLookahead /\ cursor < Horizon

\* One iteration: the cursor moves on by a minute and, when nothing in the
\* month or hour it lands in can match, to the end of it.
Iterate(reached) == i' = i + 1 /\ cursor' = reached /\ UNCHANGED <<spec, from>>

\* mutant
SkipMonthTooFar ==
  LET c == cursor + 1 IN
  /\ Running /\ Month[c] \notin spec.month
  /\ Iterate(IF MonthEnd[c] < Horizon THEN MonthEnd[c] + 1 ELSE Horizon) /\ UNCHANGED result

SkipMonth ==
  LET c == cursor + 1 IN
  Running /\ Month[c] \notin spec.month /\ Iterate(MonthEnd[c]) /\ UNCHANGED result

SkipHour ==
  LET c == cursor + 1 IN
  /\ Running /\ Month[c] \in spec.month /\ Hour[c] \notin spec.hour
  /\ Iterate(HourEnd[c]) /\ UNCHANGED result

TryMinute ==
  LET c == cursor + 1 IN
  /\ Running /\ Month[c] \in spec.month /\ Hour[c] \in spec.hour
  /\ Iterate(c)
  /\ result' = IF cronMatches(spec, c) THEN c ELSE Searching

GiveUp ==
  /\ result = Searching /\ i = MaxLookahead
  /\ result' = Unsatisfiable
  /\ UNCHANGED <<spec, from, cursor, i>>

Search == SkipMonth \/ SkipHour \/ TryMinute \/ GiveUp

SearchSpec == SearchInit /\ [][Search]_searchVars

-----------------------------------------------------------------------------
SearchTypeOK ==
  /\ spec \in Exprs /\ from \in Instants /\ cursor \in Instants /\ i \in 0..MaxLookahead
  /\ result \in Instants \cup {Searching, Unsatisfiable}

\* No matching minute is jumped over, whatever the expression and the day of
\* the search (the fast skips of nextFireAfter).
NothingSkipped ==
  \A t \in from+1..cursor : cronMatches(spec, t) => result = t

\* The search returns the first matching minute strictly after its start, and
\* gives up only when the look-ahead holds none.
FindsNext ==
  /\ result \in Instants =>
       /\ result > from /\ cronMatches(spec, result)
       /\ \A t \in from+1..result-1 : ~cronMatches(spec, t)
  /\ result = Unsatisfiable =>
       \A t \in Instants : t \in from+1..from+MaxLookahead => ~cronMatches(spec, t)
=============================================================================
