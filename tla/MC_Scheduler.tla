----------------------------- MODULE MC_Scheduler -----------------------------
(* Scheduler and the search for its fire times, on a calendar small enough *)
(* to search completely: three minutes an hour, two hours a day, months of *)
(* two and three days, weeks of three.                                     *)
EXTENDS Scheduler, Cron

Day(t)    == t \div 6
YearDay(t) == Day(t) % 5
SmallMinute == [t \in Instants |-> t % 3]
SmallHour   == [t \in Instants |-> (t \div 3) % 2]
SmallMonth  == [t \in Instants |-> IF YearDay(t) < 2 THEN 1 ELSE 2]
SmallDom    == [t \in Instants |-> IF YearDay(t) < 2 THEN YearDay(t) + 1 ELSE YearDay(t) - 1]
SmallDow    == [t \in Instants |-> Day(t) % 3]

Cut(t) == IF t < Horizon THEN t ELSE Horizon
SmallHourEnd  == [t \in Instants |-> Cut((t - (t % 3)) + 2)]
SmallMonthEnd == [t \in Instants |->
  Cut(6 * (Day(t) - YearDay(t) + (IF YearDay(t) < 2 THEN 2 ELSE 5)) - 1)]

Maxima == [minute |-> 2, hour |-> 1, dom |-> 3, month |-> 2, dow |-> 3]

Span(lo, hi, step) == [kind |-> "range", lo |-> lo, hi |-> hi, step |-> step]
Value(v, step) == [kind |-> "value", lo |-> v, hi |-> v, step |-> step]
Every(step) == [Star EXCEPT !.step = step]
Parsed(m, h, d, mo, w) ==
  parseCron([minute |-> m, hour |-> h, dom |-> d, month |-> mo, dow |-> w], Maxima)

\* Wildcards, values, ranges, steps, lists, and days the months do not have.
SmallExprs ==
  {Parsed(m, h, d, mo, w) :
     m \in {{Star}, {Every(2)}, {Value(1, 1)}},
     h \in {{Star}, {Value(1, 0)}},
     d \in {{Star}, {Value(2, 0)}, {Value(3, 0)}, {Span(1, 3, 2)}},
     mo \in {{Star}, {Value(1, 0)}, {Value(2, 0)}},
     w \in {{Star}, {Value(3, 0)}, {Value(1, 0), Value(2, 0)}}}

-----------------------------------------------------------------------------
\* Entry 0 is due every minute, entry 1 at every other one; wake 0 never
\* expires, wake 1 does.
EveryMinute == Parsed({Star}, {Star}, {Star}, {Star}, {Star})
Occurrences == [k \in Keys |->
  {t \in Times : cronMatches(IF k = 0 THEN EveryMinute ELSE Parsed({Every(2)}, {Star}, {Star}, {Star}, {Star}), t)}]
At     == [w \in Wakes |-> 1]
Expire == [w \in Wakes |-> IF w = 0 THEN None ELSE 1]

Slice(keys, chat) == [keys |-> keys, chat |-> chat]

VARIABLE part   \* what happens in this behaviour: a search, entries or wakes

Resized  == {Slice({0, 1}, TRUE), Slice({0}, TRUE), Slice({}, TRUE)}
Chatless == {Slice({}, TRUE), Slice({}, FALSE)}
AnyConfig == Resized \cup Chatless

SearchEnded == result # Searching \/ cursor = Horizon

\* A search and a bot without entries, two entries that come and go, both of
\* them too, or two wakes and a chat that does.
PartInit ==
  /\ Init /\ SearchInit /\ part \in {"search", "cron", "wakes"}
  /\ yaml \in (IF part = "cron" THEN Resized ELSE Chatless)
  /\ IF part = "search" THEN yaml.chat ELSE spec = EveryMinute /\ from = 0
PartNext ==
  /\ UNCHANGED part
  /\ \/ part = "search" /\ Search /\ UNCHANGED vars
     \/ /\ Next /\ UNCHANGED searchVars
        /\ CASE part = "search" -> SearchEnded /\ up' /\ UNCHANGED <<clock, yaml, cli>>
             [] part = "cron"   -> yaml' \in Resized \cup {Broken} /\ UNCHANGED cli
             [] part = "wakes"  -> yaml' \in Chatless \cup {Broken} /\ clock' < MaxTime
PartSpec == PartInit /\ [][PartNext]_<<vars, searchVars, part>> /\ Fairness /\ FeishuAnswers
=============================================================================
