----------------------------- MODULE Deadlines -----------------------------
(***************************************************************************)
(* From the text of a deadline to a time (trace.rs, parse_deadline), and   *)
(* the commitments that are due (prospective.rs).  A relative deadline is  *)
(* in hours, and MAX_TIME stands for the largest time there is; a calendar *)
(* date is a day since 1970 and a second of that day.                      *)
(***************************************************************************)
EXTENDS Recall

CONSTANT MAX_TIME

ASSUME DeadlinesAssumption == MAX_TIME \in Nat

\* A part of a text that is not a number.
NotANumber == -1

\* The years a date may name.
FIRST_YEAR == 1970
LAST_YEAR == 9999

Unparsable == [kind |-> "unparsable"]

saturating_add(a, b) == Min({MAX_TIME, a + b})

saturating_mul(a, b) == Min({MAX_TIME, a * b})

-----------------------------------------------------------------------------

Relative(count, unit, now) ==
  IF count = NotANumber \/ unit \notin {"h", "d"} THEN Unparsable
  ELSE [kind |-> "time",
        at |-> saturating_add(now, saturating_mul(count, IF unit = "d" THEN 24 ELSE 1))]

IsLeap(y) == (y % 4 = 0 /\ y % 100 # 0) \/ y % 400 = 0

days_in_month(y, m) ==
  CASE m \in {1, 3, 5, 7, 8, 10, 12} -> 31
    [] m \in {4, 6, 9, 11} -> 30
    [] m = 2 -> IF IsLeap(y) THEN 29 ELSE 28

\* Slip: the year of January and February is their own.
DaysFromCivil_SameYear(y, m, day) ==
  LET era == y \div 400
      yoe == y - era * 400
      doy == (153 * ((m + 9) % 12) + 2) \div 5 + day - 1
  IN era * 146097 + yoe * 365 + yoe \div 4 - yoe \div 100 + doy - 719468

\* Days since 1970, counted in years that begin with March.
DaysFromCivil(y, m, day) ==
  LET year == IF m <= 2 THEN y - 1 ELSE y
      era  == year \div 400
      yoe  == year - era * 400
      doy  == (153 * ((m + 9) % 12) + 2) \div 5 + day - 1
  IN era * 146097 + yoe * 365 + yoe \div 4 - yoe \div 100 + doy - 719468

\* A date without a time is midnight; minutes and seconds may be left out.
Civil(date, time) ==
  LET t == IF time = <<>> THEN <<0, 0, 0>> ELSE time
      clock == [k \in 1..3 |-> IF k <= Len(t) THEN t[k] ELSE 0]
  IN IF \/ Len(date) # 3 \/ Len(t) > 3
        \/ NotANumber \in Range(date) \cup Range(t)
        \/ date[2] \notin 1..12
     THEN Unparsable
     ELSE IF \/ date[1] < FIRST_YEAR \/ date[1] > LAST_YEAR
             \/ date[3] \notin 1..days_in_month(date[1], date[2])
             \/ clock[1] > 23 \/ clock[2] > 59 \/ clock[3] > 59
     THEN Unparsable
     ELSE [kind |-> "date", day |-> DaysFromCivil(date[1], date[2], date[3]),
           second |-> clock[1] * 3600 + clock[2] * 60 + clock[3]]

parse_deadline(text, now) ==
  CASE text.form = "relative" -> Relative(text.count, text.unit, now)
    [] text.form = "digits" -> [kind |-> "time", at |-> text.number]
    [] text.form = "civil" -> Civil(text.date, text.time)

-----------------------------------------------------------------------------

\* The open commitments up to the horizon, the earliest first.
commitments_due(mem, now, within) ==
  LET horizon == saturating_add(now, within)
      due == {i \in Active(mem) : /\ mem[i].kind = "commitment" /\ mem[i].deadline # NoDeadline
                                  /\ mem[i].deadline <= horizon}
      before(i, j) == \/ mem[i].deadline < mem[j].deadline
                      \/ mem[i].deadline = mem[j].deadline /\ i < j
      item(i) == [id |-> i, overdue |-> mem[i].deadline <= now, due_in |-> mem[i].deadline - now]
      ids == Arranged(due, {p \in due \X due : before(p[1], p[2])})
  IN [k \in DOMAIN ids |-> item(ids[k])]

=============================================================================
