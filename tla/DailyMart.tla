------------------------------ MODULE DailyMart ------------------------------
(***************************************************************************)
(* The daily run of dag_transform_daily after its Spark job, and the mart  *)
(* it keeps: daily_ohlcv.sql is incremental and takes, at each run, the    *)
(* days after the newest day in the mart, whatever the ticker.  Silver     *)
(* fills while the clock runs, from the hourly ingestion: ticks of a day   *)
(* arrive after its midnight, ticks of the new day arrive before the run   *)
(* that midnight triggers, and a later ingestion appends copies of rows    *)
(* already there (see Medallion).                                          *)
(*                                                                         *)
(* The warehouse's merge is taken to be atomic; the Spark job, which dbt   *)
(* does not read, is in Medallion.                                         *)
(***************************************************************************)
EXTENDS Naturals, FiniteSetsExt

CONSTANTS Tickers,
          LastDay,       \* bound: midnights
          MaxRows,       \* bound: rows of Silver
          MaxFailures    \* bound: tasks that fail for good

ASSUME MartConstants == LastDay \in Nat \ {0} /\ MaxFailures \in Nat

Days == 1..LastDay

VARIABLES today,      \* the clock, in days
          silver,     \* rows of the staging view per ticker and day
          copies,     \* some event is in Silver twice
          mart,       \* tick_count of the mart's row, 0 for no row
          run,        \* the DAG run under way: its task, and copies at its start
          due,        \* a run is scheduled
          failures,
          late        \* rows that reached Silver after their day was in the mart

martVars == <<today, silver, copies, mart, run, due, failures, late>>

Cells == Tickers \X Days
NoRun == [task |-> "none", copies |-> FALSE]

MartInit == /\ today = 1
            /\ silver = [c \in Cells |-> 0]
            /\ copies = FALSE
            /\ mart = [c \in Cells |-> 0]
            /\ run = NoRun
            /\ due = FALSE
            /\ failures = 0
            /\ late = [c \in Cells |-> 0]

(* SELECT COALESCE(MAX(trade_date), '1900-01-01') FROM this, all tickers.  *)
MaxTradeDate == CHOOSE d \in Days \cup {0} :
                  /\ d = 0 \/ \E t \in Tickers : mart[t, d] > 0
                  /\ \A t \in Tickers, e \in Days : mart[t, e] > 0 => e <= d

(* One more row for each cell of C. *)
Grows(C) ==
  /\ MapThenSumSet(LAMBDA c : silver[c], Cells) + Cardinality(C) <= MaxRows
  /\ silver' = [c \in Cells |-> silver[c] + (IF c \in C THEN 1 ELSE 0)]
  /\ late' = [c \in Cells |-> late[c] + (IF c \in C /\ c[2] <= MaxTradeDate THEN 1 ELSE 0)]
  /\ UNCHANGED <<today, mart, run, due, failures>>

(* A tick of today, or of a former day, is ingested. *)
Arrive(t, d) == /\ d <= today
                /\ Grows({<<t, d>>})
                /\ UNCHANGED copies

(* An ingestion appends rows that are there already. *)
Reappend(t, d) == /\ silver[t, d] > 0
                  /\ Grows({<<t, d>>})
                  /\ copies' = TRUE

(* 0 0 * * *; max_active_runs=1 and catchup=False: at most one run waits.  *)
Midnight == /\ today < LastDay
            /\ today' = today + 1
            /\ due' = TRUE
            /\ UNCHANGED <<silver, copies, mart, run, failures, late>>

\* Mutant of StartRun: an empty Silver is no failure.
StartRunUnchecked == /\ due
                     /\ run = NoRun
                     /\ due' = FALSE
                     /\ run' = [task |-> "dbt_run", copies |-> copies]
                     /\ UNCHANGED <<today, silver, copies, mart, failures, late>>

(* check_silver_data: an empty Silver fails the run. *)
StartRun == /\ due
            /\ run = NoRun
            /\ due' = FALSE
            /\ run' = IF \E c \in Cells : silver[c] > 0
                      THEN [task |-> "dbt_run", copies |-> copies] ELSE NoRun
            /\ UNCHANGED <<today, silver, copies, mart, failures, late>>

\* Mutant of Selected: the day before the run.
SelectedYesterday(c) == c[2] = today - 1

\* The incremental filter of daily_ohlcv.sql.
Selected(c) == c[2] > MaxTradeDate

DbtRun == /\ run.task = "dbt_run"
          /\ mart' = [c \in Cells |-> IF Selected(c) THEN silver[c] ELSE mart[c]]
          /\ run' = [run EXCEPT !.task = "dbt_test"]
          /\ UNCHANGED <<today, silver, copies, due, failures, late>>

\* Mutant of DbtTest: the tests only warn.
DbtTestWarns == /\ run.task = "dbt_test"
                /\ run' = [run EXCEPT !.task = "load_to_druid"]
                /\ UNCHANGED <<today, silver, copies, mart, due, failures, late>>

(* dbt test: event_id is unique in the staging view, or the run fails, the *)
(* retries with it.                                                        *)
DbtTest == /\ run.task = "dbt_test"
           /\ run' = IF copies THEN NoRun ELSE [run EXCEPT !.task = "load_to_druid"]
           /\ UNCHANGED <<today, silver, copies, mart, due, failures, late>>

(* load_to_druid and notify_success. *)
EndRun == /\ run.task = "load_to_druid"
          /\ run' = NoRun
          /\ UNCHANGED <<today, silver, copies, mart, due, failures, late>>

(* A task fails with its retries, before it changed anything. *)
RunFails == /\ run # NoRun
            /\ failures < MaxFailures
            /\ failures' = failures + 1
            /\ run' = NoRun
            /\ UNCHANGED <<today, silver, copies, mart, due, late>>

MartNext == \/ \E t \in Tickers, d \in Days : Arrive(t, d) \/ Reappend(t, d)
            \/ Midnight \/ StartRun \/ DbtRun \/ DbtTest \/ EndRun \/ RunFails

MartSpec == MartInit /\ [][MartNext]_martVars

-----------------------------------------------------------------------------
(* Shapes; a run that is past dbt run found a row and left one; no day is  *)
(* ahead of the clock, and no row is late for a day no run has taken.      *)
MartInv ==
  /\ today \in Days
  /\ silver \in [Cells -> Nat] /\ mart \in [Cells -> Nat] /\ late \in [Cells -> Nat]
  /\ copies \in BOOLEAN /\ due \in BOOLEAN
  /\ failures \in 0..MaxFailures
  /\ run \in [task : {"none", "dbt_run", "dbt_test", "load_to_druid"}, copies : BOOLEAN]
  /\ run.copies => copies
  /\ run.task = "dbt_run" => \E c \in Cells : silver[c] > 0
  /\ run.task \in {"dbt_test", "load_to_druid"} => MaxTradeDate > 0
  /\ \A c \in Cells : c[2] > today => silver[c] = 0 /\ mart[c] = 0
  /\ \A c \in Cells : c[2] > MaxTradeDate => late[c] = 0

(* What the mart lacks of a day is exactly what reached Silver after the   *)
(* run that took the day, for every ticker and through failed runs; a day  *)
(* no run has taken has no row (daily_ohlcv.sql:14-20).                    *)
OnlyLateRowsMissing ==
  \A c \in Cells : IF c[2] <= MaxTradeDate THEN mart[c] + late[c] = silver[c]
                                           ELSE mart[c] = 0

(* Once Silver holds an event twice, no later run of the DAG gets past its *)
(* tests: nothing is loaded into Druid again (schema.yml:13,               *)
(* dag_transform_daily.py:164).                                            *)
CopiesStopTheDag == run.copies => run.task # "load_to_druid"

(* daily_ohlcv.sql:15, "Only process data not yet in the target table":    *)
(* after a run, the rows of former days that were in Silver are in the     *)
(* mart.  False: the newest day of the mart is never looked at again.      *)
FinishedDaysComplete ==
  [][(run.task = "dbt_run" /\ run'.task = "dbt_test") =>
       \A c \in Cells : c[2] < today => mart'[c] = silver[c]]_martVars
=============================================================================
