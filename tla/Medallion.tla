------------------------------ MODULE Medallion ------------------------------
(***************************************************************************)
(* The Medallion lake and the two DAGs that move ticks through it:         *)
(* transformation/spark/streaming_consumer.py (Kafka to Bronze),           *)
(* bronze_to_silver.py under orchestration/dags/dag_ingest_batch.py        *)
(* (hourly) and silver_to_gold.py under dag_transform_daily.py (midnight). *)
(* The DAGs run concurrently; each task is retried from its start.         *)
(*                                                                         *)
(* External: NiFi and BronzeWriter (they land files), Airflow's scheduler, *)
(* and Spark's file sink, whose append and overwrite are not atomic.       *)
(***************************************************************************)
EXTENDS Integers, FiniteSets

CONSTANTS
  Ticks,          \* tick events
  Valid,          \* those that pass cast_and_validate
  Keys, KeyOf,    \* [Ticks -> Keys]: (ticker, timestamp, close), the dedup hash
  IngestRetries,  \* retries of dag_ingest_batch
  DailyRetries,   \* retries of dag_transform_daily
  MaxCopies,      \* bound: copies of a row that are told apart
  MaxFaults       \* bound: task failures other than those the data causes

ASSUME TicksAssumption == Valid \subseteq Ticks /\ KeyOf \in [Ticks -> Keys]
ASSUME RetriesAssumption == IngestRetries \in Nat /\ DailyRetries \in Nat
ASSUME LakeBoundsAssumption == MaxCopies \in Nat \ {0} /\ MaxFaults \in Nat

VARIABLES
  streamed,   \* bronze/stock-ticks-stream/ holds a file
  bronze,     \* ticks under bronze/stock-ticks/
  silver,     \* [Ticks -> 0..MaxCopies]: rows under silver/stock-ticks/
  silverFiles,\* silver/stock-ticks/ lists at least one object
  gold,       \* state and, per tick, how often gold/daily-summary/ counts it
  ingest,     \* the active run of dag_ingest_batch
  daily,      \* the active run of dag_transform_daily
  faults,     \* failures so far
  appends     \* history: attempts that moved files to Silver (0, 1, or 2 for more)

lake == <<streamed, bronze, silver, silverFiles, gold>>
vars == <<lake, ingest, daily, faults, appends>>

Rows == [Ticks -> 0 .. MaxCopies]
NoRows == [e \in Ticks |-> 0]

\* A Spark job reads its input, writes its output, and moves the output files to
\* their place, one by one, when it commits.
IngestTasks == {"idle", "nifi", "wait", "read", "write", "commit", "quality"}
DailyTasks  == {"idle", "check", "read", "delete", "write"}

\* Rows s and, once more, every tick of S.
AddRows(s, S) == [e \in Ticks |-> IF e \in S /\ s[e] < MaxCopies THEN s[e] + 1 ELSE s[e]]

Init ==
  /\ streamed = FALSE
  /\ bronze = {}
  /\ silver = NoRows
  /\ silverFiles = FALSE
  /\ gold = [state |-> "absent", rows |-> NoRows]
  /\ ingest = [task |-> "idle", tries |-> 0, input |-> {}]
  /\ daily = [task |-> "idle", tries |-> 0, input |-> NoRows]
  /\ faults = 0
  /\ appends = 0

-----------------------------------------------------------------------------
(* Bronze                                                                  *)

\* A first micro-batch of the streaming query commits; no job reads what is in it.
Stream ==
  /\ ~streamed
  /\ streamed' = TRUE
  /\ UNCHANGED <<bronze, silver, silverFiles, gold, ingest, daily, faults, appends>>

\* NiFi, or a BronzeWriter, lands a file.
Land(e) ==
  /\ e \notin bronze
  /\ bronze' = bronze \cup {e}
  /\ UNCHANGED <<streamed, silver, silverFiles, gold, ingest, daily, faults, appends>>

-----------------------------------------------------------------------------
(* dag_ingest_batch                                                        *)

IngestAt(task) == ingest.task = task
IngestGoes(task, input) == ingest' = [task |-> task, tries |-> 0, input |-> input]

\* max_active_runs=1: a run starts when none is active.
ScheduleIngest ==
  /\ IngestAt("idle")
  /\ IngestGoes("nifi", {})
  /\ UNCHANGED <<lake, daily, faults, appends>>

\* NiFi was triggered, or is not there and the task says so and succeeds.
TriggerNiFi ==
  /\ IngestAt("nifi")
  /\ IngestGoes("wait", {})
  /\ UNCHANGED <<lake, daily, faults, appends>>

\* Any object under bronze/ ends the wait, old or new, streamed or landed.
WaitBronze ==
  /\ IngestAt("wait")
  /\ bronze # {} \/ streamed
  /\ IngestGoes("read", {})
  /\ UNCHANGED <<lake, daily, faults, appends>>

\* dropDuplicates keeps one row, whichever, of each key.
Deduplicated(S) ==
  {T \in SUBSET S : /\ \A e, f \in T : KeyOf[e] = KeyOf[f] => e = f
                    /\ {KeyOf[e] : e \in T} = {KeyOf[e] : e \in S}}

\* Mutant of ReadBronze: no deduplication.
ReadBronzeWithDuplicates ==
  /\ IngestAt("read")
  /\ bronze # {}
  /\ ingest' = [ingest EXCEPT !.task = "write", !.input = bronze \cap Valid]
  /\ UNCHANGED <<lake, daily, faults, appends>>

\* All of Bronze, cast, validated and deduplicated.
ReadBronze ==
  /\ IngestAt("read")
  /\ bronze # {}
  /\ \E T \in Deduplicated(bronze \cap Valid) :
       ingest' = [ingest EXCEPT !.task = "write", !.input = T]
  /\ UNCHANGED <<lake, daily, faults, appends>>

Attempted == appends' = IF appends < 2 THEN appends + 1 ELSE appends

MovesTo(table) ==
  /\ \E part \in SUBSET ingest.input \ {{}} :
       /\ silver' = AddRows(table, part)
       /\ ingest' = [ingest EXCEPT !.task = "commit", !.input = @ \ part]
  /\ silverFiles' = TRUE
  /\ IF IngestAt("write") THEN Attempted ELSE UNCHANGED appends
  /\ UNCHANGED <<streamed, bronze, gold, daily, faults>>

\* Mutant of MoveRows: mode("overwrite").
OverwriteRows ==
  \/ IngestAt("write") /\ MovesTo(NoRows)
  \/ IngestAt("commit") /\ MovesTo(silver)

\* mode("append"): output files join what is there, some before others.
MoveRows ==
  /\ IngestAt("write") \/ IngestAt("commit")
  /\ MovesTo(silver)

\* No file is left to move, and the job succeeds, with or without rows.
WriteSilver ==
  /\ IngestAt("write") \/ IngestAt("commit")
  /\ ingest.input = {}
  /\ silverFiles' = TRUE
  /\ IngestGoes("quality", {})
  /\ UNCHANGED <<streamed, bronze, silver, gold, daily, faults, appends>>

\* "Silver non-empty".
DataQuality ==
  /\ IngestAt("quality")
  /\ silverFiles
  /\ IngestGoes("idle", {})
  /\ UNCHANGED <<lake, daily, faults, appends>>

\* Airflow runs the task again from its start, or gives the run up.
IngestRetry ==
  IF ingest.tries < IngestRetries
  THEN ingest' = [task |-> IF IngestAt("write") \/ IngestAt("commit") THEN "read" ELSE ingest.task,
                  tries |-> ingest.tries + 1, input |-> {}]
  ELSE IngestGoes("idle", {})

\* Bronze stayed empty for five minutes, or the directory Spark reads is not there.
IngestFindsNothing ==
  /\ \/ IngestAt("wait") /\ bronze = {} /\ ~streamed
     \/ IngestAt("read") /\ bronze = {}
  /\ IngestRetry
  /\ UNCHANGED <<lake, daily, faults, appends>>

\* A task dies.  A job that dies leaves what it had moved, and perhaps objects that
\* it was still writing.
IngestDies ==
  /\ ~IngestAt("idle")
  /\ faults < MaxFaults
  /\ faults' = faults + 1
  /\ IngestRetry
  /\ IF IngestAt("write") THEN silverFiles' \in {silverFiles, TRUE} ELSE UNCHANGED silverFiles
  /\ UNCHANGED <<streamed, bronze, silver, gold, daily, appends>>

-----------------------------------------------------------------------------
(* dag_transform_daily, up to the Gold table                               *)

DailyAt(task) == daily.task = task
DailyGoes(task, input) == daily' = [task |-> task, tries |-> 0, input |-> input]

ScheduleDaily ==
  /\ DailyAt("idle")
  /\ DailyGoes("check", NoRows)
  /\ UNCHANGED <<lake, ingest, faults, appends>>

\* Mutant of CheckSilver: skips a day whose Gold table is there.
CheckSilverOnce ==
  /\ DailyAt("check")
  /\ silverFiles
  /\ DailyGoes(IF gold.state = "complete" THEN "idle" ELSE "read", NoRows)
  /\ UNCHANGED <<lake, ingest, faults, appends>>

CheckSilver ==
  /\ DailyAt("check")
  /\ silverFiles
  /\ DailyGoes("read", NoRows)
  /\ UNCHANGED <<lake, ingest, faults, appends>>

\* All of Silver, as listed now; a directory without a Parquet file has no schema.
ReadSilver ==
  /\ DailyAt("read")
  /\ silver # NoRows
  /\ daily' = [daily EXCEPT !.task = "delete", !.input = silver]
  /\ UNCHANGED <<lake, ingest, faults, appends>>

\* Mutant of DeleteGold: mode("ignore").
KeepGold ==
  /\ DailyAt("delete")
  /\ IF gold.state = "absent" THEN daily' = [daily EXCEPT !.task = "write"]
                              ELSE DailyGoes("idle", NoRows)
  /\ UNCHANGED <<lake, ingest, faults, appends>>

\* mode("overwrite") removes the table, then writes it.
DeleteGold ==
  /\ DailyAt("delete")
  /\ gold' = [state |-> "absent", rows |-> NoRows]
  /\ daily' = [daily EXCEPT !.task = "write"]
  /\ UNCHANGED <<streamed, bronze, silver, silverFiles, ingest, faults, appends>>

WriteGold ==
  /\ DailyAt("write")
  /\ gold' = [state |-> "complete", rows |-> daily.input]
  /\ DailyGoes("idle", NoRows)
  /\ UNCHANGED <<streamed, bronze, silver, silverFiles, ingest, faults, appends>>

DailyRetry ==
  IF daily.tries < DailyRetries
  THEN daily' = [task |-> IF DailyAt("check") THEN "check" ELSE "read",
                 tries |-> daily.tries + 1, input |-> NoRows]
  ELSE DailyGoes("idle", NoRows)

DailyFindsNothing ==
  /\ \/ DailyAt("check") /\ ~silverFiles
     \/ DailyAt("read") /\ silver = NoRows
  /\ DailyRetry
  /\ UNCHANGED <<lake, ingest, faults, appends>>

DailyDies ==
  /\ ~DailyAt("idle")
  /\ faults < MaxFaults
  /\ faults' = faults + 1
  /\ IF DailyAt("write")
     THEN \E part \in SUBSET {e \in Ticks : daily.input[e] > 0} :
            gold' = [state |-> "partial",
                     rows  |-> [e \in Ticks |-> IF e \in part THEN daily.input[e] ELSE 0]]
     ELSE UNCHANGED gold
  /\ DailyRetry
  /\ UNCHANGED <<streamed, bronze, silver, silverFiles, ingest, appends>>

-----------------------------------------------------------------------------

IngestStep ==
  \/ ScheduleIngest
  \/ TriggerNiFi
  \/ WaitBronze
  \/ ReadBronze
  \/ MoveRows
  \/ WriteSilver
  \/ DataQuality
  \/ IngestFindsNothing
  \/ IngestDies

DailyStep ==
  \/ ScheduleDaily
  \/ CheckSilver
  \/ ReadSilver
  \/ DeleteGold
  \/ WriteGold
  \/ DailyFindsNothing
  \/ DailyDies

Next ==
  \/ Stream
  \/ \E e \in Ticks : Land(e)
  \/ IngestStep
  \/ DailyStep

Spec == Init /\ [][Next]_vars

\* Airflow keeps scheduling both DAGs and runs the tasks of an active run.
FairSpec == Spec /\ WF_vars(IngestStep) /\ WF_vars(DailyStep)

-----------------------------------------------------------------------------
(* Properties                                                              *)

TypeOK ==
  /\ streamed \in BOOLEAN
  /\ bronze \subseteq Ticks
  /\ silver \in Rows
  /\ silverFiles \in BOOLEAN
  /\ gold \in [state : {"absent", "partial", "complete"}, rows : Rows]
  /\ ingest \in [task : IngestTasks, tries : 0 .. IngestRetries, input : SUBSET Ticks]
  /\ daily \in [task : DailyTasks, tries : 0 .. DailyRetries, input : Rows]
  /\ faults \in 0 .. MaxFaults
  /\ appends \in 0 .. 2

\* Gold never counts a tick more often than Silver holds it, nor one that
\* validation dropped: not while Silver is appended to under the daily job, and
\* not after a job that died half-way.
GoldFromSilver ==
  \A e \in Ticks : /\ gold.rows[e] <= silver[e]
                   /\ silver[e] > 0 => e \in bronze \cap Valid

\* What a running job holds came from the lake; this makes GoldFromSilver
\* inductive.
InputsFromLake ==
  /\ ingest.input \subseteq bronze \cap Valid
  /\ \A e \in Ticks : daily.input[e] <= silver[e]

\* What an ingest run has to append has one tick of each key, nothing is in Silver
\* before files are moved, and one append leaves one row of each key, of none that it
\* has still to move; this makes OneAppendIsUnique inductive.
AppendedOnce ==
  /\ \A e, f \in ingest.input : KeyOf[e] = KeyOf[f] => e = f
  /\ appends = 0 => ~IngestAt("commit") /\ \A e \in Ticks : silver[e] = 0
  /\ appends < 2 => \A e \in Ticks : silver[e] > 0 =>
                      /\ silver[e] = 1
                      /\ \A f \in Ticks : silver[f] > 0 /\ KeyOf[e] = KeyOf[f] => e = f
                      /\ IngestAt("commit") => \A f \in ingest.input : KeyOf[e] # KeyOf[f]

LakeInv == TypeOK /\ InputsFromLake /\ GoldFromSilver /\ AppendedOnce

\* Rows of Silver with one dedup key.
Copies(k) == {e \in Ticks : KeyOf[e] = k /\ silver[e] > 0}

\* Deduplication works within a job: as long as Silver was appended to once at
\* most, no key has two rows.
OneAppendIsUnique ==
  appends < 2 => \A k \in Keys : /\ Cardinality(Copies(k)) <= 1
                                 /\ \A e \in Copies(k) : silver[e] = 1

\* A tick that landed in Bronze and is valid, or its duplicate, is counted by a complete
\* Gold table in the end, through the failures and retries of both DAGs.
BronzeReachesGold ==
  \A k \in Keys :
    (\E e \in bronze \cap Valid : KeyOf[e] = k)
      ~> \E f \in Ticks : /\ KeyOf[f] = k
                         /\ gold.state = "complete"
                         /\ gold.rows[f] > 0

\* A Gold table that a dead job left missing or partial is rebuilt.
GoldIsRebuilt == gold.state = "partial" ~> gold.state = "complete"
=============================================================================
