---------------------------- MODULE NewsSentiment ----------------------------
(***************************************************************************)
(* The tasks that write to the lake through MinIOClient, side by side:     *)
(* the daily news DAG (orchestration/dags/dag_ai_sentiment.py), the last   *)
(* task of the weekly privacy sweep (dag_privacy_sweep.py) and the audit   *)
(* entries of privacy/gdpr.py.  Each handles a failing store its own way.  *)
(*   - news: build a client and a BronzeWriter, put the batch, and save it *)
(*     on the local disk when that raises; but batch_id is bound only      *)
(*     after the writer is built, so a failure before it fails the task;   *)
(*   - sweep: put the log entry; a failure fails the task;                 *)
(*   - audit: put the entry; a failure is logged, the caller goes on.      *)
(* Airflow runs a failed task, or one whose worker died, once more         *)
(* (retries=1).  Batch and log names hold the second they were made in:    *)
(* every try has a name of its own, and two tasks are assumed not to share *)
(* a second.                                                               *)
(***************************************************************************)
EXTENDS ObjectStore, Integers, FiniteSets

CONSTANTS News, Sweeps, Audits,  \* runs of the two DAGs, GDPR operations
          Tools,                 \* other users of MinIOClient, on a path of their own
          ToolPath, Blob,
          MaxTries,              \* 1 + retries
          Together,              \* bound: clients at work in one behaviour
          MaxDeaths              \* bound: workers that die

Tasks == News \cup Sweeps \cup Audits

(* The names of two tries differ, and nobody else writes under them. *)
ASSUME NewsConstants ==
  /\ MaxTries \in Nat \ {0} /\ MaxDeaths \in Nat
  /\ Tasks \cup Tools \subseteq Clients
  /\ Tools \cap Tasks = {} /\ News \cap (Sweeps \cup Audits) = {}
  /\ Sweeps \cap Audits = {}
  /\ Blob \in Blobs
  /\ (Tasks \X (1..MaxTries)) \cup {ToolPath} \subseteq Paths
  /\ ToolPath \notin Tasks \X (1..MaxTries)

VARIABLES task,      \* [st, try] of each task
          aggregate, \* the second task of a news run
          local,     \* batches under logs/bronze/sentiment
          deaths,    \* workers that died so far
          active     \* the clients at work in this behaviour

taskVars == <<task, aggregate, local, deaths, active>>
vars == <<storeVars, taskVars>>

PathOf(j) == <<j, task[j].try>>

Init == /\ StoreInit
        /\ task = [j \in Tasks |-> [st |-> "scheduled", try |-> 1]]
        /\ aggregate = [j \in News |-> "none"]
        /\ local = {}
        /\ deaths = 0
        /\ active \in {A \in SUBSET Clients : Cardinality(A) = Together}

To(j, st) == task' = [task EXCEPT ![j].st = st]

(* Airflow: a failed try is scheduled again until the retries are spent.   *)
TryFails(j) ==
  task' = [task EXCEPT ![j] = IF j \in Audits \/ @.try = MaxTries
                              THEN [@ EXCEPT !.st = "failed"]
                              ELSE [st |-> "scheduled", try |-> @.try + 1]]

(* The headlines are analysed first (analyze_headline never raises), then  *)
(* BronzeWriter's constructor ensures the bucket.                          *)
StartNews(j) == /\ j \in active
                /\ task[j].st = "scheduled"
                /\ To(j, "building")
                /\ Call(j, "ensure", PathOf(j), Blob)
                /\ UNCHANGED <<bucket, objects, faults, aggregate, local, deaths, active>>

WriteBatch(j) == /\ task[j].st = "building"
                 /\ call[j].pc = "returned"
                 /\ To(j, "writing")
                 /\ Call(j, "put", PathOf(j), Blob)
                 /\ UNCHANGED <<bucket, objects, faults, aggregate, local, deaths, active>>

(* The except clause names batch_id before it is bound: NameError. *)
WriterNotBuilt(j) == /\ task[j].st = "building"
                     /\ call[j].pc = "raised"
                     /\ TryFails(j)
                     /\ Hang(j)
                     /\ UNCHANGED <<bucket, objects, faults, aggregate, local, deaths, active>>

\* Mutant of BatchWritten: the task fails, and is tried again, after saving locally.
BatchReRaises(j) == /\ task[j].st = "writing"
                    /\ call[j].pc \in {"returned", "raised"}
                    /\ local' = local \cup {p \in {PathOf(j)} : call[j].pc = "raised"}
                    /\ IF call[j].pc = "raised" THEN TryFails(j) ELSE To(j, "success")
                    /\ Hang(j)
                    /\ UNCHANGED <<bucket, objects, faults, aggregate, deaths, active>>

BatchWritten(j) == /\ task[j].st = "writing"
                   /\ call[j].pc \in {"returned", "raised"}
                   /\ local' = local \cup {p \in {PathOf(j)} : call[j].pc = "raised"}
                   /\ To(j, "success")
                   /\ Hang(j)
                   /\ UNCHANGED <<bucket, objects, faults, aggregate, deaths, active>>

(* t1 >> t2.  Without PySpark run_aggregation returns a path and writes    *)
(* nothing; with it, it raises: it reads gold/daily_summary/, which nobody *)
(* writes (silver_to_gold and GoldWriter write gold/daily-summary/).       *)
Aggregate(j) == /\ task[j].st = "success"
                /\ aggregate[j] = "none"
                /\ \E end \in {"simulated", "raised"} :
                     aggregate' = [aggregate EXCEPT ![j] = end]
                /\ UNCHANGED <<storeVars, task, local, deaths, active>>

(* The sweep's log entry and a GDPR audit entry are one put each. *)
StartPut(j) == /\ j \in active
               /\ task[j].st = "scheduled"
               /\ To(j, "writing")
               /\ Call(j, "put", PathOf(j), Blob)
               /\ UNCHANGED <<bucket, objects, faults, aggregate, local, deaths, active>>

PutReturned(j) == /\ task[j].st = "writing"
                  /\ call[j].pc = "returned"
                  /\ To(j, "success")
                  /\ Hang(j)
                  /\ UNCHANGED <<bucket, objects, faults, aggregate, local, deaths, active>>

SweepRaised(j) == /\ task[j].st = "writing"
                  /\ call[j].pc = "raised"
                  /\ TryFails(j)
                  /\ Hang(j)
                  /\ UNCHANGED <<bucket, objects, faults, aggregate, local, deaths, active>>

(* _write_audit_log logs the error and returns: its caller reports success. *)
AuditRaised(j) == /\ task[j].st = "writing"
                  /\ call[j].pc = "raised"
                  /\ To(j, "success")
                  /\ Hang(j)
                  /\ UNCHANGED <<bucket, objects, faults, aggregate, local, deaths, active>>

(* The process that runs a task dies, its request possibly served. *)
WorkerDies(j) == /\ task[j].st \in {"building", "writing"}
                 /\ deaths < MaxDeaths
                 /\ deaths' = deaths + 1
                 /\ TryFails(j)
                 /\ Hang(j)
                 /\ UNCHANGED <<bucket, objects, faults, aggregate, local, active>>

ToolCall(c) == /\ c \in active
               /\ call[c].pc \in {"idle", "returned", "raised"}
               /\ \E op \in Ops : Call(c, op, ToolPath, Blob)
               /\ UNCHANGED <<bucket, objects, faults, taskVars>>

Next == \/ \E c \in Clients : StoreStep(c) /\ UNCHANGED taskVars
        \/ \E j \in News : \/ StartNews(j) \/ WriteBatch(j) \/ WriterNotBuilt(j)
                           \/ BatchWritten(j) \/ Aggregate(j)
        \/ \E j \in Sweeps \cup Audits : StartPut(j) \/ PutReturned(j)
        \/ \E j \in Sweeps : SweepRaised(j)
        \/ \E j \in Audits : AuditRaised(j)
        \/ \E j \in Tasks : WorkerDies(j)
        \/ \E c \in Tools : ToolCall(c)

Spec == Init /\ [][Next]_vars

-----------------------------------------------------------------------------
Statuses == {"scheduled", "building", "writing", "success", "failed"}

Stored(j) == {t \in 1..MaxTries : objects[<<j, t>>] # NoBlob}

(* A task has a call under way exactly while it builds or writes; it       *)
(* writes under the name of its try, and what was served is there.         *)
TasksCall ==
  \A j \in Tasks :
    /\ task[j].st \in {"building", "writing"} <=> call[j].pc # "idle"
    /\ task[j].st = "building" => call[j].op = "ensure"
    /\ task[j].st = "writing" =>
         /\ call[j].op = "put" /\ call[j].path = PathOf(j)
         /\ call[j].seen => task[j].try \in Stored(j)

(* Every other client at work is a tool, on the path of its own. *)
ToolsKeepToThemselves ==
  \A c \in Clients \ Tasks : call[c].pc # "idle" => call[c].path = ToolPath

(* While no worker dies, what a news run stored it stored in its last try, *)
(* the one that writes its batch.                                          *)
StoredByLastTry ==
  deaths = 0 => \A j \in News : \A t \in Stored(j) :
                  t = task[j].try /\ task[j].st \in {"writing", "success"}

(* What a task reports is kept: a batch the aggregation starts from is in  *)
(* Bronze or on the local disk, a finished sweep has its log entry, and a  *)
(* GDPR operation loses its audit entry only after the network failed the  *)
(* upload MaxAttempts-1 times (gdpr.py:205, dag_ai_sentiment.py:66).       *)
ReportsKept ==
  /\ \A j \in News : task[j].st = "success" =>
        Stored(j) # {} \/ \E t \in 1..MaxTries : <<j, t>> \in local
  /\ \A j \in Sweeps : task[j].st = "success" => Stored(j) # {}
  /\ \A j \in Audits : task[j].st = "success" => Stored(j) # {} \/ faults >= MaxAttempts - 1

(* The types, and the parts of the inductive invariant: the store is well  *)
(* formed, the calls are those of the tasks, and the names tell the tries  *)
(* apart (dag_ai_sentiment.py:55-74, client.py:43-66).                     *)
NewsInv ==
  /\ StoreInv
  /\ task \in [Tasks -> [st : Statuses, try : 1..MaxTries]]
  /\ aggregate \in [News -> {"none", "simulated", "raised"}]
  /\ local \subseteq (News \X (1..MaxTries))
  /\ deaths \in 0..MaxDeaths
  /\ active \subseteq Clients
  /\ TasksCall
  /\ ToolsKeepToThemselves
  /\ StoredByLastTry
  /\ ReportsKept

(* While no worker dies, a news run leaves at most one batch in Bronze,    *)
(* however often it is tried: only a failure before the upload is retried  *)
(* (dag_ai_sentiment.py:55-74).                                            *)
OneBatchPerRun == deaths = 0 => \A j \in News : \A s, t \in Stored(j) : s = t

(* Every report of a task is true, and no batch is there twice while no    *)
(* worker dies (dag_ai_sentiment.py:55-74, gdpr.py:205).                   *)
ReportsTruthful == ReportsKept /\ OneBatchPerRun
=============================================================================
