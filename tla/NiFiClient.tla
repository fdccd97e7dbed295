------------------------------ MODULE NiFiClient ------------------------------
(***************************************************************************)
(* The first task of dag_ingest_batch (_trigger_nifi) and the client it    *)
(* uses (ingestion/nifi/nifi_api.py).  A client logs in once and keeps its *)
(* token; start_process_group is tried three times with that token; the    *)
(* task is tried again by Airflow with a client of its own.  An outage, a  *)
(* lost request and the expiry of the tokens are faults.                   *)
(***************************************************************************)
EXTENDS Naturals

CONSTANTS StartAttempts,   \* stop_after_attempt of start_process_group
          TaskTries,       \* 1 + retries of the DAG
          MaxNiFiFaults    \* bound: faults

ASSUME NiFiConstants == /\ StartAttempts \in Nat \ {0} /\ TaskTries \in Nat \ {0}
                        /\ MaxNiFiFaults \in Nat

VARIABLES nifi,     \* [up, secured, login, group]: login numbers the tokens in force
          task,     \* [st, try, attempt, token, asked, started]
          nifiFaults

nifiVars == <<nifi, task, nifiFaults>>

Calls  == {"health", "list", "start", "status"}   \* the requests of a try, in order
Try(n) == [st |-> "health", try |-> n, attempt |-> 1, token |-> 0, asked |-> FALSE, started |-> FALSE]

NiFiInit ==
  /\ nifi \in [up : BOOLEAN, secured : BOOLEAN, login : {1}, group : {"none", "stopped"}]
  /\ task = Try(1)
  /\ nifiFaults = 0

Busy  == task.st \in Calls
Fault == nifiFaults < MaxNiFiFaults /\ nifiFaults' = nifiFaults + 1

(* The task raised: Airflow runs it again, with a new client. *)
NewTry(t) ==
  IF t.try = TaskTries THEN [t EXCEPT !.st = "failed"] ELSE Try(t.try + 1)

(* _ensure_auth: without a token the client asks for one; a failure is     *)
(* only logged.  NiFi without security refuses the login.                  *)
EnsureAuth ==
  /\ Busy /\ ~task.asked
  /\ \/ /\ task' = [task EXCEPT !.asked = TRUE,
                      !.token = IF @ = 0 /\ nifi.up /\ nifi.secured THEN nifi.login ELSE @]
        /\ UNCHANGED nifiFaults
     \/ /\ task.token = 0
        /\ Fault
        /\ task' = [task EXCEPT !.asked = TRUE]
  /\ UNCHANGED nifi

Allowed == nifi.up /\ (nifi.secured => task.token = nifi.login)

(* A request that is answered, and what the task does next. *)
Answered ==
  LET next == [task EXCEPT !.asked = FALSE]
  IN  /\ Busy /\ task.asked /\ Allowed
      /\ nifi' = IF task.st = "start" THEN [nifi EXCEPT !.group = "running"] ELSE nifi
      /\ task' = CASE task.st = "health" -> [next EXCEPT !.st = "list"]
                   [] task.st = "list"   ->
                        [next EXCEPT !.st = IF nifi.group = "none" THEN "nogroup" ELSE "start"]
                   [] task.st = "start"  -> [next EXCEPT !.st = "status", !.started = TRUE]
                   [] task.st = "status" -> [next EXCEPT !.st = "triggered"]
      /\ UNCHANGED nifiFaults

\* Mutant of Raised: the task goes on when NiFi is not healthy.
RaisedUnhealthy(t) ==
  CASE t.st = "health" -> [t EXCEPT !.st = "list", !.asked = FALSE]
    [] t.st = "start" /\ t.attempt < StartAttempts -> [t EXCEPT !.attempt = @ + 1, !.asked = FALSE]
    [] OTHER -> NewTry(t)

(* A request that raised: is_healthy turns it into False and the task      *)
(* succeeds without having done anything; start_process_group tries again; *)
(* the others end the try.                                                 *)
Raised(t) ==
  CASE t.st = "health" -> [t EXCEPT !.st = "skipped"]
    [] t.st = "start" /\ t.attempt < StartAttempts -> [t EXCEPT !.attempt = @ + 1, !.asked = FALSE]
    [] OTHER -> NewTry(t)

Refused == /\ Busy /\ task.asked /\ ~Allowed
           /\ task' = Raised(task)
           /\ UNCHANGED <<nifi, nifiFaults>>

(* The request or its answer is lost: a start may have taken effect. *)
Lost == /\ Busy /\ task.asked /\ Allowed
        /\ Fault
        /\ task' = Raised(task)
        /\ nifi' \in {nifi} \cup {[nifi EXCEPT !.group = "running"] : x \in {task.st} \cap {"start"}}

NiFiDown    == nifi.up /\ Fault /\ nifi' = [nifi EXCEPT !.up = FALSE] /\ UNCHANGED task
NiFiUp      == ~nifi.up /\ nifi' = [nifi EXCEPT !.up = TRUE] /\ UNCHANGED <<task, nifiFaults>>
TokenExpires == nifi.secured /\ Fault /\ nifi' = [nifi EXCEPT !.login = @ + 1] /\ UNCHANGED task

NiFiNext == EnsureAuth \/ Answered \/ Refused \/ Lost \/ NiFiDown \/ NiFiUp \/ TokenExpires

NiFiSpec == NiFiInit /\ [][NiFiNext]_nifiVars

-----------------------------------------------------------------------------
(* Every try that is over cost a fault: NiFi let the client in for its     *)
(* first request, so something happened since if it does not any more.     *)
TriesCostFaults ==
  /\ nifiFaults >= task.try - 1
  /\ task.st \in Calls \ {"health"} /\ ~Allowed => nifiFaults >= task.try
  /\ task.st = "failed" => nifiFaults >= TaskTries

(* Shapes; a client holds no token that was never given out, and only from *)
(* a NiFi that asks for one.                                               *)
NiFiInv ==
  /\ nifi \in [up : BOOLEAN, secured : BOOLEAN, login : 1..(MaxNiFiFaults + 1),
               group : {"none", "stopped", "running"}]
  /\ task \in [st : Calls \cup {"skipped", "nogroup", "triggered", "failed"},
               try : 1..TaskTries, attempt : 1..StartAttempts, token : Nat,
               asked : BOOLEAN, started : BOOLEAN]
  /\ task.token <= nifi.login /\ (task.token # 0 => nifi.secured)
  /\ nifiFaults \in 0..MaxNiFiFaults /\ nifi.login <= nifiFaults + 1
  /\ task.started => nifi.group = "running"
  /\ task.st = "status" => task.started
  /\ TriesCostFaults

(* A task that reports a trigger did start the group in that try, however  *)
(* many requests of it were lost or refused (nifi_api.py:107-114, :134).   *)
TriggeredMeansStarted == task.st = "triggered" => task.started

(* The task fails only after a fault in each of its tries: a token that    *)
(* went stale, with which all three attempts are refused, costs one try,   *)
(* and a NiFi that stays down costs none (nifi_api.py:57-64, :142-148).    *)
FailedCostsFaults == task.st = "failed" => nifiFaults >= TaskTries

(* The end of the task tells what happened (dag_ingest_batch.py:34-52).    *)
TriggerTruthful == TriggeredMeansStarted /\ FailedCostsFaults
=============================================================================
