------------------------------- MODULE Serving -------------------------------
(***************************************************************************)
(* serving/api/main.py.  Some worker processes (serving/Dockerfile) take   *)
(* the connections, each with an event loop.  The handlers are coroutines  *)
(* without an await: a loop runs one of them from its first line to its    *)
(* last, a request for a price with all its attempts to connect included.  *)
(* Such a request uses a CassandraClient of its own; /health looks at      *)
(* three services, one after another; the other endpoints make up their    *)
(* answers.                                                                *)
(***************************************************************************)
EXTENDS CassandraClient, Integers, Sequences

CONSTANTS Requests,    \* Users, each with its own client
          Workers      \* processes of uvicorn

ASSUME OwnClients == /\ Requests \subseteq Users
                     /\ \A r \in Requests, u \in Users : ClientOf[r] = ClientOf[u] => r = u

Services == <<"minio", "postgres", "kafka">>

VARIABLES req,        \* each request: what is asked, how far it is, what was answered
          services    \* services that are up, while /health looks at them

apiVars == <<req, services>>
servingVars == <<cass, clientVars, use, outages, apiVars>>

\* 401 before anything else, 422 by validation, 404 and 400 by the handler; 0: it goes on.
Refusal(q) ==
  CASE q.kind = "health" -> 0
    [] q.token = "bad" -> 401
    [] q.kind = "history" /\ q.input = "out of range" -> 422
    [] q.kind = "portfolio" /\ q.input = "too short" -> 400
    [] q.input = "unknown" -> 404
    [] OTHER -> 0

Query(kind, token, input, worker) ==
  [kind |-> kind, token |-> token, input |-> input, worker |-> worker, st |-> "new", status |-> 0,
   source |-> "none", newest |-> 0, calm |-> TRUE, found |-> <<>>, seen |-> {}]

\* One of each that the handlers tell apart, to each worker; /health asks for no token.
Queries == UNION {
  { Query("latest", "none", "known", w), Query("latest", "none", "unknown", w),
    Query("latest", "bad", "known", w), Query("history", "none", "known", w),
    Query("history", "none", "out of range", w), Query("portfolio", "none", "too short", w),
    Query("portfolio", "none", "known", w), Query("health", "bad", "known", w) } : w \in Workers}

ServingInit == /\ ClientInit
               /\ req \in [Requests -> Queries]
               /\ services = {}

Latest(S) == IF S = {} THEN 0 ELSE CHOOSE t \in S : \A s \in S : s <= t

Arrive(r) ==
  /\ req[r].st = "new"
  /\ req' = [req EXCEPT ![r].st = "waiting", ![r].newest = Latest(cass.ticks)]
  /\ UNCHANGED <<cass, clientVars, use, outages, services>>

Answer(r, status, source) ==
  req' = [req EXCEPT ![r].st = "done", ![r].status = status, ![r].source = source]

Active(kind, sts) == \E r \in Requests : req[r].kind = kind /\ req[r].st \in sts
Runs(r, kind) == req[r].kind = kind /\ req[r].st = "running"

(* A free loop takes a request; what needs no service is answered at once. *)
(* The first to look at the services finds any of them up.                 *)
Begin(r) ==
  /\ req[r].st = "waiting"
  /\ \A o \in Requests : req[o].worker = req[r].worker => req[o].st # "running"
  /\ services' \in IF req[r].kind = "health" /\ ~Active("health", {"running"})
                   THEN SUBSET {"minio", "postgres", "kafka"} ELSE {services}
  /\ IF Refusal(req[r]) # 0 THEN Answer(r, Refusal(req[r]), "none")
     ELSE IF req[r].kind \in {"history", "portfolio"} THEN Answer(r, 200, "mock")
     ELSE IF req[r].kind = "health" THEN req' = [req EXCEPT ![r].st = "running", ![r].seen = services']
     ELSE req' = [req EXCEPT ![r].st = "running", ![r].calm = cass.up /\ cass.table]
  /\ UNCHANGED <<cass, clientVars, use, outages>>

(* _fetch_from_cassandra, through the client. *)
FetchStep(r) ==
  /\ Runs(r, "latest")
  /\ UseClient(r)
  /\ req' = [req EXCEPT ![r].calm = @ /\ outages' = outages]
  /\ UNCHANGED services

(* A tick, no tick at all, or, after any exception, the mock.  The client  *)
(* is dropped with its cluster running.                                    *)
Fetched(r) ==
  /\ Runs(r, "latest")
  /\ \/ use[r].pc = "answered" /\ use[r].got # 0 /\ Answer(r, 200, "live")
     \/ use[r].pc = "answered" /\ use[r].got = 0 /\ Answer(r, 503, "none")
     \/ use[r].pc = "raised" /\ Answer(r, 200, "mock")
  /\ UNCHANGED <<cass, clientVars, use, outages, services>>

(* A connection is tried; a check may fail while its service is up.        *)
CheckService(r) ==
  LET s == Services[Len(req[r].found) + 1]
  IN  /\ Runs(r, "health") /\ Len(req[r].found) < Len(Services)
      /\ \/ /\ s \in services
            /\ req' = [req EXCEPT ![r].found = Append(@, "healthy")]
         \/ req' = [req EXCEPT ![r].found = Append(@, "unavailable")]
      /\ UNCHANGED <<cass, clientVars, use, outages, services>>

Overall(found) == IF \A i \in DOMAIN found : found[i] = "healthy" THEN "healthy" ELSE "degraded"

Checked(r) ==
  /\ Runs(r, "health") /\ Len(req[r].found) = Len(Services)
  /\ Answer(r, 200, Overall(req[r].found))
  /\ services' = IF \E o \in Requests \ {r} : Runs(o, "health") THEN services ELSE {}
  /\ UNCHANGED <<cass, clientVars, use, outages>>

(* Services and Cassandra change while a handler waits for an answer; what *)
(* they do while nobody looks at them is in the state they are met in.     *)
ServiceChanges(s) ==
  /\ Active("health", {"running"})
  /\ \/ s \in services /\ outages < MaxOutages /\ outages' = outages + 1 /\ services' = services \ {s}
     \/ s \notin services /\ services' = services \cup {s} /\ UNCHANGED outages
  /\ req' = [r \in Requests |->
               IF Runs(r, "health") THEN [req[r] EXCEPT !.seen = @ \cup services'] ELSE req[r]]
  /\ UNCHANGED <<cass, clientVars, use>>

StoreChanges ==
  /\ Active("latest", {"waiting", "running"})
  /\ CassandraChanges
  /\ req' = [r \in Requests |-> [req[r] EXCEPT !.calm = @ /\ (cass'.up \/ ~Runs(r, "latest"))]]
  /\ UNCHANGED services

Handle(r) == Begin(r) \/ FetchStep(r) \/ Fetched(r) \/ CheckService(r) \/ Checked(r)

ServingNext == \/ \E r \in Requests : Arrive(r) \/ Handle(r)
               \/ \E i \in DOMAIN Services : ServiceChanges(Services[i])
               \/ StoreChanges

ServingSpec == ServingInit /\ [][ServingNext]_servingVars

-----------------------------------------------------------------------------
ClustersOf(r) == {c \in open : c[1] = r}
FirstOf(r)    == {<<r, 1>>}

Statuses == {0, 200, 400, 401, 404, 422, 503}
Findings == Seq({"healthy", "unavailable"})

QueryShape ==
  [kind : {"latest", "history", "portfolio", "health"}, token : {"none", "bad"},
   input : {"known", "unknown", "out of range", "too short"}, worker : Workers,
   st : {"new", "waiting", "running", "done"}, status : Statuses,
   source : {"none", "mock", "live", "healthy", "degraded"}, newest : 0..MaxTick, calm : BOOLEAN,
   found : Findings, seen : SUBSET {"minio", "postgres", "kafka"}]

(* The client of a request that does not look up a price, or not yet, is   *)
(* as it was made.                                                         *)
Untouched(r) == use[r] = Idle /\ Mine(r).session = None /\ ClustersOf(r) = {}

(* Nobody else is on the client of a request: what it is about to connect  *)
(* is the cluster it has built, and it runs.                               *)
BuiltByItself(r) == use[r].pc = "connect" => Mine(r).cluster = <<r, use[r].attempt>>
                                             /\ Mine(r).cluster \in open

(* As long as nothing failed: one cluster, built on the first attempt, and *)
(* a session in the keyspace as soon as the request is out of connect().   *)
CalmSoFar(r) ==
  /\ use[r].attempt = 1 /\ use[r].pc # "raised"
  /\ use[r].pc = "build" => ClustersOf(r) = {}
  /\ use[r].pc \in {"new", "out"} /\ Mine(r).session = None => ClustersOf(r) = {}
  /\ use[r].pc \in {"connect", "keyspace", "ready", "answered"} => ClustersOf(r) = FirstOf(r)
  /\ use[r].pc = "keyspace" => Mine(r).session # None
  /\ Mine(r).session # None => ClustersOf(r) = FirstOf(r)
  /\ use[r].pc \in {"new", "out", "ready"} /\ Mine(r).session # None => Mine(r).session \in inKs

(* What the handler of a price has found out so far; it ends with the      *)
(* first call that raises, and never uses a client that gave up.           *)
Looking(r) ==
  /\ req[r].kind = "latest" /\ req[r].found = <<>> /\ BuiltByItself(r)
  /\ use[r].gaveUp => use[r].pc = "raised"
  /\ req[r].calm => cass.up /\ cass.table /\ CalmSoFar(r)

\* ... and that of a health report.
Checking(r) ==
  /\ req[r].kind = "health" /\ Untouched(r) /\ services \subseteq req[r].seen
  /\ Len(req[r].found) <= Len(Services)
  /\ \A i \in DOMAIN req[r].found : req[r].found[i] = "healthy" => Services[i] \in req[r].seen

(* A request, from its arrival to its answer; what was refused is not      *)
(* looked up.                                                              *)
Handling(r) ==
  /\ req[r].st # "done" => req[r].status = 0 /\ req[r].source = "none"
  /\ req[r].st \in {"new", "waiting"} => Untouched(r) /\ req[r].found = <<>>
  /\ req[r].st = "new" => req[r].newest = 0
  /\ req[r].st = "running" => Looking(r) \/ Checking(r)
  /\ req[r].newest # 0 => req[r].newest \in cass.ticks
  /\ use[r].pc = "answered" /\ use[r].got # 0 => use[r].got >= req[r].newest
  /\ req[r].source = "live" => /\ use[r].pc = "answered" /\ use[r].got # 0
                               /\ req[r].calm => ClustersOf(r) = FirstOf(r)
  /\ req[r].status \notin {0, 200, 503} => Untouched(r)

(* Shapes; requests close no client, and each handler knows what it has    *)
(* found out, whatever the handlers of other workers do meanwhile.         *)
ServingInv ==
  /\ ClientInv
  /\ services \subseteq {"minio", "postgres", "kafka"}
  /\ req \in [Requests -> QueryShape]
  /\ \A r \in Requests : ClientOf[r] \notin closed /\ Handling(r)

(* While Cassandra is there with its table and nothing is lost, a price is *)
(* never made up, and a price from Cassandra is at least as new as every   *)
(* tick stored when the request came (main.py:139-173).                    *)
CalmMeansLive == \A r \in Requests : req[r].st = "done" /\ req[r].calm /\ req[r].kind = "latest"
                                       => req[r].source # "mock"
LiveIsNewest  == \A r \in Requests : req[r].source = "live" => use[r].got >= req[r].newest

(* Every request for a price leaves its clusters running: one if nothing   *)
(* went wrong, and one for each attempt that failed after it had connected *)
(* (main.py:150, client.py:47-66).                                         *)
ClustersLeft ==
  \A r \in Requests : req[r].st = "done" =>
    /\ Cardinality(ClustersOf(r)) <= MaxAttempts
    /\ req[r].calm /\ req[r].source = "live" => Cardinality(ClustersOf(r)) = 1

(* "healthy" is said only if each of the three services was up at some     *)
(* moment of the check, though not all at the same (main.py:410-465).      *)
HealthTruthful == \A r \in Requests : req[r].source = "healthy"
                                        => req[r].seen = {"minio", "postgres", "kafka"}

(* What a price and a health report say was so while the request was       *)
(* handled (main.py:139-228, :410-465).                                    *)
AnswersTruthful == CalmMeansLive /\ LiveIsNewest /\ HealthTruthful

(* Every request that came is answered, though a loop runs one handler at  *)
(* a time and a handler may have to give Cassandra up (main.py:208-228,    *)
(* :404-465).                                                              *)
EveryRequestAnswered == \A r \in Requests : (req[r].st = "waiting") ~> (req[r].st = "done")
=============================================================================
