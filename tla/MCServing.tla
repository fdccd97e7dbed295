------------------------------ MODULE MCServing ------------------------------
(* Requests of the API, or threads that share one client. *)
EXTENDS Serving

CONSTANTS Threads, shared,
          first, worker   \* a request and its worker: the names of the others are interchangeable with theirs

VARIABLE part

MCUsers    == Requests \cup Threads
MCClients  == Requests \cup {shared}
MCClientOf == [u \in MCUsers |-> IF u \in Threads THEN shared ELSE u]

vars == <<part, servingVars>>

Init == /\ ServingInit
        /\ part \in {"api", "threads"}
        /\ req[first] \in {Query("latest", "none", "known", worker), Query("health", "bad", "known", worker)}
        /\ \A r \in Requests :   \* a price and a health report: by one worker, the price first
             {req[first].kind, req[r].kind} = {"latest", "health"}
               => req[first].kind = "latest" /\ req[r].worker = worker
        /\ req[first].kind = "health" => cass = [up |-> TRUE, table |-> TRUE, ticks |-> {1}]
        /\ part = "threads" => \A r \in Requests : req[r] = Query("health", "bad", "known", worker)   \* they stay new

Next == /\ UNCHANGED part
        /\ \/ part = "api" /\ ServingNext
           \/ part = "threads" /\ UNCHANGED apiVars /\ CassandraChanges /\ cass'.ticks = cass.ticks
           \/ part = "threads" /\ UNCHANGED apiVars /\ \E t \in Threads : ThreadStep(t)

(* The event loop goes on, and takes every request in the end. *)
Spec == Init /\ [][Next]_vars
        /\ \A r \in Requests : WF_vars(part = "api" /\ Handle(r) /\ UNCHANGED part)
=============================================================================
