---------------------------- MODULE CassandraClient ----------------------------
(***************************************************************************)
(* storage/cassandra/client.py and the read side of tick_store.py, up to   *)
(* the statements that need a session in the keyspace.  Each user of a     *)
(* client runs the code on its own: an API request, or the consumer's      *)
(* thread, with a client of its own, or threads that share one, as the     *)
(* class offers ("Thread-safe Cassandra session manager").  A cluster is   *)
(* named by the user and the attempt that built it; a session, by its      *)
(* cluster and by who connected.                                           *)
(***************************************************************************)
EXTENDS Naturals, FiniteSets

CONSTANTS Users,
          Clients,
          ClientOf,      \* the client each user works with
          MaxAttempts,   \* stop_after_attempt of connect
          MaxTick,       \* bound: ticks of the ticker asked for, by timestamp
          MaxOutages     \* bound: outages, and requests that are lost

ASSUME ClientConstants == /\ ClientOf \in [Users -> Clients]
                          /\ MaxAttempts \in Nat \ {0} /\ MaxTick \in Nat \ {0} /\ MaxOutages \in Nat

VARIABLES cass,      \* [up, table, ticks]: table when schemas.cql was loaded
          client,    \* _cluster and _session of each client
          open,      \* clusters that were built and not shut down
          setUp,     \* clusters whose control connection was made
          inKs,      \* sessions after set_keyspace
          closed,    \* clients on which close() was called
          use,       \* each user: [pc, attempt, todo, got, held, gaveUp]
          outages

clientVars == <<client, open, setUp, inKs, closed>>

None == <<>>

\* A user that has not called anything.
Idle == [pc |-> "new", attempt |-> 1, todo |-> "prepare", got |-> 0, held |-> None, gaveUp |-> FALSE]

ClientInit ==
  /\ cass \in [up : BOOLEAN, table : BOOLEAN, ticks : {{}, {1}}]
  /\ client = [c \in Clients |-> [cluster |-> None, session |-> None]]
  /\ open = {} /\ setUp = {} /\ inKs = {} /\ closed = {}
  /\ use = [u \in Users |-> Idle]
  /\ outages = 0

Mine(u)    == client[ClientOf[u]]
Goto(u, l) == use' = [use EXCEPT ![u].pc = l]

(* A request to Cassandra is served, or fails: the server is down, or the  *)
(* request is lost.                                                        *)
Serves == cass.up /\ UNCHANGED outages
Fails  == IF cass.up THEN outages < MaxOutages /\ outages' = outages + 1 ELSE UNCHANGED outages

-----------------------------------------------------------------------------
(* The property session: connect() only when there is none yet.  What it   *)
(* returns is used whatever becomes of the client meanwhile.               *)
Session(u) ==
  /\ use[u].pc \in {"new", "out"}
  /\ use' = IF Mine(u).session = None THEN [use EXCEPT ![u].pc = "build"]
             ELSE [use EXCEPT ![u].pc = "ready", ![u].held = Mine(u).session]
  /\ UNCHANGED <<cass, clientVars, outages>>

Build(u) ==
  LET c == <<u, use[u].attempt>>
  IN  /\ use[u].pc = "build"
      /\ client' = [client EXCEPT ![ClientOf[u]].cluster = c]
      /\ open' = open \cup {c}
      /\ Goto(u, "connect")
      /\ UNCHANGED <<cass, setUp, inKs, closed, outages>>

\* Mutant of Retry: no stop condition.
RetryForever(u) == use' = [use EXCEPT ![u].pc = "build"]

(* connect() raised: tenacity waits and calls it again, ten times. *)
Retry(u) ==
  use' = IF use[u].attempt = MaxAttempts THEN [use EXCEPT ![u].pc = "raised", ![u].gaveUp = TRUE]
         ELSE [use EXCEPT ![u].pc = "build", ![u].attempt = @ + 1]

(* self._cluster.connect(): self._cluster may be another thread's.  The    *)
(* driver shuts a cluster down when its control connection fails; one that *)
(* has it, and then fails to make a session, it leaves running.            *)
Connect(u) ==
  LET c == Mine(u).cluster
  IN  /\ use[u].pc = "connect"
      /\ \/ /\ Serves /\ c \in open
            /\ client' = [client EXCEPT ![ClientOf[u]].session = <<c, u, use[u].attempt>>]
            /\ setUp' = setUp \cup {c}
            /\ Goto(u, "keyspace")
            /\ UNCHANGED open
         \/ /\ Fails /\ c \in open
            /\ setUp' = setUp \cup {c}
            /\ Retry(u)
            /\ UNCHANGED <<client, open>>
         \/ /\ \/ Fails
               \/ c \notin open /\ UNCHANGED outages
            /\ open' = open \ ({c} \ setUp)
            /\ Retry(u)
            /\ UNCHANGED <<client, setUp>>
      /\ UNCHANGED <<cass, inKs, closed>>

\* Mutant of Keyspace: the attempt that failed shuts its client's cluster down.
KeyspaceCleansUp(u) ==
  /\ use[u].pc = "keyspace"
  /\ \/ Serves /\ inKs' = inKs \cup {Mine(u).session} /\ Goto(u, "out") /\ UNCHANGED open
     \/ Fails /\ Retry(u) /\ open' = open \ {Mine(u).cluster} /\ UNCHANGED inKs
  /\ UNCHANGED <<cass, client, setUp, closed>>

\* Mutant of Keyspace: its failure is only logged.
KeyspaceFailureLogged(u) ==
  /\ use[u].pc = "keyspace"
  /\ Goto(u, "out")
  /\ \/ Serves /\ inKs' = inKs \cup {Mine(u).session}
     \/ Fails /\ UNCHANGED inKs
  /\ UNCHANGED <<cass, client, open, setUp, closed>>

(* CREATE KEYSPACE and set_keyspace, on whatever self._session is by then. *)
Keyspace(u) ==
  /\ use[u].pc = "keyspace"
  /\ \/ Serves /\ inKs' = inKs \cup {Mine(u).session} /\ Goto(u, "out")
     \/ Fails /\ Retry(u) /\ UNCHANGED inKs
  /\ UNCHANGED <<cass, client, open, setUp, closed>>

\* Mutant of Newest: the clustering order of schemas.cql is ascending.
OldestFirst(S) == CHOOSE t \in S : \A s \in S : t <= s

\* SELECT ... LIMIT 1 in clustering order, timestamp DESC.
Newest(S) == CHOOSE t \in S : \A s \in S : t >= s

\* A session answers while its cluster runs, and knows the table in its keyspace.
Works(session) == session \in inKs /\ session[1] \in open /\ cass.table

\* Mutant of Statement: the query does not reuse the session the store was prepared on.
StatementReconnects(u) ==
  /\ use[u].pc = "ready"
  /\ \/ /\ Serves /\ Works(use[u].held)
        /\ use' = IF use[u].todo = "prepare"
                  THEN [use EXCEPT ![u].pc = "build", ![u].attempt = MaxAttempts, ![u].todo = "query"]
                  ELSE [use EXCEPT ![u].pc = "answered",
                                   ![u].got = IF cass.ticks = {} THEN 0 ELSE Newest(cass.ticks)]
     \/ /\ \/ Fails
           \/ ~Works(use[u].held) /\ UNCHANGED outages
        /\ Goto(u, "raised")
  /\ UNCHANGED <<cass, clientVars>>

(* A statement: both are prepared when the store is built, then the query  *)
(* runs.  It fails on a session that is shut down or outside the keyspace, *)
(* and while there is no table.                                            *)
Statement(u) ==
  /\ use[u].pc = "ready"
  /\ \/ /\ Serves /\ Works(use[u].held)
        /\ use' = IF use[u].todo = "prepare" THEN [use EXCEPT ![u].pc = "out", ![u].todo = "query"]
                  ELSE [use EXCEPT ![u].pc = "answered",
                                   ![u].got = IF cass.ticks = {} THEN 0 ELSE Newest(cass.ticks)]
     \/ /\ \/ Fails
           \/ ~Works(use[u].held) /\ UNCHANGED outages
        /\ Goto(u, "raised")
  /\ UNCHANGED <<cass, clientVars>>

UseClient(u) == Session(u) \/ Build(u) \/ Connect(u) \/ Keyspace(u) \/ Statement(u)

(* A thread goes on after a statement, whatever came of it.  Bound: only   *)
(* while its client has a session, so that it connects once.               *)
GoOn(u) ==
  /\ use[u].pc \in {"answered", "raised"}
  /\ Mine(u).session # None
  /\ Goto(u, "out")
  /\ UNCHANGED <<cass, clientVars, outages>>

(* close(), between two calls: the cluster that is there by then is shut   *)
(* down, and _session stays.                                               *)
Close(u) ==
  /\ use[u].pc \in {"new", "out", "answered", "raised"}
  /\ Mine(u).cluster # None
  /\ open' = open \ {Mine(u).cluster}
  /\ closed' = closed \cup {ClientOf[u]}
  /\ UNCHANGED <<cass, client, setUp, inKs, use, outages>>

ThreadStep(u) == UseClient(u) \/ GoOn(u) \/ Close(u)

-----------------------------------------------------------------------------
Outage == /\ cass.up /\ outages < MaxOutages
          /\ outages' = outages + 1
          /\ cass' = [cass EXCEPT !.up = FALSE]

Recovers == ~cass.up /\ cass' = [cass EXCEPT !.up = TRUE] /\ UNCHANGED outages

SchemaLoaded == cass.up /\ ~cass.table /\ cass' = [cass EXCEPT !.table = TRUE] /\ UNCHANGED outages

(* The consumer inserts a tick, not always the newest. *)
TickStored == \E t \in (1..MaxTick) \ cass.ticks :
  cass.up /\ cass.table /\ cass' = [cass EXCEPT !.ticks = @ \cup {t}] /\ UNCHANGED outages

CassandraChanges == /\ Outage \/ Recovers \/ SchemaLoaded \/ TickStored
                    /\ UNCHANGED <<clientVars, use>>

-----------------------------------------------------------------------------
(* Threads that share clients, and Cassandra underneath.                   *)
ClientNext == CassandraChanges \/ \E u \in Users : ThreadStep(u)
ClientSpec == ClientInit /\ [][ClientNext]_<<cass, clientVars, use, outages>>

-----------------------------------------------------------------------------
Ids      == Users \X (1..MaxAttempts)
Sessions == Ids \X Users \X (1..MaxAttempts)
Uses     == [pc : {"new", "out", "build", "connect", "keyspace", "ready", "answered", "raised"},
             attempt : 1..MaxAttempts, todo : {"prepare", "query"}, got : 0..MaxTick,
             held : Sessions \cup {None}, gaveUp : BOOLEAN]

\* So far nobody else has called anything of the client.
Alone(u) == \A o \in Users \ {u} : ClientOf[o] = ClientOf[u] => use[o] = Idle

(* A user who is alone holds the session of its client; outside connect()  *)
(* that one is in the keyspace, unless connect() has given up.             *)
SessionOfOne(u) ==
  /\ use[u].pc = "keyspace" => Mine(u).session # None
  /\ use[u].pc = "ready" => use[u].held = Mine(u).session
  /\ use[u].pc \in {"new", "out", "ready", "answered", "raised"} /\ Mine(u).session # None
       => Mine(u).session \in inKs \/ use[u].gaveUp

ClientTypes ==
  /\ cass \in [up : BOOLEAN, table : BOOLEAN, ticks : SUBSET (1..MaxTick)]
  /\ use \in [Users -> Uses]
  /\ setUp \subseteq Ids /\ open \subseteq Ids /\ outages \in 0..MaxOutages
  /\ client \in [Clients -> [cluster : Ids \cup {None}, session : Sessions \cup {None}]]

\* What is on a client was built for it, and a session has had a control connection.
OnClient(c) ==
  /\ client[c].cluster # None => ClientOf[client[c].cluster[1]] = c
  /\ client[c].session # None => /\ client[c].session[1] \in setUp
                                 /\ ClientOf[client[c].session[1][1]] = c

HeldBy(u) == use[u].pc = "ready" => /\ use[u].held # None /\ use[u].held[1] \in setUp
                                    /\ ClientOf[use[u].held[1][1]] = ClientOf[u]

(* Shapes; what is on a client, and what its users took from it; and only  *)
(* close() shuts a cluster down that has had its control connection.       *)
ClientInv ==
  /\ ClientTypes
  /\ \A c \in Clients : OnClient(c)
  /\ \A s \in setUp : s \in open \/ ClientOf[s[1]] \in closed
  /\ \A u \in Users : HeldBy(u) /\ (Alone(u) => SessionOfOne(u))

(* Whoever gets past the property session holds a session.  Its cluster    *)
(* runs unless close() was called on the client, also when threads share   *)
(* it and one of them failed to connect; and the session of a user whose   *)
(* client nobody else has used is in the keyspace, unless a connect() of   *)
(* its own has given up after it had stored the session (client.py:38-76,  *)
(* :88-92).                                                                *)
SessionIsUsable ==
  \A u \in Users : use[u].pc = "ready" =>
    /\ use[u].held # None
    /\ use[u].held[1] \in open \/ ClientOf[u] \in closed
    /\ Alone(u) => use[u].held \in inKs \/ use[u].gaveUp
=============================================================================
