----------------------------- MODULE ServingProof -----------------------------
(***************************************************************************)
(* The client of Cassandra and the API, for any number of threads,         *)
(* requests, ticks, attempts and outages.  First the threads that share    *)
(* clients, then the requests, each on a client of its own; and both as    *)
(* MCServing has them checked.                                             *)
(***************************************************************************)
EXTENDS MCServing, FiniteSetTheorems, WellFoundedInduction, TLAPS

-----------------------------------------------------------------------------
(* What LIMIT 1 in clustering order and the newest tick on arrival return. *)

(* A non-empty set of ticks has a newest one: the ticks counted down from  *)
(* the bound have a least one.                                             *)
LEMMA NewestExists ==
  ASSUME NEW n \in Nat, NEW S \in SUBSET (1..n), S # {}
  PROVE  \E t \in S : \A s \in S : t >= s
<1> DEFINE R == OpToRel(<, Nat)
           D == {n - t : t \in S}
<1>1. IsWellFoundedOn(R, Nat)  BY NatLessThanWellFounded, Zenon
<1>2. D \subseteq Nat /\ D # {}
  <2>1. \A t \in S : n - t \in Nat  OBVIOUS
  <2>2. D \subseteq Nat  BY <2>1
  <2>3. PICK t \in S : TRUE  OBVIOUS
  <2>4. n - t \in D  OBVIOUS
  <2> QED  BY <2>2, <2>4
<1>3. \A x, y \in Nat : x < y => <<x, y>> \in R  BY Zenon DEF OpToRel
<1> HIDE DEF R, D
<1>4. PICK x \in D : \A y \in D : ~(<<y, x>> \in R)  BY <1>1, <1>2, WFMin
<1>5. PICK t \in S : x = n - t  BY <1>4 DEF D
<1>6. ASSUME NEW s \in S PROVE t >= s
  <2>1. n - s \in D  BY DEF D
  <2>2. ~(n - s < x)  BY <2>1, <1>2, <1>3, <1>4
  <2> QED  BY <2>2, <1>5
<1> QED  BY <1>6

(* Newest and Latest are one of the ticks, and no tick is newer.           *)
LEMMA NewestIsNewest ==
  ASSUME NEW S \in SUBSET (1..MaxTick), S # {}
  PROVE  /\ Newest(S) \in S /\ \A s \in S : Newest(S) >= s
         /\ Latest(S) \in S
<1>1. PICK t \in S : \A s \in S : t >= s  BY NewestExists, ClientConstants
<1>2. \A s \in S : s <= t  BY <1>1
<1>3. Newest(S) \in S /\ \A s \in S : Newest(S) >= s  BY <1>1 DEF Newest
<1>4. Latest(S) \in S  BY <1>1, <1>2 DEF Latest
<1> QED  BY <1>3, <1>4

-----------------------------------------------------------------------------
(* One user moves: what its record becomes, the others' stay.              *)

(* The frame of a step of one user.                                        *)
LEMMA OneUserMoves ==
  ASSUME use \in [Users -> Uses], NEW u \in Users, NEW q \in Uses, use' = [use EXCEPT ![u] = q]
  PROVE  use' \in [Users -> Uses] /\ use'[u] = q /\ \A v \in Users \ {u} : use'[v] = use[v]
OBVIOUS

(* A step that only moves the program counter.                             *)
LEMMA GotoMoves ==
  ASSUME use \in [Users -> Uses], NEW u \in Users, NEW l, Goto(u, l),
         l \in {"out", "build", "connect", "keyspace", "ready", "answered", "raised"}
  PROVE  /\ use' \in [Users -> Uses] /\ \A v \in Users \ {u} : use'[v] = use[v]
         /\ use'[u].pc = l /\ use'[u].attempt = use[u].attempt
         /\ use'[u].todo = use[u].todo /\ use'[u].got = use[u].got
         /\ use'[u].held = use[u].held /\ use'[u].gaveUp = use[u].gaveUp
<1>1. use[u] \in Uses  OBVIOUS
<1>2. PICK q : q = [use[u] EXCEPT !.pc = l]  OBVIOUS
<1>3. q \in Uses  BY <1>1, <1>2 DEF Uses
<1>4. use' = [use EXCEPT ![u] = q]  BY <1>1, <1>2 DEF Goto, Uses
<1>5. q.pc = l /\ q.attempt = use[u].attempt /\ q.todo = use[u].todo /\ q.got = use[u].got
      /\ q.held = use[u].held /\ q.gaveUp = use[u].gaveUp
  BY <1>1, <1>2 DEF Uses
<1> QED  BY <1>3, <1>4, <1>5, OneUserMoves

(* A failed attempt: the next one, or the end.                             *)
LEMMA RetryMoves ==
  ASSUME use \in [Users -> Uses], NEW u \in Users, Retry(u)
  PROVE  /\ use' \in [Users -> Uses] /\ \A v \in Users \ {u} : use'[v] = use[v]
         /\ use'[u].pc \in {"raised", "build"}
         /\ use'[u].pc = "raised" => use'[u].gaveUp
         /\ use'[u].gaveUp => use[u].gaveUp \/ use'[u].pc = "raised"
<1>1. use[u] \in Uses  OBVIOUS
<1>2. CASE use[u].attempt = MaxAttempts
  <2>1. PICK q : q = [use[u] EXCEPT !.pc = "raised", !.gaveUp = TRUE]  OBVIOUS
  <2>2. q \in Uses /\ q.pc = "raised" /\ q.gaveUp  BY <1>1, <2>1 DEF Uses
  <2>3. use' = [use EXCEPT ![u] = q]  BY <1>1, <1>2, <2>1 DEF Retry, Uses
  <2> QED  BY <2>2, <2>3, OneUserMoves
<1>3. CASE use[u].attempt # MaxAttempts
  <2>1. PICK n : n = use[u].attempt + 1  OBVIOUS
  <2>2. n \in 1..MaxAttempts  BY <1>1, <1>3, <2>1, ClientConstants DEF Uses
  <2>3. PICK q : q = [use[u] EXCEPT !.pc = "build", !.attempt = n]  OBVIOUS
  <2>4. q \in Uses /\ q.pc = "build" /\ q.gaveUp = use[u].gaveUp  BY <1>1, <2>2, <2>3 DEF Uses
  <2>5. use' = [use EXCEPT ![u] = q]  BY <1>1, <1>3, <2>1, <2>3 DEF Retry, Uses
  <2> QED  BY <2>4, <2>5, OneUserMoves
<1> QED  BY <1>2, <1>3

(* The property session finds none, or hands out the one there is.         *)
LEMMA SessionMoves ==
  ASSUME ClientTypes, NEW u \in Users, Session(u)
  PROVE  /\ use' \in [Users -> Uses] /\ \A v \in Users \ {u} : use'[v] = use[v]
         /\ use'[u].attempt = use[u].attempt /\ use'[u].gaveUp = use[u].gaveUp
         /\ IF Mine(u).session = None THEN use'[u].pc = "build"
            ELSE use'[u].pc = "ready" /\ use'[u].held = Mine(u).session
<1>1. use \in [Users -> Uses] /\ use[u] \in Uses  BY DEF ClientTypes
<1>2. CASE Mine(u).session = None
  <2>1. Goto(u, "build")  BY <1>2 DEF Session, Goto
  <2> QED  BY <1>1, <1>2, <2>1, GotoMoves
<1>3. CASE Mine(u).session # None
  <2>1. PICK s : s = Mine(u).session  OBVIOUS
  <2>2. s \in Sessions  BY <1>3, <2>1, ClientConstants DEF ClientTypes, Mine
  <2>3. PICK q : q = [use[u] EXCEPT !.pc = "ready", !.held = s]  OBVIOUS
  <2>4. q \in Uses /\ q.pc = "ready" /\ q.held = s /\ q.attempt = use[u].attempt /\ q.gaveUp = use[u].gaveUp
    BY <1>1, <2>2, <2>3 DEF Uses
  <2>5. use' = [use EXCEPT ![u] = q]  BY <1>1, <1>3, <2>1, <2>3 DEF Session, Uses
  <2>6. use' \in [Users -> Uses] /\ use'[u] = q /\ \A v \in Users \ {u} : use'[v] = use[v]
    BY <1>1, <2>4, <2>5, OneUserMoves
  <2> QED  BY <1>3, <2>1, <2>4, <2>6
<1> QED  BY <1>2, <1>3

(* A statement is served, prepared or answered, or it raises.              *)
LEMMA StatementMoves ==
  ASSUME ClientTypes, NEW u \in Users, Statement(u)
  PROVE  /\ use' \in [Users -> Uses] /\ \A v \in Users \ {u} : use'[v] = use[v]
         /\ use'[u].attempt = use[u].attempt /\ use'[u].gaveUp = use[u].gaveUp
         /\ \/ /\ use'[u].pc \in {"out", "answered"} /\ cass.up /\ outages' = outages
               /\ use'[u].pc = "answered" => use'[u].got = IF cass.ticks = {} THEN 0 ELSE Newest(cass.ticks)
            \/ use'[u].pc = "raised" /\ (Fails \/ ~Works(use[u].held))
<1> DEFINE newest == IF cass.ticks = {} THEN 0 ELSE Newest(cass.ticks)
<1>1. use \in [Users -> Uses] /\ use[u] \in Uses  BY DEF ClientTypes
<1>2. newest \in 0..MaxTick
  <2>1. cass.ticks \in SUBSET (1..MaxTick)  BY DEF ClientTypes
  <2> QED  BY <2>1, NewestIsNewest, ClientConstants
<1> HIDE DEF newest
<1>3. CASE use' = [use EXCEPT ![u].pc = "out", ![u].todo = "query"] /\ Serves
  <2>1. PICK q : q = [use[u] EXCEPT !.pc = "out", !.todo = "query"]  OBVIOUS
  <2>2. q \in Uses /\ q.pc = "out" /\ q.attempt = use[u].attempt /\ q.gaveUp = use[u].gaveUp
    BY <1>1, <2>1 DEF Uses
  <2>3. use' = [use EXCEPT ![u] = q]  BY <1>1, <1>3, <2>1 DEF Uses
  <2>4. use'[u] = q /\ use' \in [Users -> Uses] /\ \A v \in Users \ {u} : use'[v] = use[v]
    BY <1>1, <2>2, <2>3, OneUserMoves
  <2> QED  BY <2>2, <2>4, <1>3 DEF Serves
<1>4. CASE use' = [use EXCEPT ![u].pc = "answered", ![u].got = newest] /\ Serves
  <2>1. PICK q : q = [use[u] EXCEPT !.pc = "answered", !.got = newest]  OBVIOUS
  <2>2. q \in Uses /\ q.pc = "answered" /\ q.got = newest /\ q.attempt = use[u].attempt /\ q.gaveUp = use[u].gaveUp
    BY <1>1, <1>2, <2>1 DEF Uses
  <2>3. use' = [use EXCEPT ![u] = q]  BY <1>1, <1>4, <2>1 DEF Uses
  <2>4. use'[u] = q /\ use' \in [Users -> Uses] /\ \A v \in Users \ {u} : use'[v] = use[v]
    BY <1>1, <2>2, <2>3, OneUserMoves
  <2> QED  BY <2>2, <2>4, <1>4 DEF Serves, newest
<1>5. CASE Goto(u, "raised") /\ (Fails \/ ~Works(use[u].held))
  BY <1>1, <1>5, GotoMoves
<1> QED  BY <1>3, <1>4, <1>5 DEF Statement, newest

-----------------------------------------------------------------------------
(* Threads that share clients.                                             *)

(* No session and no cluster is None.                                      *)
LEMMA NobodyIsNone ==
  /\ \A a, b, c : <<a, b, c>> # None
  /\ None \notin Ids /\ None \notin Sessions
BY DEF None, Ids, Sessions

(* What a user does to the client it shares: the cluster it built, or a    *)
(* session of whatever cluster is there by then.                           *)
LEMMA ClientChanges ==
  ASSUME ClientInv, NEW u \in Users, UseClient(u)
  PROVE  /\ client' \in [Clients -> [cluster : Ids \cup {None}, session : Sessions \cup {None}]]
         /\ \A c \in Clients \ {ClientOf[u]} : client'[c] = client[c]
         /\ setUp \subseteq setUp' /\ inKs \subseteq inKs' /\ closed' = closed
<1> DEFINE Shape == [cluster : Ids \cup {None}, session : Sessions \cup {None}]
           k == ClientOf[u]
           id == <<u, use[u].attempt>>
           s == <<Mine(u).cluster, u, use[u].attempt>>
<1>1. k \in Clients /\ use[u] \in Uses /\ client \in [Clients -> Shape] /\ open \subseteq Ids
  BY ClientConstants DEF ClientInv, ClientTypes
<1>2. setUp \subseteq setUp' /\ inKs \subseteq inKs' /\ closed' = closed
  BY DEF UseClient, Session, Build, Connect, Keyspace, Statement, clientVars
<1>3. CASE client' = client  BY <1>1, <1>2, <1>3
<1>4. CASE client' = [client EXCEPT ![k].cluster = id]
  <2>1. id \in Ids  BY <1>1 DEF Ids, Uses
  <2> HIDE DEF id
  <2> QED  BY <1>1, <1>2, <1>4, <2>1
<1>5. CASE client' = [client EXCEPT ![k].session = s] /\ Mine(u).cluster \in open
  <2>1. s \in Sessions  BY <1>1, <1>5 DEF Sessions, Uses
  <2> HIDE DEF s
  <2> QED  BY <1>1, <1>2, <1>5, <2>1
<1>6. client' = client \/ client' = [client EXCEPT ![k].cluster = id]
      \/ (client' = [client EXCEPT ![k].session = s] /\ Mine(u).cluster \in open)
  BY DEF UseClient, Session, Build, Connect, Keyspace, Statement, clientVars
<1> QED  BY <1>3, <1>4, <1>5, <1>6

(* What a step of one user has to show; the others are as they were, and   *)
(* on its client nobody is alone any more.                                 *)
LEMMA StepKeeps ==
  ASSUME ClientInv, NEW u \in Users, ClientTypes',
         \A v \in Users \ {u} : use'[v] = use[v], use'[u] # Idle,
         \A c \in Clients \ {ClientOf[u]} : client'[c] = client[c],
         setUp \subseteq setUp', inKs \subseteq inKs', OnClient(ClientOf[u])',
         \A s \in setUp' : s \in open' \/ ClientOf[s[1]] \in closed',
         HeldBy(u)', Alone(u) => SessionOfOne(u)'
  PROVE  ClientInv'
<1>1. \A c \in Clients : OnClient(c)'  BY DEF ClientInv, OnClient
<1>2. \A v \in Users : HeldBy(v)'  BY DEF ClientInv, HeldBy
<1>3. ASSUME NEW v \in Users, Alone(v)' PROVE SessionOfOne(v)'
  <2>1. CASE v = u
    <3>1. Alone(u)  BY <1>3, <2>1 DEF Alone
    <3> QED  BY <2>1, <3>1
  <2>2. CASE v # u
    <3>1. ClientOf[u] # ClientOf[v]  BY <1>3, <2>2 DEF Alone
    <3>2. Alone(v)  BY <1>3, <2>2, <3>1 DEF Alone
    <3>3. use'[v] = use[v] /\ Mine(v)' = Mine(v)  BY <2>2, <3>1, ClientConstants DEF Mine
    <3> QED  BY <3>2, <3>3 DEF ClientInv, SessionOfOne
  <2> QED  BY <2>1, <2>2
<1> QED  BY <1>1, <1>2, <1>3 DEF ClientInv

(* Nobody is idle who has moved.                                           *)
LEMMA NotIdle ==
  ASSUME NEW q, q.pc # "new"
  PROVE  q # Idle
BY DEF Idle

(* Asking for the session keeps the invariant.                             *)
LEMMA SessionStep ==
  ASSUME ClientInv, NEW u \in Users, Session(u)
  PROVE  ClientInv'
<1>1. ClientTypes /\ UNCHANGED <<cass, client, open, setUp, inKs, closed, outages>> /\ use[u].pc \in {"new", "out"}
  BY DEF ClientInv, Session, clientVars
<1>2. /\ use' \in [Users -> Uses] /\ (\A v \in Users \ {u} : use'[v] = use[v])
      /\ use'[u].gaveUp = use[u].gaveUp
      /\ IF Mine(u).session = None THEN use'[u].pc = "build"
         ELSE use'[u].pc = "ready" /\ use'[u].held = Mine(u).session
  BY <1>1, SessionMoves
<1>3. ClientTypes' /\ use'[u] # Idle  BY <1>1, <1>2, NotIdle DEF ClientTypes
<1>4. Mine(u)' = Mine(u) /\ OnClient(ClientOf[u])' /\ OnClient(ClientOf[u])
  BY <1>1, ClientConstants DEF ClientInv, Mine, OnClient
<1>5. HeldBy(u)'  BY <1>1, <1>2, <1>4 DEF HeldBy, OnClient, Mine
<1>6. Alone(u) => SessionOfOne(u)'  BY <1>1, <1>2, <1>4 DEF ClientInv, SessionOfOne
<1> QED  BY <1>1, <1>2, <1>3, <1>4, <1>5, <1>6, StepKeeps DEF ClientInv

(* Building a cluster keeps the invariant.                                 *)
LEMMA BuildStep ==
  ASSUME ClientInv, NEW u \in Users, Build(u)
  PROVE  ClientInv'
<1>1. ClientTypes /\ UseClient(u) /\ use[u] \in Uses /\ Goto(u, "connect")
  BY DEF ClientInv, ClientTypes, UseClient, Build
<1>2. use' \in [Users -> Uses] /\ use'[u].pc = "connect" /\ \A v \in Users \ {u} : use'[v] = use[v]
  BY <1>1, GotoMoves DEF ClientTypes
<1>3. <<u, use[u].attempt>> \in Ids  BY <1>1 DEF Ids, Uses
<1>4. open \subseteq open' /\ open' \subseteq Ids /\ UNCHANGED <<cass, setUp, inKs, closed, outages>>
  BY <1>1, <1>3 DEF ClientTypes, Build
<1>5. ClientTypes' /\ use'[u] # Idle  BY <1>1, <1>2, <1>4, ClientChanges, NotIdle DEF ClientTypes
<1>6. OnClient(ClientOf[u])'
  <2>1. PICK c : c = <<u, use[u].attempt>>  OBVIOUS
  <2>2. client' = [client EXCEPT ![ClientOf[u]].cluster = c] /\ c[1] = u  BY <2>1 DEF Build
  <2>3. client'[ClientOf[u]].cluster = c /\ client'[ClientOf[u]].session = client[ClientOf[u]].session
    BY <1>1, <2>2, ClientConstants DEF ClientTypes
  <2> QED  BY <1>4, <2>2, <2>3, ClientConstants DEF ClientInv, OnClient
<1>7. HeldBy(u)' /\ SessionOfOne(u)'  BY <1>2 DEF HeldBy, SessionOfOne
<1> QED  BY <1>1, <1>2, <1>4, <1>5, <1>6, <1>7, ClientChanges, StepKeeps DEF ClientInv

(* A cluster is shut down only if its control connection was never made.   *)
LEMMA ConnectStep ==
  ASSUME ClientInv, NEW u \in Users, Connect(u)
  PROVE  ClientInv'
<1> DEFINE c == Mine(u).cluster
           s == <<c, u, use[u].attempt>>
<1>1. ClientTypes /\ UseClient(u) /\ use[u] \in Uses /\ UNCHANGED <<cass, inKs, closed>>
      /\ ClientOf[u] \in Clients
  BY ClientConstants DEF ClientInv, ClientTypes, UseClient, Connect
<1>2. /\ use' \in [Users -> Uses] /\ (\A v \in Users \ {u} : use'[v] = use[v])
      /\ use'[u].pc \in {"keyspace", "build", "raised"} /\ (use'[u].pc = "raised" => use'[u].gaveUp)
      /\ \/ client' = client /\ use'[u].pc # "keyspace"
         \/ client' = [client EXCEPT ![ClientOf[u]].session = s] /\ setUp' = setUp \cup {c} /\ c \in open
  BY <1>1, GotoMoves, RetryMoves DEF ClientTypes, Connect
<1>3. /\ setUp \subseteq setUp' /\ setUp' \subseteq Ids /\ open' \subseteq Ids
      /\ \A d \in setUp' : d \in open' \/ ClientOf[d[1]] \in closed'
  BY <1>1 DEF ClientInv, ClientTypes, Connect
<1>4. outages' \in 0..MaxOutages  BY <1>1, ClientConstants DEF ClientTypes, Connect, Serves, Fails
<1>5. ClientTypes' /\ use'[u] # Idle  BY <1>1, <1>2, <1>3, <1>4, ClientChanges, NotIdle DEF ClientTypes
<1>6. OnClient(ClientOf[u])' /\ (use'[u].pc = "keyspace" => Mine(u)'.session # None)
  <2>1. OnClient(ClientOf[u])  BY <1>1 DEF ClientInv
  <2>2. CASE client' = client /\ use'[u].pc # "keyspace"  BY <1>3, <2>1, <2>2 DEF OnClient
  <2>3. CASE client' = [client EXCEPT ![ClientOf[u]].session = s] /\ setUp' = setUp \cup {c} /\ c \in open
    <3>1. PICK t : t = s  OBVIOUS
    <3>2. client'[ClientOf[u]].session = t /\ client'[ClientOf[u]].cluster = c  BY <1>1, <2>3, <3>1 DEF ClientTypes, Mine
    <3>3. c # None  BY <1>1, <2>3, NobodyIsNone DEF ClientTypes
    <3>4. ClientOf[c[1]] = ClientOf[u]  BY <2>1, <3>3 DEF OnClient, Mine
    <3>5. t[1] = c /\ t # None  BY <3>1, NobodyIsNone
    <3> HIDE DEF c
    <3> QED  BY <2>3, <3>2, <3>4, <3>5 DEF OnClient, Mine
  <2> QED  BY <1>2, <2>2, <2>3
<1>7. HeldBy(u)' /\ SessionOfOne(u)'  BY <1>2, <1>6 DEF HeldBy, SessionOfOne
<1> QED  BY <1>1, <1>2, <1>3, <1>5, <1>6, <1>7, ClientChanges, StepKeeps

(* Creating the keyspace, or failing to, keeps the invariant.              *)
LEMMA KeyspaceStep ==
  ASSUME ClientInv, NEW u \in Users, Keyspace(u)
  PROVE  ClientInv'
<1>1. ClientTypes /\ UNCHANGED <<cass, client, open, setUp, closed>> /\ inKs \subseteq inKs'
  BY DEF ClientInv, Keyspace
<1>2. /\ use' \in [Users -> Uses] /\ (\A v \in Users \ {u} : use'[v] = use[v])
      /\ use'[u].pc \in {"out", "build", "raised"} /\ (use'[u].pc = "raised" => use'[u].gaveUp)
      /\ use'[u].pc = "out" => Mine(u).session \in inKs'
  BY <1>1, GotoMoves, RetryMoves DEF ClientTypes, Keyspace
<1>3. outages' \in 0..MaxOutages  BY <1>1, ClientConstants DEF ClientTypes, Keyspace, Serves, Fails
<1>4. ClientTypes' /\ use'[u] # Idle  BY <1>1, <1>2, <1>3, NotIdle DEF ClientTypes
<1>5. Mine(u)' = Mine(u) /\ OnClient(ClientOf[u])'  BY <1>1, ClientConstants DEF ClientInv, Mine, OnClient
<1>6. HeldBy(u)' /\ SessionOfOne(u)'  BY <1>2, <1>5 DEF HeldBy, SessionOfOne
<1> QED  BY <1>1, <1>2, <1>4, <1>5, <1>6, StepKeeps DEF ClientInv

(* A statement, served or not, keeps the invariant.                        *)
LEMMA StatementStep ==
  ASSUME ClientInv, NEW u \in Users, Statement(u)
  PROVE  ClientInv'
<1>1. ClientTypes /\ UNCHANGED <<cass, client, open, setUp, inKs, closed>> /\ use[u].pc = "ready"
  BY DEF ClientInv, Statement, clientVars
<1>2. /\ use' \in [Users -> Uses] /\ (\A v \in Users \ {u} : use'[v] = use[v])
      /\ use'[u].pc \in {"out", "answered", "raised"} /\ use'[u].gaveUp = use[u].gaveUp
  BY <1>1, StatementMoves
<1>3. outages' \in 0..MaxOutages  BY <1>1, ClientConstants DEF ClientTypes, Statement, Serves, Fails
<1>4. ClientTypes' /\ use'[u] # Idle  BY <1>1, <1>2, <1>3, NotIdle DEF ClientTypes
<1>5. Mine(u)' = Mine(u) /\ OnClient(ClientOf[u])'  BY <1>1, ClientConstants DEF ClientInv, Mine, OnClient
<1>6. HeldBy(u)' /\ (Alone(u) => SessionOfOne(u)')  BY <1>1, <1>2, <1>5 DEF ClientInv, HeldBy, SessionOfOne
<1> QED  BY <1>1, <1>2, <1>4, <1>5, <1>6, StepKeeps DEF ClientInv

(* Going on after a statement keeps the invariant.                         *)
LEMMA GoOnStep ==
  ASSUME ClientInv, NEW u \in Users, GoOn(u)
  PROVE  ClientInv'
<1>1. ClientTypes /\ UNCHANGED <<cass, client, open, setUp, inKs, closed, outages>> /\ Goto(u, "out")
      /\ use[u].pc \in {"answered", "raised"}
  BY DEF ClientInv, GoOn, clientVars
<1>2. /\ use' \in [Users -> Uses] /\ (\A v \in Users \ {u} : use'[v] = use[v])
      /\ use'[u].pc = "out" /\ use'[u].gaveUp = use[u].gaveUp
  BY <1>1, GotoMoves DEF ClientTypes
<1>3. ClientTypes' /\ use'[u] # Idle  BY <1>1, <1>2, NotIdle DEF ClientTypes
<1>4. Mine(u)' = Mine(u) /\ OnClient(ClientOf[u])'  BY <1>1, ClientConstants DEF ClientInv, Mine, OnClient
<1>5. HeldBy(u)' /\ (Alone(u) => SessionOfOne(u)')  BY <1>1, <1>2, <1>4 DEF ClientInv, HeldBy, SessionOfOne
<1> QED  BY <1>1, <1>2, <1>3, <1>4, <1>5, StepKeeps DEF ClientInv

(* close() shuts down what is its client's own.                            *)
LEMMA CloseStep ==
  ASSUME ClientInv, NEW u \in Users, Close(u)
  PROVE  ClientInv'
<1>1. /\ UNCHANGED <<cass, client, setUp, inKs, use, outages>> /\ Mine(u).cluster # None
      /\ open' = open \ {Mine(u).cluster} /\ closed' = closed \cup {ClientOf[u]}
  BY DEF Close
<1>2. ClientTypes'  BY <1>1 DEF ClientInv, ClientTypes
<1>3. ClientOf[Mine(u).cluster[1]] = ClientOf[u]  BY <1>1, ClientConstants DEF ClientInv, OnClient, Mine
<1>4. \A s \in setUp' : s \in open' \/ ClientOf[s[1]] \in closed'  BY <1>1, <1>3 DEF ClientInv
<1>5. (\A k \in Clients : OnClient(k)') /\ \A v \in Users : HeldBy(v)'
  BY <1>1 DEF ClientInv, OnClient, HeldBy
<1>6. \A v \in Users : Alone(v)' => SessionOfOne(v)'  BY <1>1 DEF ClientInv, Alone, SessionOfOne, Mine
<1> QED  BY <1>2, <1>4, <1>5, <1>6 DEF ClientInv

(* What does not change the clients keeps their invariant.                 *)
LEMMA ClientsStay ==
  ASSUME ClientInv, UNCHANGED <<client, open, setUp, inKs, closed, use>>, ClientTypes'
  PROVE  ClientInv'
<1>1. (\A k \in Clients : OnClient(k)') /\ \A v \in Users : HeldBy(v)'
  BY DEF ClientInv, OnClient, HeldBy
<1>2. \A v \in Users : Alone(v)' => SessionOfOne(v)'  BY DEF ClientInv, Alone, SessionOfOne, Mine
<1> QED  BY <1>1, <1>2 DEF ClientInv

(* Cassandra changes without the clients, and loses nothing.               *)
LEMMA CassandraStep ==
  ASSUME ClientInv, CassandraChanges
  PROVE  /\ ClientInv' /\ UNCHANGED <<client, open, setUp, inKs, closed, use>>
         /\ cass.ticks \subseteq cass'.ticks /\ (cass.table => cass'.table)
<1>1. UNCHANGED <<client, open, setUp, inKs, closed, use>>  BY DEF CassandraChanges, clientVars
<1>2. cass' \in [up : BOOLEAN, table : BOOLEAN, ticks : SUBSET (1..MaxTick)]
      /\ cass.ticks \subseteq cass'.ticks /\ (cass.table => cass'.table) /\ outages' \in 0..MaxOutages
  <2>1. cass \in [up : BOOLEAN, table : BOOLEAN, ticks : SUBSET (1..MaxTick)] /\ outages \in 0..MaxOutages
    BY DEF ClientInv, ClientTypes
  <2>2. CASE Outage
    <3>1. outages' \in 0..MaxOutages  BY <2>1, <2>2, ClientConstants DEF Outage
    <3>2. cass' = [cass EXCEPT !.up = FALSE]  BY <2>2 DEF Outage
    <3> QED  BY <2>1, <3>1, <3>2
  <2>3. CASE Recovers  BY <2>1, <2>3 DEF Recovers
  <2>4. CASE SchemaLoaded  BY <2>1, <2>4 DEF SchemaLoaded
  <2>5. CASE TickStored  BY <2>1, <2>5 DEF TickStored
  <2> QED  BY <2>2, <2>3, <2>4, <2>5 DEF CassandraChanges
<1>3. ClientTypes'  BY <1>1, <1>2 DEF ClientInv, ClientTypes
<1> QED  BY <1>1, <1>2, <1>3, ClientsStay

(* Every step of a user keeps the invariant.                               *)
LEMMA UseStep ==
  ASSUME ClientInv, NEW u \in Users, UseClient(u)
  PROVE  ClientInv'
BY SessionStep, BuildStep, ConnectStep, KeyspaceStep, StatementStep DEF UseClient

(* Every step of a thread does.                                            *)
LEMMA ThreadKeeps ==
  ASSUME ClientInv, NEW u \in Users, ThreadStep(u)
  PROVE  ClientInv'
BY UseStep, GoOnStep, CloseStep DEF ThreadStep

(* The initial states satisfy the invariant of the clients.                *)
LEMMA InitClientInv == ClientInit => ClientInv
<1> SUFFICES ASSUME ClientInit PROVE ClientInv  OBVIOUS
<1>1. 1 \in 1..MaxAttempts /\ 1 \in 1..MaxTick /\ 0 \in 0..MaxTick /\ 0 \in 0..MaxOutages  BY ClientConstants
<1>2. use \in [Users -> Uses] /\ \A u \in Users : use[u].pc = "new"
  <2>1. Idle \in Uses /\ Idle.pc = "new"  BY <1>1 DEF Idle, Uses
  <2> QED  BY <2>1 DEF ClientInit
<1>3. cass \in [up : BOOLEAN, table : BOOLEAN, ticks : SUBSET (1..MaxTick)]
  <2>1. {{}, {1}} \subseteq SUBSET (1..MaxTick)  BY <1>1
  <2> QED  BY <2>1 DEF ClientInit
<1>4. client \in [Clients -> [cluster : Ids \cup {None}, session : Sessions \cup {None}]]
      /\ \A c \in Clients : client[c].session = None /\ client[c].cluster = None
  BY DEF ClientInit
<1>5. ClientTypes  BY <1>1, <1>2, <1>3, <1>4 DEF ClientInit, ClientTypes
<1>6. (\A c \in Clients : OnClient(c)) /\ \A u \in Users : HeldBy(u) /\ SessionOfOne(u)
  BY <1>2, <1>4, ClientConstants DEF OnClient, HeldBy, SessionOfOne, Mine
<1> QED  BY <1>5, <1>6 DEF ClientInit, ClientInv

(* What is held was set up, and only close() shuts that down; who is alone *)
(* holds the session of its client.                                        *)
LEMMA HeldIsUsable == ClientInv => SessionIsUsable
<1> SUFFICES ASSUME ClientInv, NEW u \in Users, use[u].pc = "ready"
             PROVE  /\ use[u].held # None
                    /\ use[u].held[1] \in open \/ ClientOf[u] \in closed
                    /\ Alone(u) => use[u].held \in inKs \/ use[u].gaveUp
  BY DEF SessionIsUsable
<1>1. use[u].held # None /\ use[u].held[1] \in setUp /\ ClientOf[use[u].held[1][1]] = ClientOf[u]
  BY DEF ClientInv, HeldBy
<1>2. use[u].held[1] \in open \/ ClientOf[u] \in closed  BY <1>1 DEF ClientInv
<1>3. Alone(u) => use[u].held \in inKs \/ use[u].gaveUp  BY <1>1 DEF ClientInv, SessionOfOne
<1> QED  BY <1>1, <1>2, <1>3

(* Threads that share clients, however their attempts interleave, and      *)
(* whenever one of them calls close(): whoever gets past the property      *)
(* session holds a session; its cluster runs unless its client was closed; *)
(* and where only one user is on a client its session is in the keyspace,  *)
(* unless a connect() of its own has given up (client.py:38-92).           *)
THEOREM SharedSessionsAreUsable == ClientSpec => [](ClientInv /\ SessionIsUsable)
<1>1. ClientInit => ClientInv  BY InitClientInv
<1>2. ClientInv /\ [ClientNext]_<<cass, clientVars, use, outages>> => ClientInv'
  <2> SUFFICES ASSUME ClientInv, [ClientNext]_<<cass, clientVars, use, outages>> PROVE ClientInv'  OBVIOUS
  <2>1. CASE CassandraChanges  BY <2>1, CassandraStep
  <2>2. ASSUME NEW u \in Users, ThreadStep(u) PROVE ClientInv'  BY <2>2, ThreadKeeps
  <2>3. CASE UNCHANGED <<cass, clientVars, use, outages>>
    <3>1. ClientTypes'  BY <2>3 DEF ClientInv, ClientTypes, clientVars
    <3> QED  BY <2>3, <3>1, ClientsStay DEF clientVars
  <2> QED  BY <2>1, <2>2, <2>3 DEF ClientNext
<1> QED  BY <1>1, <1>2, HeldIsUsable, PTL DEF ClientSpec

-----------------------------------------------------------------------------
(* Requests: what the handler of a price does to its own client.           *)

(* It leaves the clients of the other requests alone.                      *)
LEMMA OthersKeepTheirClients ==
  ASSUME ClientInv, NEW r \in Requests, BuiltByItself(r), UseClient(r), NEW o \in Requests, o # r
  PROVE  use'[o] = use[o] /\ Mine(o)' = Mine(o) /\ ClustersOf(o)' = ClustersOf(o) /\ inKs \subseteq inKs'
<1>1. r \in Users /\ o \in Users /\ ClientOf[o] # ClientOf[r] /\ ClientOf[o] \in Clients
  BY OwnClients, ClientConstants
<1>2. Mine(o)' = Mine(o) /\ inKs \subseteq inKs'  BY <1>1, ClientChanges DEF Mine
<1>3. use'[o] = use[o]
  <2>1. ClientTypes /\ use \in [Users -> Uses]  BY DEF ClientInv, ClientTypes
  <2>2. CASE Session(r)  BY <1>1, <2>1, <2>2, SessionMoves
  <2>3. CASE ~Session(r)
    BY <1>1, <2>1, <2>3, GotoMoves, RetryMoves, StatementMoves DEF UseClient, Build, Connect, Keyspace
  <2> QED  BY <2>2, <2>3
<1>4. ClustersOf(o)' = ClustersOf(o)
  <2>1. CASE Build(r)
    <3>1. open' = open \cup {<<r, use[r].attempt>>}  BY <2>1 DEF Build
    <3> QED  BY <3>1 DEF ClustersOf
  <2>2. CASE Connect(r)
    <3>1. Mine(r).cluster = <<r, use[r].attempt>>  BY <2>2 DEF Connect, BuiltByItself
    <3>2. open' = open \/ open' = open \ ({Mine(r).cluster} \ setUp)  BY <2>2 DEF Connect
    <3> QED  BY <3>1, <3>2 DEF ClustersOf
  <2> QED
    BY <2>1, <2>2 DEF UseClient, Session, Keyspace, Statement, clientVars, ClustersOf
<1> QED  BY <1>2, <1>3, <1>4

(* What it builds it connects: nobody else sets the cluster of its client, *)
(* or shuts it down in between.                                            *)
LEMMA BuildsItself ==
  ASSUME ClientInv, NEW r \in Requests, UseClient(r)
  PROVE  BuiltByItself(r)'
<1>1. r \in Users /\ ClientOf[r] \in Clients  BY OwnClients, ClientConstants
<1>2. use \in [Users -> Uses] /\ client \in [Clients -> [cluster : Ids \cup {None}, session : Sessions \cup {None}]]
      /\ ClientTypes
  BY DEF ClientInv, ClientTypes
<1>3. CASE Build(r)
  <2>1. Goto(r, "connect") /\ client' = [client EXCEPT ![ClientOf[r]].cluster = <<r, use[r].attempt>>]
        /\ open' = open \cup {<<r, use[r].attempt>>}
    BY <1>3 DEF Build
  <2>2. use'[r].attempt = use[r].attempt  BY <1>1, <1>2, <2>1, GotoMoves
  <2>3. Mine(r)'.cluster = <<r, use[r].attempt>>  BY <1>1, <1>2, <2>1 DEF Mine
  <2> QED  BY <2>1, <2>2, <2>3 DEF BuiltByItself
<1>4. CASE ~Build(r)
  <2>1. use'[r].pc # "connect"
    <3>1. CASE Session(r)  BY <1>1, <1>2, <3>1, SessionMoves
    <3>2. CASE ~Session(r)
      BY <1>1, <1>2, <1>4, <3>2, GotoMoves, RetryMoves, StatementMoves DEF UseClient, Connect, Keyspace
    <3> QED  BY <3>1, <3>2
  <2> QED  BY <2>1 DEF BuiltByItself
<1> QED  BY <1>3, <1>4

(* A request that lost nothing so far and loses nothing in this step.      *)
LEMMA CalmFetch ==
  ASSUME ClientInv, NEW r \in Requests, BuiltByItself(r), CalmSoFar(r), cass.up, cass.table,
         ClientOf[r] \notin closed, UseClient(r), outages' = outages
  PROVE  CalmSoFar(r)'
<1>1. r \in Users /\ ClientOf[r] \in Clients  BY OwnClients, ClientConstants
<1>2. use \in [Users -> Uses] /\ client \in [Clients -> [cluster : Ids \cup {None}, session : Sessions \cup {None}]]
      /\ ClientTypes
  BY DEF ClientInv, ClientTypes
<1>3. ~Fails  BY <1>2, ClientConstants DEF ClientTypes, Fails
<1>4. CASE Session(r)
  <2>1. use[r].pc \in {"new", "out"} /\ UNCHANGED <<client, open, inKs>>  BY <1>4 DEF Session, clientVars
  <2>2. /\ use'[r].attempt = use[r].attempt
        /\ IF Mine(r).session = None THEN use'[r].pc = "build" ELSE use'[r].pc = "ready"
    BY <1>1, <1>2, <1>4, SessionMoves
  <2> QED  BY <2>1, <2>2 DEF CalmSoFar, Mine, ClustersOf, FirstOf
<1>5. CASE Build(r)
  <2>1. /\ use[r].pc = "build" /\ Goto(r, "connect") /\ open' = open \cup {<<r, use[r].attempt>>}
        /\ client' = [client EXCEPT ![ClientOf[r]].cluster = <<r, use[r].attempt>>]
    BY <1>5 DEF Build
  <2>2. use'[r].pc = "connect" /\ use'[r].attempt = 1  BY <1>1, <1>2, <2>1, GotoMoves DEF CalmSoFar
  <2>3. Mine(r)'.session = Mine(r).session  BY <1>1, <1>2, <2>1 DEF Mine
  <2>4. ClustersOf(r)' = FirstOf(r)  BY <2>1 DEF CalmSoFar, ClustersOf, FirstOf
  <2> QED  BY <2>2, <2>3, <2>4 DEF CalmSoFar, FirstOf
<1>6. CASE Connect(r)
  <2>1. use[r].pc = "connect" /\ Mine(r).cluster \in open  BY <1>6 DEF Connect, BuiltByItself
  <2>2. /\ client' = [client EXCEPT ![ClientOf[r]].session = <<Mine(r).cluster, r, use[r].attempt>>]
        /\ Goto(r, "keyspace") /\ open' = open
    BY <1>3, <1>6, <2>1 DEF Connect
  <2>3. use'[r].pc = "keyspace" /\ use'[r].attempt = 1  BY <1>1, <1>2, <2>2, GotoMoves DEF CalmSoFar
  <2>4. Mine(r)'.session # None  BY <1>1, <1>2, <2>2, NobodyIsNone DEF Mine
  <2> QED  BY <2>1, <2>2, <2>3, <2>4 DEF CalmSoFar, ClustersOf, FirstOf
<1>7. CASE Keyspace(r)
  <2>1. /\ use[r].pc = "keyspace" /\ Goto(r, "out") /\ UNCHANGED <<client, open>>
        /\ inKs' = inKs \cup {Mine(r).session}
    BY <1>3, <1>7 DEF Keyspace
  <2>2. use'[r].pc = "out" /\ use'[r].attempt = 1  BY <1>1, <1>2, <2>1, GotoMoves DEF CalmSoFar
  <2> QED  BY <2>1, <2>2 DEF CalmSoFar, Mine, ClustersOf, FirstOf
<1>8. CASE Statement(r)
  <2>1. use[r].pc = "ready" /\ UNCHANGED <<client, open, inKs>>  BY <1>8 DEF Statement, clientVars
  <2>2. Alone(r)  BY OwnClients DEF Alone
  <2>3. use[r].held = Mine(r).session /\ Mine(r).session # None
    BY <1>1, <2>1, <2>2 DEF ClientInv, HeldBy, SessionOfOne
  <2>4. Mine(r).session \in inKs  BY <2>1, <2>3 DEF CalmSoFar
  <2>5. use[r].held[1] \in open  BY <1>1, <2>1 DEF ClientInv, HeldBy
  <2>6. Works(use[r].held)  BY <2>3, <2>4, <2>5 DEF Works
  <2>7. use'[r].pc \in {"out", "answered"} /\ use'[r].attempt = 1
    BY <1>1, <1>2, <1>3, <1>8, <2>6, StatementMoves DEF CalmSoFar
  <2>8. ClustersOf(r) = FirstOf(r)  BY <2>1 DEF CalmSoFar
  <2> QED  BY <2>1, <2>3, <2>4, <2>7, <2>8 DEF CalmSoFar, Mine, ClustersOf, FirstOf
<1> QED  BY <1>4, <1>5, <1>6, <1>7, <1>8 DEF UseClient

(* A request gives up by raising: it was not at that point before.         *)
LEMMA GivesUpAtOnce ==
  ASSUME ClientInv, NEW r \in Requests, use[r].gaveUp => use[r].pc = "raised", UseClient(r)
  PROVE  use'[r].gaveUp => use'[r].pc = "raised"
<1>1. ClientTypes /\ r \in Users /\ use \in [Users -> Uses]  BY OwnClients DEF ClientInv, ClientTypes
<1>2. ~use[r].gaveUp  BY DEF UseClient, Session, Build, Connect, Keyspace, Statement
<1>3. CASE Session(r)  BY <1>1, <1>2, <1>3, SessionMoves
<1>4. CASE ~Session(r)
  BY <1>1, <1>2, <1>4, GotoMoves, RetryMoves, StatementMoves DEF UseClient, Build, Connect, Keyspace
<1> QED  BY <1>3, <1>4

(* What a query returns is as new as a tick that was there before it.      *)
LEMMA AnswersAreNew ==
  ASSUME ClientInv, NEW r \in Requests, UseClient(r), NEW n \in 0..MaxTick, n # 0 => n \in cass.ticks,
         use'[r].pc = "answered", use'[r].got # 0
  PROVE  use'[r].got >= n
<1>1. ClientTypes /\ r \in Users /\ use \in [Users -> Uses]  BY OwnClients DEF ClientInv, ClientTypes
<1>2. Statement(r)
  <2>1. ~Session(r)  BY <1>1, SessionMoves
  <2> QED  BY <1>1, <2>1, GotoMoves, RetryMoves DEF UseClient, Build, Connect, Keyspace
<1>3. cass.ticks \in SUBSET (1..MaxTick) /\ use'[r].got \in 0..MaxTick
  BY <1>1, <1>2, StatementMoves DEF ClientTypes, Uses
<1>4. cass.ticks # {} /\ use'[r].got = Newest(cass.ticks)  BY <1>1, <1>2, StatementMoves
<1>5. CASE n = 0  BY <1>3, <1>5, ClientConstants
<1>6. CASE n # 0  BY <1>3, <1>4, <1>6, NewestIsNewest
<1> QED  BY <1>5, <1>6

-----------------------------------------------------------------------------
(* Requests: what a step writes down about the one it moves.               *)

(* The frame of a step of one request.                                     *)
LEMMA OneRequestMoves ==
  ASSUME req \in [Requests -> QueryShape], NEW r \in Requests, NEW q \in QueryShape,
         req' = [req EXCEPT ![r] = q]
  PROVE  req' \in [Requests -> QueryShape] /\ req'[r] = q /\ \A o \in Requests \ {r} : req'[o] = req[o]
OBVIOUS

(* An answer ends its request and leaves the others.                       *)
LEMMA AnswerMoves ==
  ASSUME req \in [Requests -> QueryShape], NEW r \in Requests,
         NEW status \in Statuses,
         NEW source \in {"none", "mock", "live", "healthy", "degraded"}, Answer(r, status, source)
  PROVE  /\ req' \in [Requests -> QueryShape] /\ \A o \in Requests \ {r} : req'[o] = req[o]
         /\ req'[r].st = "done" /\ req'[r].status = status /\ req'[r].source = source
         /\ req'[r].kind = req[r].kind /\ req'[r].newest = req[r].newest /\ req'[r].calm = req[r].calm
         /\ req'[r].found = req[r].found /\ req'[r].seen = req[r].seen
<1> DEFINE q == [req[r] EXCEPT !.st = "done", !.status = status, !.source = source]
<1>1. req[r] \in QueryShape  OBVIOUS
<1>2. PICK p : p = q  OBVIOUS
<1>3. p \in QueryShape  BY <1>1, <1>2 DEF QueryShape
<1>4. req' = [req EXCEPT ![r] = p]  BY <1>1, <1>2 DEF Answer, QueryShape
<1>5. p.st = "done" /\ p.status = status /\ p.source = source
      /\ p.kind = req[r].kind /\ p.newest = req[r].newest /\ p.calm = req[r].calm
      /\ p.found = req[r].found /\ p.seen = req[r].seen
  BY <1>1, <1>2 DEF QueryShape
<1> QED  BY <1>3, <1>4, <1>5, OneRequestMoves

(* A request that arrives waits, and remembers the newest tick there was.  *)
LEMMA ArriveMoves ==
  ASSUME ClientInv, req \in [Requests -> QueryShape], NEW r \in Requests, Arrive(r)
  PROVE  /\ req' \in [Requests -> QueryShape] /\ \A o \in Requests \ {r} : req'[o] = req[o]
         /\ req'[r].st = "waiting" /\ req'[r].status = req[r].status /\ req'[r].source = req[r].source
         /\ req'[r].found = req[r].found /\ req'[r].newest \in {0} \cup cass.ticks
         /\ req'[r].kind = req[r].kind
<1>1. req[r] \in QueryShape  OBVIOUS
<1>2. PICK n : n = Latest(cass.ticks)  OBVIOUS
<1>3. n \in 0..MaxTick /\ n \in {0} \cup cass.ticks
  <2>1. cass.ticks \in SUBSET (1..MaxTick)  BY DEF ClientInv, ClientTypes
  <2> QED  BY <1>2, <2>1, NewestIsNewest, ClientConstants DEF Latest
<1>4. PICK p : p = [req[r] EXCEPT !.st = "waiting", !.newest = n]  OBVIOUS
<1>5. p \in QueryShape  BY <1>1, <1>3, <1>4 DEF QueryShape
<1>6. req' = [req EXCEPT ![r] = p]  BY <1>1, <1>2, <1>4 DEF Arrive, QueryShape
<1>7. p.st = "waiting" /\ p.status = req[r].status /\ p.source = req[r].source /\ p.found = req[r].found
      /\ p.newest = n /\ p.kind = req[r].kind
  BY <1>1, <1>4 DEF QueryShape
<1> QED  BY <1>3, <1>5, <1>6, <1>7, OneRequestMoves

(* What a request is refused with.                                         *)
LEMMA Refusals ==
  ASSUME NEW q
  PROVE  Refusal(q) = 0 \/ Refusal(q) = 400 \/ Refusal(q) = 401 \/ Refusal(q) = 404 \/ Refusal(q) = 422
<1>1. CASE q.kind = "health"  BY <1>1 DEF Refusal
<1>2. CASE q.kind # "health"  BY <1>2 DEF Refusal
<1> QED  BY <1>1, <1>2

(* The handler of a price starts.                                          *)
LEMMA PriceStarts ==
  ASSUME req \in [Requests -> QueryShape], NEW r \in Requests, NEW b \in BOOLEAN,
         req' = [req EXCEPT ![r].st = "running", ![r].calm = b]
  PROVE  /\ req' \in [Requests -> QueryShape] /\ \A o \in Requests \ {r} : req'[o] = req[o]
         /\ req'[r].st = "running" /\ req'[r].status = req[r].status /\ req'[r].source = req[r].source
         /\ req'[r].kind = req[r].kind /\ req'[r].newest = req[r].newest /\ req'[r].calm = b
         /\ req'[r].found = req[r].found
<1>1. req[r] \in QueryShape  OBVIOUS
<1>2. PICK p : p = [req[r] EXCEPT !.st = "running", !.calm = b]  OBVIOUS
<1>3. p \in QueryShape  BY <1>1, <1>2 DEF QueryShape
<1>4. req' = [req EXCEPT ![r] = p]  BY <1>1, <1>2 DEF QueryShape
<1>5. p.st = "running" /\ p.status = req[r].status /\ p.source = req[r].source /\ p.kind = req[r].kind
      /\ p.newest = req[r].newest /\ p.calm = b /\ p.found = req[r].found
  BY <1>1, <1>2 DEF QueryShape
<1> QED  BY <1>3, <1>4, <1>5, OneRequestMoves

(* The handler of a health report starts.                                  *)
LEMMA ReportStarts ==
  ASSUME req \in [Requests -> QueryShape], NEW r \in Requests,
         NEW S \in SUBSET {"minio", "postgres", "kafka"},
         req' = [req EXCEPT ![r].st = "running", ![r].seen = S]
  PROVE  /\ req' \in [Requests -> QueryShape] /\ \A o \in Requests \ {r} : req'[o] = req[o]
         /\ req'[r].st = "running" /\ req'[r].status = req[r].status /\ req'[r].source = req[r].source
         /\ req'[r].kind = req[r].kind /\ req'[r].newest = req[r].newest
         /\ req'[r].found = req[r].found /\ req'[r].seen = S
<1>1. req[r] \in QueryShape  OBVIOUS
<1>2. PICK p : p = [req[r] EXCEPT !.st = "running", !.seen = S]  OBVIOUS
<1>3. p \in QueryShape  BY <1>1, <1>2 DEF QueryShape
<1>4. req' = [req EXCEPT ![r] = p]  BY <1>1, <1>2 DEF QueryShape
<1>5. p.st = "running" /\ p.status = req[r].status /\ p.source = req[r].source /\ p.kind = req[r].kind
      /\ p.newest = req[r].newest /\ p.found = req[r].found /\ p.seen = S
  BY <1>1, <1>2 DEF QueryShape
<1> QED  BY <1>3, <1>4, <1>5, OneRequestMoves

-----------------------------------------------------------------------------
(* Requests: the invariant, action by action.                              *)

(* A request that does not move, whatever becomes of the others.           *)
LEMMA OthersStay ==
  ASSUME NEW o \in Requests, Handling(o), req'[o] = req[o], use'[o] = use[o], Mine(o)' = Mine(o),
         ClustersOf(o)' = ClustersOf(o), inKs \subseteq inKs', cass' = cass,
         Runs(o, "health") => services' \subseteq services
  PROVE  Handling(o)'
<1>1. BuiltByItself(o) => BuiltByItself(o)'  BY DEF BuiltByItself, ClustersOf
<1>2. CalmSoFar(o) => CalmSoFar(o)'  BY DEF CalmSoFar, FirstOf
<1>3. Looking(o) => Looking(o)'  BY <1>1, <1>2 DEF Looking
<1>4. Checking(o) /\ req[o].st = "running" => Checking(o)'  BY DEF Checking, Untouched, Runs
<1> QED  BY <1>3, <1>4 DEF Handling, Untouched, FirstOf

(* What a step of one request has to show.                                 *)
LEMMA HandlerKeeps ==
  ASSUME ServingInv, NEW r \in Requests, ClientInv', UNCHANGED <<cass, closed>>, inKs \subseteq inKs',
         services' \subseteq {"minio", "postgres", "kafka"},
         (\E o \in Requests \ {r} : Runs(o, "health")) => services' \subseteq services,
         req' \in [Requests -> QueryShape], Handling(r)',
         \A o \in Requests \ {r} : /\ req'[o] = req[o] /\ use'[o] = use[o] /\ Mine(o)' = Mine(o)
                                   /\ ClustersOf(o)' = ClustersOf(o)
  PROVE  ServingInv'
<1>1. \A o \in Requests \ {r} : Handling(o)'  BY OthersStay DEF ServingInv
<1> QED  BY <1>1 DEF ServingInv

(* A step that leaves all clients and Cassandra alone.                     *)
LEMMA NoClientMoves ==
  ASSUME ServingInv, UNCHANGED <<cass, clientVars, use, outages>>
  PROVE  /\ ClientInv' /\ UNCHANGED <<cass, closed, inKs, open>>
         /\ \A o \in Requests : use'[o] = use[o] /\ Mine(o)' = Mine(o) /\ ClustersOf(o)' = ClustersOf(o)
<1>1. UNCHANGED <<client, open, setUp, inKs, closed>>  BY DEF clientVars
<1>2. ClientTypes'  BY <1>1 DEF ServingInv, ClientInv, ClientTypes
<1>3. ClientInv'  BY <1>1, <1>2, ClientsStay DEF ServingInv
<1> QED  BY <1>1, <1>3 DEF Mine, ClustersOf

(* An arrival keeps the invariant.                                         *)
LEMMA ArriveStep ==
  ASSUME ServingInv, NEW r \in Requests, Arrive(r)
  PROVE  ServingInv'
<1>1. ClientInv /\ req \in [Requests -> QueryShape] /\ Handling(r) /\ req[r].st = "new"
      /\ services' = services /\ services \subseteq {"minio", "postgres", "kafka"}
      /\ UNCHANGED <<cass, clientVars, use, outages>>
  BY DEF ServingInv, Arrive
<1>2. /\ ClientInv' /\ UNCHANGED <<cass, closed, inKs, open>>
      /\ \A o \in Requests : use'[o] = use[o] /\ Mine(o)' = Mine(o) /\ ClustersOf(o)' = ClustersOf(o)
  BY <1>1, NoClientMoves
<1>3. req' \in [Requests -> QueryShape] /\ req'[r].st = "waiting" /\ \A o \in Requests \ {r} : req'[o] = req[o]
  BY <1>1, ArriveMoves
<1>4. Handling(r)'
  <2>1. Untouched(r) /\ Untouched(r)'  BY <1>1, <1>2 DEF Handling, Untouched
  <2>2. req'[r].source = "none" /\ req'[r].status = 0 /\ req'[r].found = <<>> /\ req'[r].newest \in {0} \cup cass'.ticks
    BY <1>1, <1>2, ArriveMoves DEF Handling
  <2>3. use'[r].pc = "new"  BY <2>1 DEF Untouched, Idle
  <2> QED  BY <1>3, <2>1, <2>2, <2>3 DEF Handling
<1> QED  BY <1>1, <1>2, <1>3, <1>4, HandlerKeeps

(* Beginning a request keeps the invariant.                                *)
LEMMA BeginStep ==
  ASSUME ServingInv, NEW r \in Requests, Begin(r)
  PROVE  ServingInv'
<1>1. ClientInv /\ req \in [Requests -> QueryShape] /\ req[r] \in QueryShape /\ Handling(r)  BY DEF ServingInv
<1>2. req[r].st = "waiting" /\ UNCHANGED <<cass, clientVars, use, outages>>  BY DEF Begin
<1>3. services' \subseteq {"minio", "postgres", "kafka"}
      /\ ((\E o \in Requests \ {r} : Runs(o, "health")) => services' \subseteq services)
  BY DEF ServingInv, Begin, Active, Runs
<1>4. /\ ClientInv' /\ UNCHANGED <<cass, closed, inKs, open>>
      /\ \A o \in Requests : use'[o] = use[o] /\ Mine(o)' = Mine(o) /\ ClustersOf(o)' = ClustersOf(o)
  BY <1>2, NoClientMoves
<1>5. Untouched(r)' /\ req[r].source = "none" /\ req[r].found = <<>>
  BY <1>1, <1>2, <1>4 DEF Handling, Untouched
<1>6. use'[r].pc = "new" /\ use[r].pc = "new" /\ use'[r].attempt = 1 /\ ~use'[r].gaveUp
  BY <1>4, <1>5 DEF Untouched, Idle
<1>7. req' \in [Requests -> QueryShape] /\ (\A o \in Requests \ {r} : req'[o] = req[o]) /\ Handling(r)'
  <2>1. CASE Refusal(req[r]) # 0 /\ Answer(r, Refusal(req[r]), "none")
    <3>1. PICK s : s = Refusal(req[r])  OBVIOUS
    <3>2. s = 400 \/ s = 401 \/ s = 404 \/ s = 422  BY <2>1, <3>1, Refusals
    <3>3. Answer(r, s, "none")  BY <2>1, <3>1
    <3>4. s \in Statuses  BY <3>2 DEF Statuses
    <3> HIDE <3>1
    <3> QED  BY <1>1, <1>2, <1>4, <1>5, <1>6, <3>3, <3>4, AnswerMoves DEF Handling
  <2>2. CASE Answer(r, 200, "mock")
    <3>1. 200 \in Statuses  BY DEF Statuses
    <3> QED  BY <1>1, <1>2, <1>4, <1>5, <1>6, <2>2, <3>1, AnswerMoves DEF Handling
  <2>3. CASE req[r].kind = "health" /\ req' = [req EXCEPT ![r].st = "running", ![r].seen = services']
    <3>1. PICK S \in SUBSET {"minio", "postgres", "kafka"} : S = services'  BY <1>3
    <3>2. req' = [req EXCEPT ![r].st = "running", ![r].seen = S]  BY <2>3, <3>1
    <3>3. /\ req' \in [Requests -> QueryShape] /\ \A o \in Requests \ {r} : req'[o] = req[o]
          /\ req'[r].st = "running" /\ req'[r].status = req[r].status /\ req'[r].source = req[r].source
          /\ req'[r].kind = req[r].kind /\ req'[r].newest = req[r].newest
          /\ req'[r].found = req[r].found /\ req'[r].seen = S
      BY <1>1, <3>2, ReportStarts
    <3>4. Len(<<>>) = 0 /\ DOMAIN <<>> = {} /\ Len(Services) = 3  BY DEF Services
    <3>5. Checking(r)'  BY <1>5, <2>3, <3>1, <3>3, <3>4 DEF Checking
    <3> QED  BY <1>1, <1>2, <1>4, <1>5, <1>6, <3>3, <3>5 DEF Handling
  <2>4. CASE /\ req[r].kind \notin {"history", "portfolio", "health"}
             /\ req' = [req EXCEPT ![r].st = "running", ![r].calm = cass.up /\ cass.table]
    <3>1. PICK b \in BOOLEAN : b = (cass.up /\ cass.table)  OBVIOUS
    <3>2. req' = [req EXCEPT ![r].st = "running", ![r].calm = b]  BY <2>4, <3>1
    <3>3. /\ req' \in [Requests -> QueryShape] /\ \A o \in Requests \ {r} : req'[o] = req[o]
          /\ req'[r].st = "running" /\ req'[r].status = req[r].status /\ req'[r].source = req[r].source
          /\ req'[r].kind = req[r].kind /\ req'[r].newest = req[r].newest /\ req'[r].calm = b
          /\ req'[r].found = req[r].found
      BY <1>1, <3>2, PriceStarts
    <3>4. req[r].kind = "latest"  BY <1>1, <2>4 DEF QueryShape
    <3>5. CalmSoFar(r)' /\ BuiltByItself(r)'  BY <1>5, <1>6 DEF CalmSoFar, BuiltByItself, Untouched
    <3>6. Looking(r)'  BY <1>4, <1>5, <1>6, <3>1, <3>3, <3>4, <3>5 DEF Looking
    <3> QED  BY <1>1, <1>2, <1>4, <1>5, <1>6, <3>3, <3>6 DEF Handling
  <2> QED  BY <2>1, <2>2, <2>3, <2>4 DEF Begin
<1> QED  BY <1>3, <1>4, <1>7, HandlerKeeps

(* A step of the client of a running request keeps the invariant.          *)
LEMMA FetchMoves ==
  ASSUME ServingInv, NEW r \in Requests, FetchStep(r)
  PROVE  ServingInv'
<1>1. ClientInv /\ req \in [Requests -> QueryShape] /\ req[r] \in QueryShape /\ Handling(r) /\ r \in Users
      /\ ClientOf[r] \notin closed /\ services \subseteq {"minio", "postgres", "kafka"}
  BY OwnClients DEF ServingInv
<1>2. UseClient(r) /\ req[r].st = "running" /\ req[r].kind = "latest" /\ UNCHANGED <<cass, services, closed>>
  BY DEF FetchStep, Runs, UseClient, Session, Build, Connect, Keyspace, Statement, clientVars
<1>3. ClientInv'  BY <1>1, <1>2, UseStep
<1>4. Looking(r) /\ req[r].source = "none"  BY <1>1, <1>2 DEF Handling, Checking
<1>5. /\ \A o \in Requests \ {r} : use'[o] = use[o] /\ Mine(o)' = Mine(o) /\ ClustersOf(o)' = ClustersOf(o)
      /\ inKs \subseteq inKs'
  BY <1>1, <1>2, <1>4, OthersKeepTheirClients, ClientChanges DEF Looking
<1>6. PICK b \in BOOLEAN : b = (req[r].calm /\ outages' = outages)  OBVIOUS
<1>7. req' = [req EXCEPT ![r].calm = b]  BY <1>6 DEF FetchStep
<1>8. /\ req' \in [Requests -> QueryShape] /\ \A o \in Requests \ {r} : req'[o] = req[o]
      /\ req'[r].st = "running" /\ req'[r].kind = "latest" /\ req'[r].source = req[r].source
      /\ req'[r].status = req[r].status /\ req'[r].newest = req[r].newest /\ req'[r].calm = b
      /\ req'[r].found = req[r].found
  <2> PICK p : p = [req[r] EXCEPT !.calm = b]  OBVIOUS
  <2>1. p \in QueryShape  BY <1>1 DEF QueryShape
  <2>2. req' = [req EXCEPT ![r] = p]  BY <1>1, <1>7 DEF QueryShape
  <2>3. p.st = "running" /\ p.kind = "latest" /\ p.source = req[r].source /\ p.status = req[r].status
        /\ p.newest = req[r].newest /\ p.calm = b /\ p.found = req[r].found
    BY <1>1, <1>2 DEF QueryShape
  <2> QED  BY <1>1, <2>1, <2>2, <2>3, OneRequestMoves
<1>9. Looking(r)'
  <2>1. BuiltByItself(r)'  BY <1>1, <1>2, BuildsItself
  <2>2. ASSUME b PROVE cass'.up /\ cass'.table /\ CalmSoFar(r)'
    <3>1. cass.up /\ cass.table /\ CalmSoFar(r) /\ outages' = outages  BY <1>4, <1>6, <2>2 DEF Looking
    <3> QED  BY <1>1, <1>2, <1>4, <3>1, CalmFetch DEF Looking
  <2>3. req'[r].found = <<>>  BY <1>4, <1>8 DEF Looking
  <2>4. use'[r].gaveUp => use'[r].pc = "raised"  BY <1>1, <1>2, <1>4, GivesUpAtOnce DEF Looking
  <2> QED  BY <1>8, <2>1, <2>2, <2>3, <2>4 DEF Looking
<1>10. use'[r].pc = "answered" /\ use'[r].got # 0 => use'[r].got >= req'[r].newest
  <2>1. req[r].newest \in 0..MaxTick /\ (req[r].newest # 0 => req[r].newest \in cass.ticks)
    BY <1>1 DEF QueryShape, Handling
  <2> QED  BY <1>1, <1>2, <1>8, <2>1, AnswersAreNew
<1>11. req[r].status = 0  BY <1>1, <1>2 DEF Handling
<1>12. Handling(r)'
  BY <1>1, <1>2, <1>4, <1>8, <1>9, <1>10, <1>11 DEF Handling
<1> QED  BY <1>1, <1>2, <1>3, <1>5, <1>8, <1>12, HandlerKeeps

(* Answering from what was fetched keeps the invariant.                    *)
LEMMA FetchedStep ==
  ASSUME ServingInv, NEW r \in Requests, Fetched(r)
  PROVE  ServingInv'
<1>1. ClientInv /\ req \in [Requests -> QueryShape] /\ req[r] \in QueryShape /\ Handling(r)
      /\ services' = services /\ services \subseteq {"minio", "postgres", "kafka"}
      /\ req[r].st = "running" /\ req[r].kind = "latest" /\ UNCHANGED <<cass, clientVars, use, outages>>
  BY DEF ServingInv, Fetched, Runs
<1>2. Looking(r)  BY <1>1 DEF Handling, Checking
<1>3. /\ ClientInv' /\ UNCHANGED <<cass, closed, inKs, open>>
      /\ \A o \in Requests : use'[o] = use[o] /\ Mine(o)' = Mine(o) /\ ClustersOf(o)' = ClustersOf(o)
  BY <1>1, NoClientMoves
<1>4. 200 \in Statuses /\ 503 \in Statuses  BY DEF Statuses
<1>5. /\ req' \in [Requests -> QueryShape] /\ \A o \in Requests \ {r} : req'[o] = req[o]
      /\ req'[r].st = "done" /\ req'[r].status \in {200, 503}
      /\ req'[r].newest = req[r].newest /\ req'[r].calm = req[r].calm
      /\ req'[r].source = "live" => use[r].pc = "answered" /\ use[r].got # 0
  BY <1>1, <1>4, AnswerMoves DEF Fetched
<1>6. Handling(r)'
  <2>1. req'[r].source = "live" /\ req'[r].calm => ClustersOf(r)' = FirstOf(r)
    BY <1>2, <1>3, <1>5 DEF Looking, CalmSoFar
  <2> QED  BY <1>1, <1>3, <1>5, <2>1 DEF Handling, FirstOf
<1> QED  BY <1>1, <1>3, <1>5, <1>6, HandlerKeeps

(* A service that is found healthy is up when it is looked at.             *)
LEMMA CheckServiceStep ==
  ASSUME ServingInv, NEW r \in Requests, CheckService(r)
  PROVE  ServingInv'
<1>1. ClientInv /\ req \in [Requests -> QueryShape] /\ req[r] \in QueryShape /\ Handling(r)
      /\ services' = services /\ services \subseteq {"minio", "postgres", "kafka"}
  BY DEF ServingInv, CheckService
<1>2. UNCHANGED <<cass, clientVars, use, outages>>
      /\ req[r].st = "running" /\ req[r].kind = "health" /\ Len(req[r].found) < Len(Services)
  BY DEF CheckService, Runs
<1>3. Checking(r)  BY <1>1, <1>2 DEF Handling, Looking
<1>4. /\ ClientInv' /\ UNCHANGED <<cass, closed, inKs, open>>
      /\ \A o \in Requests : use'[o] = use[o] /\ Mine(o)' = Mine(o) /\ ClustersOf(o)' = ClustersOf(o)
  BY <1>2, NoClientMoves
<1>5. PICK f \in {"healthy", "unavailable"} :
        /\ req' = [req EXCEPT ![r].found = Append(@, f)]
        /\ f = "healthy" => Services[Len(req[r].found) + 1] \in services
  BY DEF CheckService
<1>6. req[r].found \in Findings /\ Append(req[r].found, f) \in Findings
  <2>1. req[r].found \in Findings  BY <1>1 DEF QueryShape
  <2> QED  BY <2>1 DEF Findings
<1>7. PICK g \in Findings : g = Append(req[r].found, f)  BY <1>6
<1>8. req' = [req EXCEPT ![r].found = g]  BY <1>5, <1>7
<1>9. /\ req' \in [Requests -> QueryShape] /\ \A o \in Requests \ {r} : req'[o] = req[o]
      /\ req'[r].st = "running" /\ req'[r].kind = "health" /\ req'[r].source = req[r].source
      /\ req'[r].status = req[r].status /\ req'[r].newest = req[r].newest
      /\ req'[r].found = g /\ req'[r].seen = req[r].seen
  <2> PICK p : p = [req[r] EXCEPT !.found = g]  OBVIOUS
  <2>1. p \in QueryShape  BY <1>1 DEF QueryShape
  <2>2. req' = [req EXCEPT ![r] = p]  BY <1>1, <1>8 DEF QueryShape
  <2>3. p.st = "running" /\ p.kind = "health" /\ p.source = req[r].source /\ p.status = req[r].status
        /\ p.newest = req[r].newest /\ p.found = g /\ p.seen = req[r].seen
    BY <1>1, <1>2 DEF QueryShape
  <2> QED  BY <1>1, <2>1, <2>2, <2>3, OneRequestMoves
<1>10. Len(g) <= Len(Services) /\ \A i \in DOMAIN g : g[i] = "healthy" => Services[i] \in req[r].seen
  <2>1. Len(g) = Len(req[r].found) + 1 /\ Len(req[r].found) \in Nat /\ Len(Services) = 3
        /\ DOMAIN g = 1..Len(g) /\ DOMAIN req[r].found = 1..Len(req[r].found)
    BY <1>6, <1>7 DEF Findings, Services
  <2>2. \A i \in DOMAIN req[r].found : g[i] = req[r].found[i]  BY <1>6, <1>7, <2>1 DEF Findings
  <2>3. g[Len(g)] = f  BY <1>6, <1>7, <2>1 DEF Findings
  <2>4. g[Len(g)] = "healthy" => Services[Len(g)] \in req[r].seen  BY <1>3, <1>5, <2>1, <2>3 DEF Checking
  <2>5. \A i \in DOMAIN g : i \in DOMAIN req[r].found \/ i = Len(g)  BY <2>1
  <2>6. \A i \in DOMAIN g : g[i] = "healthy" => Services[i] \in req[r].seen
    BY <1>3, <2>2, <2>4, <2>5 DEF Checking
  <2> QED  BY <1>2, <2>1, <2>6
<1>11. Checking(r)'  BY <1>1, <1>3, <1>4, <1>9, <1>10 DEF Checking, Untouched
<1>12. Handling(r)'
  <2>1. Untouched(r)' /\ use'[r].pc = "new"  BY <1>11 DEF Checking, Untouched, Idle
  <2> QED  BY <1>1, <1>2, <1>4, <1>9, <1>11, <2>1 DEF Handling
<1> QED  BY <1>1, <1>4, <1>9, <1>12, HandlerKeeps

(* A health check that ends keeps the invariant.                           *)
LEMMA CheckedStep ==
  ASSUME ServingInv, NEW r \in Requests, Checked(r)
  PROVE  ServingInv'
<1>1. ClientInv /\ req \in [Requests -> QueryShape] /\ req[r] \in QueryShape /\ Handling(r)
      /\ services' \subseteq services /\ services \subseteq {"minio", "postgres", "kafka"}
      /\ UNCHANGED <<cass, clientVars, use, outages>> /\ req[r].st = "running"
  BY DEF ServingInv, Checked, Runs
<1>2. /\ ClientInv' /\ UNCHANGED <<cass, closed, inKs, open>>
      /\ \A o \in Requests : use'[o] = use[o] /\ Mine(o)' = Mine(o) /\ ClustersOf(o)' = ClustersOf(o)
  BY <1>1, NoClientMoves
<1>3. Overall(req[r].found) \in {"healthy", "degraded"} /\ 200 \in Statuses  BY DEF Overall, Statuses
<1>4. /\ req' \in [Requests -> QueryShape] /\ \A o \in Requests \ {r} : req'[o] = req[o]
      /\ req'[r].st = "done" /\ req'[r].status = 200 /\ req'[r].source \in {"healthy", "degraded"}
      /\ req'[r].newest = req[r].newest
  BY <1>1, <1>3, AnswerMoves DEF Checked
<1>5. Handling(r)'  BY <1>1, <1>2, <1>4 DEF Handling
<1> QED  BY <1>1, <1>2, <1>4, <1>5, HandlerKeeps

(* A service comes or goes while a health report is made.                  *)
LEMMA ServiceStep ==
  ASSUME ServingInv, NEW i \in DOMAIN Services, ServiceChanges(Services[i])
  PROVE  ServingInv'
<1>1. ClientInv /\ req \in [Requests -> QueryShape] /\ services \subseteq {"minio", "postgres", "kafka"}
      /\ UNCHANGED <<cass, client, open, setUp, inKs, closed, use>>
  BY DEF ServingInv, ServiceChanges, clientVars
<1>2. Services[i] \in {"minio", "postgres", "kafka"}  BY DEF Services
<1>3. services' \subseteq {"minio", "postgres", "kafka"} /\ outages' \in 0..MaxOutages
  BY <1>1, <1>2, ClientConstants DEF ServiceChanges, ClientInv, ClientTypes
<1>4. ClientInv'
  <2>1. ClientTypes'  BY <1>1, <1>3 DEF ClientInv, ClientTypes
  <2> QED  BY <1>1, <2>1, ClientsStay
<1>5. \A o \in Requests : Mine(o)' = Mine(o) /\ ClustersOf(o)' = ClustersOf(o) /\ use'[o] = use[o]
  BY <1>1 DEF Mine, ClustersOf
<1>6. ASSUME NEW o \in Requests
      PROVE  req'[o] \in QueryShape /\ Handling(o)'
  <2>1. Handling(o) /\ req[o] \in QueryShape  BY <1>1 DEF ServingInv
  <2>2. CASE ~Runs(o, "health")
    <3>1. req'[o] = req[o]  BY <2>2 DEF ServiceChanges
    <3> QED  BY <1>1, <1>5, <2>1, <2>2, <3>1, OthersStay
  <2>3. CASE Runs(o, "health")
    <3>1. PICK S \in SUBSET {"minio", "postgres", "kafka"} : S = req[o].seen \cup services'
      BY <1>3, <2>1 DEF QueryShape
    <3>2. req'[o] = [req[o] EXCEPT !.seen = S]  BY <2>3, <3>1 DEF ServiceChanges
    <3>3. /\ req'[o] \in QueryShape /\ req'[o].st = req[o].st /\ req'[o].kind = req[o].kind
          /\ req'[o].status = req[o].status /\ req'[o].source = req[o].source
          /\ req'[o].newest = req[o].newest /\ req'[o].calm = req[o].calm /\ req'[o].found = req[o].found
          /\ req'[o].seen = S
      BY <2>1, <3>2 DEF QueryShape
    <3>4. Checking(o)  BY <2>1, <2>3 DEF Handling, Looking, Runs
    <3>5. Checking(o)'  BY <1>1, <1>5, <3>1, <3>3, <3>4 DEF Checking, Untouched
    <3> QED  BY <1>1, <1>5, <2>1, <2>3, <3>3, <3>5 DEF Handling, Untouched, FirstOf, Runs
  <2> QED  BY <2>2, <2>3
<1>7. req' \in [Requests -> QueryShape]  BY <1>6 DEF ServiceChanges
<1> QED  BY <1>1, <1>3, <1>4, <1>6, <1>7 DEF ServingInv

(* Cassandra changes while somebody waits for a price.                     *)
LEMMA StoreStep ==
  ASSUME ServingInv, StoreChanges
  PROVE  ServingInv'
<1>1. ClientInv /\ req \in [Requests -> QueryShape] /\ CassandraChanges /\ services' = services
  BY DEF ServingInv, StoreChanges
<1>2. ClientInv' /\ UNCHANGED <<client, open, setUp, inKs, closed, use>>
      /\ cass.ticks \subseteq cass'.ticks /\ (cass.table => cass'.table)
  BY <1>1, CassandraStep
<1>3. \A o \in Requests : Mine(o)' = Mine(o) /\ ClustersOf(o)' = ClustersOf(o) /\ use'[o] = use[o]
  BY <1>2 DEF Mine, ClustersOf
<1>4. ASSUME NEW o \in Requests
      PROVE  req'[o] \in QueryShape /\ Handling(o)'
  <2>1. Handling(o) /\ req[o] \in QueryShape  BY <1>1 DEF ServingInv
  <2>2. PICK b \in BOOLEAN : b = (req[o].calm /\ (cass'.up \/ ~Runs(o, "latest")))  OBVIOUS
  <2>3. req'[o] = [req[o] EXCEPT !.calm = b]  BY <2>2 DEF StoreChanges
  <2>4. /\ req'[o] \in QueryShape /\ req'[o].st = req[o].st /\ req'[o].kind = req[o].kind
        /\ req'[o].status = req[o].status /\ req'[o].source = req[o].source
        /\ req'[o].newest = req[o].newest /\ req'[o].calm = b /\ req'[o].found = req[o].found
        /\ req'[o].seen = req[o].seen
    BY <2>1, <2>3 DEF QueryShape
  <2>5. b => req[o].calm  BY <2>2
  <2>6. ASSUME Looking(o), req[o].st = "running" PROVE Looking(o)'
    <3>1. b => cass'.up /\ cass'.table /\ CalmSoFar(o)  BY <1>2, <2>2, <2>6 DEF Looking, Runs
    <3> QED  BY <1>2, <1>3, <2>4, <2>6, <3>1 DEF Looking, BuiltByItself, CalmSoFar, FirstOf
  <2>7. Checking(o) => Checking(o)'  BY <1>1, <1>2, <1>3, <2>4 DEF Checking, Untouched
  <2> QED  BY <1>2, <1>3, <2>1, <2>4, <2>5, <2>6, <2>7 DEF Handling, Untouched, FirstOf
<1>5. req' \in [Requests -> QueryShape]  BY <1>4 DEF StoreChanges
<1> QED  BY <1>1, <1>2, <1>4, <1>5 DEF ServingInv

(* What a new request holds is in range.                                   *)
LEMMA NothingYet == 0 \in Statuses /\ 0 \in 0..MaxTick /\ <<>> \in Findings
<1>1. 0 \in Statuses  BY DEF Statuses
<1>2. 0 \in 0..MaxTick  BY ClientConstants
<1>3. <<>> \in Findings  BY DEF Findings
<1> QED  BY <1>1, <1>2, <1>3

(* Every request that comes is new, and holds nothing yet.                 *)
LEMMA QueriesAreNew ==
  ASSUME NEW q \in Queries
  PROVE  /\ q.st = "new" /\ q.status = 0 /\ q.source = "none" /\ q.newest = 0 /\ q.found = <<>>
         /\ q \in QueryShape
<1> DEFINE Kinds == {"latest", "history", "portfolio", "health"}
           Tokens == {"none", "bad"}
           Inputs == {"known", "unknown", "out of range", "too short"}
           Stages == {"new", "waiting", "running", "done"}
           Sources == {"none", "mock", "live", "healthy", "degraded"}
           Ups == SUBSET {"minio", "postgres", "kafka"}
<1>1. PICK w \in Workers, kind \in Kinds, token \in Tokens, input \in Inputs : q = Query(kind, token, input, w)
  BY Zenon DEF Queries
<1>2. q = [kind |-> kind, token |-> token, input |-> input, worker |-> w, st |-> "new", status |-> 0,
           source |-> "none", newest |-> 0, calm |-> TRUE, found |-> <<>>, seen |-> {}]
  BY <1>1, Zenon DEF Query
<1>3. QueryShape = [kind : Kinds, token : Tokens, input : Inputs, worker : Workers, st : Stages,
                    status : Statuses, source : Sources, newest : 0..MaxTick, calm : BOOLEAN,
                    found : Findings, seen : Ups]
  BY DEF QueryShape
<1>4. "new" \in Stages /\ "none" \in Sources /\ {} \in Ups  OBVIOUS
<1> HIDE DEF Kinds, Tokens, Inputs, Stages, Sources, Ups
<1> QED  BY <1>2, <1>3, <1>4, NothingYet

(* The initial states satisfy the invariant.                               *)
LEMMA InitServingInv == ServingInit => ServingInv
<1> SUFFICES ASSUME ServingInit PROVE ServingInv  OBVIOUS
<1>1. ClientInv /\ closed = {}  BY InitClientInv DEF ServingInit, ClientInit
<1>2. ASSUME NEW r \in Requests PROVE Handling(r)
  <2>1. req[r].st = "new" /\ req[r].status = 0 /\ req[r].source = "none" /\ req[r].newest = 0 /\ req[r].found = <<>>
    BY QueriesAreNew DEF ServingInit
  <2>2. r \in Users /\ ClientOf[r] \in Clients  BY OwnClients, ClientConstants
  <2>3. use[r] = Idle /\ Mine(r).session = None /\ ClustersOf(r) = {}
    BY <2>2 DEF ServingInit, ClientInit, Mine, ClustersOf
  <2>4. use[r].pc = "new"  BY <2>3 DEF Idle
  <2> QED  BY <2>1, <2>3, <2>4 DEF Handling, Untouched
<1>3. req \in [Requests -> QueryShape]  BY QueriesAreNew DEF ServingInit
<1> QED  BY <1>1, <1>2, <1>3 DEF ServingInv, ServingInit

(* Every step keeps the invariant.                                         *)
LEMMA ServingInvStep ==
  ASSUME ServingInv, [ServingNext]_servingVars
  PROVE  ServingInv'
<1>1. ASSUME NEW r \in Requests, Arrive(r) \/ Handle(r) PROVE ServingInv'
  BY <1>1, ArriveStep, BeginStep, FetchMoves, FetchedStep, CheckServiceStep, CheckedStep DEF Handle
<1>2. CASE UNCHANGED servingVars
  <2>1. UNCHANGED <<cass, clientVars, use, outages>> /\ UNCHANGED <<req, services>>
    BY <1>2 DEF servingVars, apiVars
  <2>2. /\ ClientInv' /\ UNCHANGED <<cass, closed, inKs, open>>
        /\ \A o \in Requests : use'[o] = use[o] /\ Mine(o)' = Mine(o) /\ ClustersOf(o)' = ClustersOf(o)
    BY <2>1, NoClientMoves
  <2>3. \A r \in Requests : Handling(r)'  BY <2>1, <2>2, OthersStay DEF ServingInv
  <2> QED  BY <2>1, <2>2, <2>3 DEF ServingInv
<1> QED  BY <1>1, <1>2, ServiceStep, StoreStep DEF ServingNext

(* Requests on clients of their own, however many and however many         *)
(* workers, whatever Cassandra and the services do meanwhile: each handler *)
(* knows what it has found out, what was refused is never looked up, a     *)
(* client that gave up is never used, and the shapes of all of it          *)
(* (main.py:139-228, :404-465).                                            *)
THEOREM ServingInvariant == ServingSpec => []ServingInv
<1>1. ServingInit => ServingInv  BY InitServingInv
<1>2. ServingInv /\ [ServingNext]_servingVars => ServingInv'  BY ServingInvStep
<1> QED  BY <1>1, <1>2, PTL DEF ServingSpec

-----------------------------------------------------------------------------
(* What an answer says was so.                                             *)

Truthful(o) ==
  /\ req[o].st = "done" /\ req[o].calm /\ req[o].kind = "latest" => req[o].source # "mock"
  /\ req[o].source = "healthy" => req[o].seen = {"minio", "postgres", "kafka"}

(* A handler writes on its own request only.                               *)
LEMMA OthersAreAsBefore ==
  ASSUME req \in [Requests -> QueryShape], NEW r \in Requests, Arrive(r) \/ Handle(r)
  PROVE  req[r].st # "done" /\ \A o \in Requests \ {r} : req'[o] = req[o]
BY DEF Arrive, Handle, Begin, FetchStep, Fetched, CheckService, Checked, Answer, Runs

(* An answer stays what it is; calm only ends.                             *)
LEMMA AnswersStay ==
  ASSUME ServingInv, ServingNext, NEW o \in Requests, req[o].st = "done"
  PROVE  /\ req'[o].kind = req[o].kind /\ req'[o].source = req[o].source /\ req'[o].seen = req[o].seen
         /\ req'[o].st = "done" /\ (req'[o].calm => req[o].calm)
<1>1. req \in [Requests -> QueryShape] /\ req[o] \in QueryShape  BY DEF ServingInv
<1>2. ASSUME NEW r \in Requests, Arrive(r) \/ Handle(r) PROVE req'[o] = req[o]
  BY <1>1, <1>2, OthersAreAsBefore
<1>3. ASSUME NEW i \in DOMAIN Services, ServiceChanges(Services[i]) PROVE req'[o] = req[o]
  BY <1>3 DEF ServiceChanges, Runs
<1>4. CASE StoreChanges
  <2>1. PICK b \in BOOLEAN : b = (req[o].calm /\ (cass'.up \/ ~Runs(o, "latest")))  OBVIOUS
  <2>2. req'[o] = [req[o] EXCEPT !.calm = b]  BY <1>4, <2>1 DEF StoreChanges
  <2>3. req'[o].calm = b /\ req'[o].kind = req[o].kind /\ req'[o].source = req[o].source
        /\ req'[o].seen = req[o].seen /\ req'[o].st = req[o].st
    BY <1>1, <2>2 DEF QueryShape
  <2> QED  BY <2>1, <2>3
<1> QED  BY <1>2, <1>3, <1>4 DEF ServingNext

(* A price is made up only after something failed.                         *)
LEMMA PriceIsTruthful ==
  ASSUME ServingInv, NEW r \in Requests, Fetched(r)
  PROVE  Truthful(r)'
<1>1. req \in [Requests -> QueryShape] /\ Handling(r) /\ req[r].st = "running" /\ req[r].kind = "latest"
  BY DEF ServingInv, Fetched, Runs
<1>2. Looking(r)  BY <1>1 DEF Handling, Checking
<1>3. 200 \in Statuses /\ 503 \in Statuses  BY DEF Statuses
<1>4. req'[r].calm = req[r].calm /\ req'[r].source \in {"live", "none", "mock"}
      /\ (req'[r].source = "mock" => use[r].pc = "raised")
  BY <1>1, <1>3, AnswerMoves DEF Fetched
<1>5. req'[r].calm => use[r].pc # "raised"  BY <1>2, <1>4 DEF Looking, CalmSoFar
<1> QED  BY <1>4, <1>5 DEF Truthful

(* All three services answered, so each was up at that moment.             *)
LEMMA ReportIsTruthful ==
  ASSUME ServingInv, NEW r \in Requests, Checked(r)
  PROVE  Truthful(r)'
<1>1. req \in [Requests -> QueryShape] /\ req[r] \in QueryShape /\ Handling(r)
      /\ req[r].st = "running" /\ Len(req[r].found) = Len(Services)
  BY DEF ServingInv, Checked, Runs
<1>2. Len(Services) = 3 /\ Services[1] = "minio" /\ Services[2] = "postgres" /\ Services[3] = "kafka"
  BY DEF Services
<1>3. req[r].found # <<>>
  <2>1. Len(<<>>) # 3  OBVIOUS
  <2>2. Len(req[r].found) = 3  BY <1>1, <1>2
  <2> QED  BY <2>1, <2>2, Zenon
<1>4. Checking(r)  BY <1>1, <1>3 DEF Handling, Looking
<1>5. DOMAIN req[r].found = 1..3
  <2>1. req[r].found \in Findings  BY <1>1 DEF QueryShape
  <2> QED  BY <1>1, <1>2, <2>1 DEF Findings
<1>6. Overall(req[r].found) = "healthy" => req[r].seen = {"minio", "postgres", "kafka"}
  <2> SUFFICES ASSUME Overall(req[r].found) = "healthy" PROVE req[r].seen = {"minio", "postgres", "kafka"}
    OBVIOUS
  <2>1. \A i \in DOMAIN req[r].found : req[r].found[i] = "healthy"  BY DEF Overall
  <2>2. \A i \in 1..3 : Services[i] \in req[r].seen  BY <1>4, <1>5, <2>1 DEF Checking
  <2>3. Services[1] \in req[r].seen /\ Services[2] \in req[r].seen /\ Services[3] \in req[r].seen  BY <2>2
  <2>4. req[r].seen \subseteq {"minio", "postgres", "kafka"}  BY <1>1 DEF QueryShape
  <2> QED  BY <1>2, <2>3, <2>4
<1>7. Overall(req[r].found) \in {"healthy", "degraded"} /\ 200 \in Statuses  BY DEF Overall, Statuses
<1>8. req'[r].source = Overall(req[r].found) /\ req'[r].kind = "health" /\ req'[r].seen = req[r].seen
  BY <1>1, <1>4, <1>7, AnswerMoves DEF Checked, Checking
<1> QED  BY <1>6, <1>8 DEF Truthful

(* What needs no service is made up whatever happens, but is no price.     *)
LEMMA RefusalIsTruthful ==
  ASSUME ServingInv, NEW r \in Requests, Begin(r), req'[r].st = "done"
  PROVE  Truthful(r)'
<1>1. req \in [Requests -> QueryShape] /\ req[r] \in QueryShape  BY DEF ServingInv
<1>2. CASE Refusal(req[r]) # 0 /\ Answer(r, Refusal(req[r]), "none")
  <2>1. req'[r].source = "none"  BY <1>1, <1>2 DEF Answer, QueryShape
  <2> QED  BY <2>1 DEF Truthful
<1>3. CASE req[r].kind \in {"history", "portfolio"} /\ Answer(r, 200, "mock")
  <2>1. req'[r].source = "mock" /\ req'[r].kind = req[r].kind  BY <1>1, <1>3 DEF Answer, QueryShape
  <2> QED  BY <1>3, <2>1 DEF Truthful
<1>4. CASE req' = [req EXCEPT ![r].st = "running", ![r].calm = cass.up /\ cass.table]
  <2>1. PICK b : b = (cass.up /\ cass.table)  OBVIOUS
  <2>2. req' = [req EXCEPT ![r].st = "running", ![r].calm = b]  BY <1>4, <2>1
  <2>3. req'[r].st = "running"  BY <1>1, <2>2 DEF QueryShape
  <2> QED  BY <2>3
<1>5. CASE req' = [req EXCEPT ![r].st = "running", ![r].seen = services']
  <2>1. req'[r].st = "running"  BY <1>1, <1>5 DEF QueryShape
  <2> QED  BY <2>1
<1> QED  BY <1>2, <1>3, <1>4, <1>5 DEF Begin

(* An answer, once given truthfully, stays so.                             *)
LEMMA TruthfulStep ==
  ASSUME ServingInv, ServingInv', ServingNext, NEW o \in Requests, Truthful(o)
  PROVE  Truthful(o)'
<1>1. CASE req[o].st = "done"  BY <1>1, AnswersStay DEF Truthful
<1>2. CASE req'[o].st # "done"
  <2>1. req'[o].source = "none"  BY <1>2 DEF ServingInv, Handling
  <2> QED  BY <1>2, <2>1 DEF Truthful
<1>3. CASE req[o].st # "done" /\ req'[o].st = "done"
  <2>1. req \in [Requests -> QueryShape] /\ req[o] \in QueryShape  BY DEF ServingInv
  <2>2. ASSUME NEW i \in DOMAIN Services, ServiceChanges(Services[i]) PROVE FALSE
    <3>1. req'[o] = IF Runs(o, "health") THEN [req[o] EXCEPT !.seen = @ \cup services'] ELSE req[o]
      BY <2>2 DEF ServiceChanges
    <3> QED  BY <1>3, <2>1, <3>1 DEF QueryShape
  <2>3. ~StoreChanges
    <3> SUFFICES ASSUME StoreChanges PROVE FALSE  OBVIOUS
    <3>1. req'[o].st = req[o].st  BY <2>1 DEF StoreChanges, QueryShape
    <3> QED  BY <1>3, <3>1
  <2>4. PICK r \in Requests : Arrive(r) \/ Handle(r)  BY <2>2, <2>3 DEF ServingNext
  <2>5. r = o  BY <1>3, <2>1, <2>4, OthersAreAsBefore
  <2>6. ~Arrive(o)
    <3> SUFFICES ASSUME Arrive(o) PROVE FALSE  OBVIOUS
    <3>1. req'[o].st = "waiting"  BY <2>1, ArriveMoves DEF ServingInv
    <3> QED  BY <1>3, <3>1
  <2>7. ~FetchStep(o) /\ ~CheckService(o)
    <3>1. ASSUME FetchStep(o) PROVE req'[o].st = req[o].st
      <4>1. PICK b : b = (req[o].calm /\ outages' = outages)  OBVIOUS
      <4>2. req' = [req EXCEPT ![o].calm = b]  BY <3>1, <4>1 DEF FetchStep
      <4> QED  BY <2>1, <4>2 DEF QueryShape
    <3>2. ASSUME CheckService(o) PROVE req'[o].st = req[o].st
      <4>1. PICK f : req' = [req EXCEPT ![o].found = Append(@, f)]  BY <3>2 DEF CheckService
      <4>2. PICK g : g = Append(req[o].found, f)  OBVIOUS
      <4>3. req' = [req EXCEPT ![o].found = g]  BY <4>1, <4>2
      <4> QED  BY <2>1, <4>3 DEF QueryShape
    <3> QED  BY <1>3, <3>1, <3>2
  <2> QED
    BY <1>3, <2>4, <2>5, <2>6, <2>7, PriceIsTruthful, ReportIsTruthful, RefusalIsTruthful DEF Handle
<1> QED  BY <1>1, <1>2, <1>3

(* Whatever happens to Cassandra and the services while a request is       *)
(* handled: a price is made up only after something failed, a price from   *)
(* Cassandra is as new as any tick stored when the request came, and       *)
(* "healthy" is said only of services that were up (main.py:139-228,       *)
(* :410-465).                                                              *)
THEOREM WhatIsAnsweredWasSo == ServingSpec => []AnswersTruthful
<1> DEFINE Inv == ServingInv /\ \A o \in Requests : Truthful(o)
<1>1. ServingInit => Inv
  <2> SUFFICES ASSUME ServingInit PROVE Inv  OBVIOUS
  <2>1. ServingInv  BY InitServingInv
  <2>2. \A o \in Requests : req[o].st = "new" /\ req[o].source = "none"
    BY QueriesAreNew DEF ServingInit
  <2> QED  BY <2>1, <2>2 DEF Truthful
<1>2. Inv /\ [ServingNext]_servingVars => Inv'
  <2> SUFFICES ASSUME Inv, [ServingNext]_servingVars PROVE Inv'  OBVIOUS
  <2>1. ServingInv'  BY ServingInvStep
  <2>2. CASE ServingNext  BY <2>1, <2>2, TruthfulStep
  <2>3. CASE UNCHANGED servingVars  BY <2>1, <2>3 DEF servingVars, apiVars, Truthful
  <2> QED  BY <2>2, <2>3
<1>3. Inv => AnswersTruthful
  <2> SUFFICES ASSUME Inv PROVE AnswersTruthful  OBVIOUS
  <2>1. \A r \in Requests : Handling(r) /\ Truthful(r)  BY DEF ServingInv
  <2>2. CalmMeansLive /\ HealthTruthful  BY <2>1 DEF CalmMeansLive, HealthTruthful, Truthful
  <2>3. LiveIsNewest  BY <2>1 DEF LiveIsNewest, Handling
  <2> QED  BY <2>2, <2>3 DEF AnswersTruthful
<1> QED  BY <1>1, <1>2, <1>3, PTL DEF ServingSpec

(* A request builds a cluster for an attempt at most once.                 *)
LEMMA ClustersAreCounted ==
  ASSUME ServingInv
  PROVE  ClustersLeft
<1> SUFFICES ASSUME NEW r \in Requests, req[r].st = "done"
             PROVE  /\ Cardinality(ClustersOf(r)) <= MaxAttempts
                    /\ req[r].calm /\ req[r].source = "live" => Cardinality(ClustersOf(r)) = 1
  BY DEF ClustersLeft
<1>1. Cardinality(ClustersOf(r)) <= MaxAttempts
  <2> DEFINE Own == {r} \X (1..MaxAttempts)
  <2>1. ClustersOf(r) \in SUBSET Own  BY DEF ServingInv, ClientInv, ClientTypes, ClustersOf, Ids
  <2>2. IsFiniteSet({r}) /\ Cardinality({r}) = 1  BY FS_Singleton
  <2>3. IsFiniteSet(1..MaxAttempts) /\ Cardinality(1..MaxAttempts) = MaxAttempts
    <3>1. MaxAttempts \in Int /\ 1 \in Int /\ 1 <= MaxAttempts  BY ClientConstants
    <3> QED  BY <3>1, FS_Interval
  <2>4. IsFiniteSet(Own) /\ Cardinality(Own) = Cardinality({r}) * Cardinality(1..MaxAttempts)
    BY <2>2, <2>3, FS_Product
  <2>5. Cardinality(Own) = MaxAttempts  BY <2>2, <2>3, <2>4, ClientConstants
  <2> HIDE DEF Own
  <2>6. Cardinality(ClustersOf(r)) <= Cardinality(Own)  BY <2>1, <2>4, FS_Subset
  <2> QED  BY <2>5, <2>6
<1>2. ASSUME req[r].calm, req[r].source = "live" PROVE Cardinality(ClustersOf(r)) = 1
  <2>1. ClustersOf(r) = {<<r, 1>>}  BY <1>2 DEF ServingInv, Handling, FirstOf
  <2> QED  BY <2>1, FS_Singleton
<1> QED  BY <1>1, <1>2

(* A request leaves at most one cluster for each attempt running, and one  *)
(* if nothing failed (main.py:150, client.py:47-66).                       *)
THEOREM ClustersLeftAreBounded == ServingSpec => []ClustersLeft
BY ServingInvariant, ClustersAreCounted, PTL

-----------------------------------------------------------------------------
(* The specification the runs check: the requests, or threads on a client  *)
(* they share while no request has come.                                   *)

Answered == ServingInv /\ \A o \in Requests : Truthful(o)

Unasked == /\ ServingInv
           /\ \A o \in Requests : req[o].st = "new" /\ req[o].kind = "health"

(* What a thread does leaves what belongs to the requests alone.           *)
LEMMA ThreadsLeaveRequests ==
  ASSUME Users = MCUsers, ClientOf = MCClientOf, shared \notin Requests, Threads \cap Requests = {},
         ClientInv, NEW t \in Threads, ThreadStep(t), NEW r \in Requests
  PROVE  /\ Untouched(r) => Untouched(r)'
         /\ ClientOf[r] \notin closed => ClientOf[r] \notin closed'
<1>1. t \in Users /\ r \in Users /\ t # r /\ ClientOf[t] = shared /\ ClientOf[r] = r /\ shared # r
      /\ ClientTypes /\ use \in [Users -> Uses]
  BY DEF MCUsers, MCClientOf, ClientInv, ClientTypes
<1>2. use'[r] = use[r] /\ Mine(r)' = Mine(r)
  <2>1. CASE Session(t)  BY <1>1, <2>1, SessionMoves DEF Session, clientVars, Mine
  <2>2. CASE UseClient(t) /\ ~Session(t)
    <3>1. Mine(r)' = Mine(r)  BY <1>1, <2>2, ClientChanges, ClientConstants DEF Mine
    <3>2. use'[r] = use[r]
      BY <1>1, <2>2, GotoMoves, RetryMoves, StatementMoves DEF UseClient, Build, Connect, Keyspace
    <3> QED  BY <3>1, <3>2
  <2>3. CASE GoOn(t)  BY <1>1, <2>3, GotoMoves DEF GoOn, clientVars, Mine
  <2>4. CASE Close(t)  BY <2>4 DEF Close, Mine
  <2> QED  BY <2>1, <2>2, <2>3, <2>4 DEF ThreadStep, UseClient
<1>3. ASSUME ClustersOf(r) = {} PROVE ClustersOf(r)' = {}
  <2>1. open' \subseteq open \cup {<<t, use[t].attempt>>}
    BY DEF ThreadStep, UseClient, Session, Build, Connect, Keyspace, Statement, GoOn, Close, clientVars
  <2>2. \A c \in open' : c[1] # r  BY <1>1, <1>3, <2>1 DEF ClustersOf
  <2> QED  BY <2>2 DEF ClustersOf
<1>4. closed' \subseteq closed \cup {ClientOf[t]}
  BY DEF ThreadStep, UseClient, Session, Build, Connect, Keyspace, Statement, GoOn, Close, clientVars
<1> QED  BY <1>1, <1>2, <1>3, <1>4 DEF Untouched

(* While threads share a client, no request is touched.                    *)
LEMMA ThreadsStep ==
  ASSUME Users = MCUsers, ClientOf = MCClientOf, shared \notin Requests, Threads \cap Requests = {},
         Unasked, UNCHANGED apiVars, CassandraChanges \/ \E t \in Threads : ThreadStep(t)
  PROVE  Unasked'
<1>1. UNCHANGED <<req, services>> /\ ClientInv  BY DEF apiVars, Unasked, ServingInv
<1>2. \A r \in Requests : Untouched(r) /\ ClientOf[r] \notin closed  BY DEF Unasked, ServingInv, Handling
<1>3. ClientInv' /\ \A r \in Requests : Untouched(r)' /\ ClientOf[r] \notin closed'
  <2>1. CASE CassandraChanges
    <3>1. ClientInv' /\ UNCHANGED <<client, open, closed, use>>  BY <1>1, <2>1, CassandraStep
    <3> QED  BY <1>2, <3>1 DEF Untouched, Mine, ClustersOf
  <2>2. ASSUME NEW t \in Threads, ThreadStep(t)
        PROVE  ClientInv' /\ \A r \in Requests : Untouched(r)' /\ ClientOf[r] \notin closed'
    <3>1. ClientInv'  BY <1>1, <2>2, ThreadKeeps DEF MCUsers
    <3> QED  BY <1>1, <1>2, <2>2, <3>1, ThreadsLeaveRequests
  <2> QED  BY <2>1, <2>2
<1>4. \A r \in Requests : Handling(r)'
  <2> TAKE r \in Requests
  <2>1. use'[r].pc = "new"  BY <1>3 DEF Untouched, Idle
  <2> QED  BY <1>1, <1>3, <2>1 DEF Unasked, ServingInv, Handling
<1> QED  BY <1>1, <1>3, <1>4 DEF Unasked, ServingInv

(* The requests by themselves, or the threads by themselves, over the same *)
(* client: everything above holds of both (client.py:38-92, main.py:139-   *)
(* 228, :410-465).                                                         *)
THEOREM ApiAndThreads ==
  ASSUME Users = MCUsers, ClientOf = MCClientOf, shared \notin Requests, Threads \cap Requests = {}
  PROVE  Spec => [](ServingInv /\ SessionIsUsable /\ ClustersLeft /\ AnswersTruthful)
<1> DEFINE Part == (part = "api" /\ Answered) \/ (part = "threads" /\ Unasked)
<1>1. Init => Part
  <2> SUFFICES ASSUME Init PROVE Part  OBVIOUS
  <2>1. ServingInv  BY InitServingInv DEF Init
  <2>2. req \in [Requests -> Queries]  BY DEF Init, ServingInit
  <2>3. \A o \in Requests : req[o].st = "new" /\ req[o].source = "none"  BY <2>2, QueriesAreNew
  <2>4. \A o \in Requests : Truthful(o)  BY <2>3 DEF Truthful
  <2>5. part = "threads" => \A o \in Requests : req[o].kind = "health"  BY DEF Init, Query
  <2> QED  BY <2>1, <2>3, <2>4, <2>5 DEF Init, Answered, Unasked
<1>2. Part /\ [Next]_vars => Part'
  <2> SUFFICES ASSUME Part, [Next]_vars PROVE Part'  OBVIOUS
  <2>1. CASE part = "api"
    <3>1. part' = "api" /\ [ServingNext]_servingVars  BY <2>1 DEF Next, vars
    <3>2. ServingInv'  BY <2>1, <3>1, ServingInvStep DEF Answered
    <3>3. CASE ServingNext  BY <2>1, <3>1, <3>2, <3>3, TruthfulStep DEF Answered
    <3>4. CASE UNCHANGED servingVars
      BY <2>1, <3>1, <3>2, <3>4 DEF servingVars, apiVars, Truthful, Answered
    <3> QED  BY <3>1, <3>3, <3>4
  <2>2. CASE part = "threads"
    <3>1. part' = "threads"  BY <2>2 DEF Next, vars
    <3>2. CASE UNCHANGED apiVars /\ (CassandraChanges \/ \E t \in Threads : ThreadStep(t))
      BY <2>2, <3>1, <3>2, ThreadsStep
    <3>3. CASE UNCHANGED vars
      <4>1. ServingInv'  BY <2>2, <3>3, ServingInvStep DEF vars, Unasked
      <4> QED  BY <2>2, <3>1, <3>3, <4>1 DEF vars, servingVars, apiVars, Unasked
    <3> QED  BY <2>2, <3>2, <3>3 DEF Next
  <2> QED  BY <2>1, <2>2
<1>3. Part => ServingInv /\ SessionIsUsable /\ ClustersLeft /\ AnswersTruthful
  <2> SUFFICES ASSUME Part PROVE ServingInv /\ SessionIsUsable /\ ClustersLeft /\ AnswersTruthful  OBVIOUS
  <2>1. ServingInv /\ SessionIsUsable /\ ClustersLeft
    BY ClustersAreCounted, HeldIsUsable DEF Answered, Unasked, ServingInv
  <2>2. \A r \in Requests : Truthful(r)
    <3>1. CASE part = "threads"  BY <2>1, <3>1 DEF Unasked, ServingInv, Handling, Truthful
    <3> QED  BY <3>1 DEF Answered
  <2>3. AnswersTruthful
    BY <2>1, <2>2 DEF ServingInv, Handling, AnswersTruthful, CalmMeansLive, LiveIsNewest, HealthTruthful, Truthful
  <2> QED  BY <2>1, <2>3
<1> QED  BY <1>1, <1>2, <1>3, PTL DEF Spec

===============================================================================
