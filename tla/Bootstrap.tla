------------------------------ MODULE Bootstrap ------------------------------
(***************************************************************************)
(* The start of the platform's Kafka side: topics are created one by one   *)
(* by KafkaAdmin.initialize_from_config (ingestion/kafka/admin.py), and    *)
(* generation/main.py publishes its synthetic users before it starts the   *)
(* thread of trade_simulator.py.  publish() only enqueues: the producer's  *)
(* own threads deliver later, and the flush at the end of publish_users is *)
(* what puts the users before the trades.  auto.create.topics.enable is    *)
(* false, and the init container ends with an echo, so that the service    *)
(* may start with topics missing; no container is restarted by itself.     *)
(*                                                                         *)
(* A user is the pair of the start that generated it and its number.       *)
(***************************************************************************)
EXTENDS Naturals, Sequences

CONSTANTS Admins,        \* processes that run initialize_from_config
          Config,        \* the topics of topics.json, in order
          UserTopic, TradeTopic,
          UserCount,     \* SYNTHETIC_USERS_COUNT
          Consenting,    \* numbers of the users with analytics_consent
          MaxFaults,     \* bound: requests the brokers fail, and process ends
          MaxStarts      \* bound: starts of the generation service

ASSUME BootConstants == /\ Len(Config) \in Nat \ {0}
                        /\ UserCount \in Nat /\ MaxFaults \in Nat /\ MaxStarts \in Nat

Topics == {Config[i] : i \in 1..Len(Config)}
People == (1..MaxStarts) \X (1..UserCount)

VARIABLES topics,     \* topics the cluster has
          admin,      \* each admin: the next topic, how it ended, what it created
          gen,        \* the generation service: [st, start, next]
          pool,       \* _generated_users
          published,  \* users whose event was handed to the producer
          queue,      \* of them, those still in the queue of main()'s producer
          givenUp,    \* of them, those in the queue when the flush gave up
          userLog,    \* users whose event is in Kafka
          trades,     \* users with a trade in the queue of the simulator's producer
          tradeLog,   \* users with a trade event in Kafka
          missed,     \* a user or trade event met a missing topic
          faults

adminVars == <<topics, admin>>
userVars  == <<published, queue, givenUp, userLog>>
tradeVars == <<trades, tradeLog>>
genVars   == <<gen, pool, userVars, tradeVars, missed>>
bootVars  == <<adminVars, genVars, faults>>

BootInit == /\ topics \in SUBSET Topics
            /\ admin = [a \in Admins |-> [st |-> "running", next |-> 1, created |-> {}]]
            /\ gen = [st |-> "down", start |-> 0, next |-> 1]
            /\ pool = {} /\ published = {} /\ queue = {} /\ givenUp = {} /\ userLog = {}
            /\ trades = {} /\ tradeLog = {}
            /\ missed = FALSE
            /\ faults = 0

-----------------------------------------------------------------------------
(* create_topic: True if created, False if it exists, any other error is   *)
(* raised and ends initialize_from_config with the rest undone.            *)
Advance(a, made) ==
  admin' = [admin EXCEPT ![a].next = @ + 1, ![a].created = @ \cup made,
                         ![a].st = IF admin[a].next = Len(Config) THEN "done" ELSE "running"]

\* Mutant of CreateTopic: the future's result is not waited for.
CreateTopicUnawaited(a) ==
  LET t == Config[admin[a].next]
  IN  /\ admin[a].st = "running"
      /\ topics' \in {topics, topics \cup {t}}
      /\ Advance(a, {t} \ topics)
      /\ UNCHANGED <<genVars, faults>>

CreateTopic(a) ==
  LET t == Config[admin[a].next]
  IN  /\ admin[a].st = "running"
      /\ topics' = topics \cup {t}
      /\ Advance(a, {t} \ topics)
      /\ UNCHANGED <<genVars, faults>>

\* Mutant of CreateFails: any error is taken for TOPIC_ALREADY_EXISTS.
CreateFailureIgnored(a) ==
  /\ admin[a].st = "running"
  /\ faults < MaxFaults
  /\ faults' = faults + 1
  /\ topics' \in {topics, topics \cup {Config[admin[a].next]}}
  /\ Advance(a, {})
  /\ UNCHANGED genVars

(* The request fails or times out; the brokers may have created the topic. *)
CreateFails(a) ==
  /\ admin[a].st = "running"
  /\ faults < MaxFaults
  /\ faults' = faults + 1
  /\ topics' \in {topics, topics \cup {Config[admin[a].next]}}
  /\ admin' = [admin EXCEPT ![a].st = "raised"]
  /\ UNCHANGED genVars

RunAgain(a) == /\ admin[a].st = "raised"
               /\ admin' = [admin EXCEPT ![a].st = "running", ![a].next = 1]
               /\ UNCHANGED <<topics, genVars, faults>>

-----------------------------------------------------------------------------
(* What a request meets: a topic that is not there, or brokers that fail   *)
(* it or are slower than its timeout.                                      *)
Trouble(topic) ==
  \/ /\ topic \notin topics
     /\ missed' = TRUE
     /\ UNCHANGED faults
  \/ /\ faults < MaxFaults
     /\ faults' = faults + 1
     /\ UNCHANGED missed

(* An event leaves the producer's queue: it is in Kafka, or lost for ever, *)
(* which the delivery callback only logs.                                  *)
Delivered(log, who, topic) ==
  \/ /\ topic \in topics
     /\ log' = log \cup {who}
     /\ UNCHANGED <<missed, faults>>
  \/ /\ Trouble(topic)
     /\ UNCHANGED log

DeliverUser == \E u \in queue :
  /\ queue' = queue \ {u}
  /\ Delivered(userLog, u, UserTopic)
  /\ UNCHANGED <<adminVars, gen, pool, published, givenUp, tradeVars>>

DeliverTrade == \E u \in trades :
  /\ trades' = trades \ {u}
  /\ Delivered(tradeLog, u, TradeTopic)
  /\ UNCHANGED <<adminVars, gen, pool, userVars>>

(* docker compose up: the users exist in memory before any is published.   *)
StartGeneration ==
  /\ gen.st \in {"down", "dead"}
  /\ gen.start < MaxStarts
  /\ gen' = [st |-> "publishing", start |-> gen.start + 1, next |-> 1]
  /\ pool' = {p \in People : p[1] = gen.start + 1}
  /\ UNCHANGED <<adminVars, userVars, tradeVars, missed, faults>>

PublishUser ==
  LET u == <<gen.start, gen.next>>
  IN  /\ gen.st = "publishing"
      /\ gen.next <= UserCount
      /\ published' = published \cup {u}
      /\ queue' = queue \cup {u}
      /\ gen' = [gen EXCEPT !.next = @ + 1]
      /\ UNCHANGED <<adminVars, pool, givenUp, userLog, tradeVars, missed, faults>>

(* The process ends, and what its producers had queued is lost.            *)
Dies == /\ gen' = [gen EXCEPT !.st = "dead"]
        /\ queue' = {} /\ trades' = {}
        /\ UNCHANGED <<adminVars, pool, published, givenUp, userLog, tradeLog>>

(* The third KafkaException, or a full queue, leaves main().               *)
PublishUserRaises ==
  /\ gen.st = "publishing"
  /\ gen.next <= UserCount
  /\ Trouble(UserTopic)
  /\ Dies

\* Mutant of StartSimulator: publish_users does not flush.
StartSimulatorUnflushed ==
  /\ gen.st = "publishing"
  /\ gen.next > UserCount
  /\ gen' = [gen EXCEPT !.st = "trading"]
  /\ UNCHANGED <<adminVars, pool, userVars, tradeVars, missed, faults>>

(* flush() returns with an empty queue; main() starts the trade thread.    *)
StartSimulator ==
  /\ gen.st = "publishing"
  /\ gen.next > UserCount
  /\ queue = {}
  /\ gen' = [gen EXCEPT !.st = "trading"]
  /\ UNCHANGED <<adminVars, pool, userVars, tradeVars, missed, faults>>

(* flush() gives up after 15 seconds; publish_users drops the number of    *)
(* messages left, and main() starts the trade thread all the same.         *)
FlushTimesOut ==
  /\ gen.st = "publishing"
  /\ gen.next > UserCount
  /\ queue # {}
  /\ Trouble(UserTopic)
  /\ gen' = [gen EXCEPT !.st = "trading"]
  /\ givenUp' = givenUp \cup queue
  /\ UNCHANGED <<adminVars, pool, published, queue, userLog, tradeVars>>

\* The consent of the user as it was generated.
MayTrade(u) == u \in pool /\ u[2] \in Consenting

Trade == \E u \in People :
  /\ gen.st = "trading"
  /\ MayTrade(u)
  /\ trades' = trades \cup {u}
  /\ UNCHANGED <<adminVars, gen, pool, userVars, tradeLog, missed, faults>>

(* An exception of publish() ends the trade thread; main() waits on, and   *)
(* both producers go on delivering.                                        *)
TradeRaises ==
  /\ gen.st = "trading"
  /\ Trouble(TradeTopic)
  /\ gen' = [gen EXCEPT !.st = "idle"]
  /\ UNCHANGED <<adminVars, pool, userVars, tradeVars>>

(* The process is stopped. *)
GenerationEnds ==
  /\ gen.st \in {"publishing", "trading", "idle"}
  /\ faults < MaxFaults
  /\ faults' = faults + 1
  /\ Dies
  /\ UNCHANGED missed

BootNext == \/ \E a \in Admins : CreateTopic(a) \/ CreateFails(a) \/ RunAgain(a)
            \/ StartGeneration \/ PublishUser \/ PublishUserRaises
            \/ DeliverUser \/ DeliverTrade \/ StartSimulator \/ FlushTimesOut
            \/ Trade \/ TradeRaises \/ GenerationEnds

BootSpec == BootInit /\ [][BootNext]_bootVars

-----------------------------------------------------------------------------
(* An admin is through with the topics before the next, and has ended when *)
(* there is no next one.                                                   *)
ThroughWithEarlier(a) ==
  /\ \A i \in 1..(admin[a].next - 1) : Config[i] \in topics
  /\ admin[a].st = "running" => admin[a].next <= Len(Config)
  /\ admin[a].st = "done" => admin[a].next = Len(Config) + 1

(* The users us consent and were handed over; the event of one is still in *)
(* the queue only if a flush gave it up; and while nothing fails and no    *)
(* topic is missing, the events of all are in Kafka.                       *)
HaveUsers(us) ==
  /\ \A u \in us : u[2] \in Consenting
  /\ us \subseteq published
  /\ us \cap queue \subseteq givenUp
  /\ ~missed /\ faults = 0 => us \subseteq userLog

(* The users before the next are handed over, all of them when the trades  *)
(* begin, and then only a flush that gave up leaves one in the queue; none *)
(* is lost while nothing fails and no topic is missing.                    *)
UsersHandedOver ==
  /\ \A i \in 1..(gen.next - 1) : <<gen.start, i>> \in published
  /\ \A p \in published : p[1] < gen.start \/ (p[1] = gen.start /\ p[2] < gen.next)
  /\ gen.st \in {"trading", "idle"} => gen.next = UserCount + 1 /\ queue \subseteq givenUp
  /\ gen.st \in {"down", "dead"} => queue = {}
  /\ HaveUsers(trades)
  /\ ~missed /\ faults = 0 => published \subseteq userLog \cup queue /\ givenUp = {}

(* Shapes; a topic that somebody was told to have created exists; the      *)
(* users in memory are those of the running start.                         *)
BootInv ==
  /\ topics \subseteq Topics
  /\ admin \in [Admins -> [st : {"running", "raised", "done"}, next : 1..(Len(Config) + 1),
                           created : SUBSET Topics]]
  /\ \A a \in Admins : admin[a].created \subseteq topics /\ ThroughWithEarlier(a)
  /\ UsersHandedOver
  /\ gen \in [st : {"down", "publishing", "trading", "idle", "dead"}, start : 0..MaxStarts,
              next : 1..(UserCount + 1)]
  /\ gen.st # "down" => gen.start # 0
  /\ pool = {p \in People : p[1] = gen.start}
  /\ published \subseteq People
  /\ userLog \subseteq published /\ queue \subseteq published /\ givenUp \subseteq published
  /\ missed \in BOOLEAN /\ faults \in 0..MaxFaults

(* An initialize_from_config that returns leaves every topic of the        *)
(* configuration there, whatever failed before and whoever else was        *)
(* creating (admin.py:53-56, :98-110).                                     *)
InitializedMeansAll == \A a \in Admins : admin[a].st = "done" => topics = Topics

(* Of the callers of create_topic at most one is told True for a topic     *)
(* ("True if created, False if already exists", admin.py:34).              *)
CreatedOnce == \A a, b \in Admins : a # b => admin[a].created \cap admin[b].created = {}

(* initialize_from_config may be run again and by several: it ends with    *)
(* all topics, each created for one caller (admin.py:26-56, :98-110).      *)
TopicsInitialized == InitializedMeansAll /\ CreatedOnce

(* A trade event in Kafka is of a consenting user whose own event was      *)
(* handed over before, and is in Kafka too unless a topic was missing, a   *)
(* broker failed or the flush of publish_users gave up (main.py:50-69,     *)
(* synthetic_users.py:77-83, producer.py:118-126).                         *)
TradesFollowUsers == HaveUsers(tradeLog)
=============================================================================
