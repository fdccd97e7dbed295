-------------------------- MODULE OrchestrationProof --------------------------
(***************************************************************************)
(* What is driven by init containers and DAGs rather than by a stream: the *)
(* topics and the first users, the catalog, the trigger of NiFi and the    *)
(* daily mart.  The four share no state; each has a section of its own.    *)
(***************************************************************************)
EXTENDS MCStandalone, DailyMart, WellFoundedInduction, TLAPS

-----------------------------------------------------------------------------
(* The topics and the first users.                                         *)

(* The initial states satisfy the invariants of the start-up.              *)
LEMMA InitBootInv == BootInit => BootInv /\ TopicsInitialized /\ TradesFollowUsers
<1> SUFFICES ASSUME BootInit PROVE BootInv /\ TopicsInitialized /\ TradesFollowUsers  OBVIOUS
<1>1. 1 \in 1..(Len(Config) + 1) /\ 1 <= Len(Config) /\ 1 \in 1..(UserCount + 1) /\ 0 \in 0..MaxStarts /\ 0 \in 0..MaxFaults
  BY BootConstants
<1>2. \A a \in Admins : admin[a].created = {} /\ admin[a].st = "running" /\ admin[a].next = 1  BY DEF BootInit
<1>3. 1..(1 - 1) = {}  OBVIOUS
<1>4. \A a \in Admins : admin[a].created \subseteq topics /\ ThroughWithEarlier(a)
  BY <1>1, <1>2, <1>3 DEF ThroughWithEarlier
<1>5. admin \in [Admins -> [st : {"running", "raised", "done"}, next : 1..(Len(Config) + 1), created : SUBSET Topics]]
  BY <1>1 DEF BootInit
<1>6. pool = {p \in People : p[1] = gen.start}
  <2>1. \A p \in People : p[1] # 0  BY DEF People
  <2> QED  BY <2>1 DEF BootInit
<1>7. gen \in [st : {"down", "publishing", "trading", "idle", "dead"}, start : 0..MaxStarts, next : 1..(UserCount + 1)]
  BY <1>1 DEF BootInit
<1>8. UsersHandedOver /\ TradesFollowUsers  BY <1>3 DEF BootInit, UsersHandedOver, HaveUsers, TradesFollowUsers
<1>9. BootInv  BY <1>1, <1>4, <1>5, <1>6, <1>7, <1>8 DEF BootInit, BootInv
<1> QED
  BY <1>2, <1>8, <1>9 DEF BootInit, TopicsInitialized, InitializedMeansAll, CreatedOnce

(* One admin moves.                                                        *)
LEMMA OneAdminMoves ==
  ASSUME BootInv, NEW a \in Admins,
         NEW q \in [st : {"running", "raised", "done"}, next : 1..(Len(Config) + 1), created : SUBSET Topics],
         admin' = [admin EXCEPT ![a] = q]
  PROVE  /\ admin' \in [Admins -> [st : {"running", "raised", "done"}, next : 1..(Len(Config) + 1), created : SUBSET Topics]]
         /\ admin'[a] = q /\ \A b \in Admins \ {a} : admin'[b] = admin[b]
BY DEF BootInv

(* What Advance writes down.                                               *)
LEMMA AdvanceWrites ==
  ASSUME BootInv, NEW a \in Admins, NEW made, Advance(a, made), NEW q,
         q = [st |-> IF admin[a].next = Len(Config) THEN "done" ELSE "running",
              next |-> admin[a].next + 1, created |-> admin[a].created \cup made]
  PROVE  admin' = [admin EXCEPT ![a] = q]
<1>1. admin[a] \in [st : {"running", "raised", "done"}, next : 1..(Len(Config) + 1), created : SUBSET Topics]
  BY DEF BootInv
<1> PICK m : m = admin[a].created \cup made  OBVIOUS
<1> PICK n : n = admin[a].next + 1  OBVIOUS
<1> PICK st : st = IF admin[a].next = Len(Config) THEN "done" ELSE "running"  OBVIOUS
<1>2. PICK r : r = [admin[a] EXCEPT !.next = n, !.created = m, !.st = st]  OBVIOUS
<1>3. r = [st |-> st, next |-> n, created |-> m]  BY <1>1, <1>2
<1>4. admin' = [admin EXCEPT ![a] = r]  BY <1>1, <1>2 DEF BootInv, Advance
<1> QED  BY <1>3, <1>4

(* The next topic is there, and only the caller that was told so made it.  *)
LEMMA CreateTopicStep ==
  ASSUME BootInv, CreatedOnce, NEW a \in Admins, CreateTopic(a)
  PROVE  BootInv' /\ CreatedOnce'
<1> DEFINE t == Config[admin[a].next]
           made == {t} \ topics
<1>1. /\ admin[a] \in [st : {"running", "raised", "done"}, next : 1..(Len(Config) + 1), created : SUBSET Topics]
      /\ admin[a].st = "running" /\ admin[a].next \in 1..Len(Config) /\ Len(Config) \in Nat \ {0}
  BY BootConstants DEF BootInv, CreateTopic, ThroughWithEarlier
<1>2. t \in Topics /\ topics' = topics \cup {t} /\ topics' \subseteq Topics
  BY <1>1 DEF Topics, CreateTopic, BootInv
<1> PICK q : q = [st |-> IF admin[a].next = Len(Config) THEN "done" ELSE "running",
                  next |-> admin[a].next + 1, created |-> admin[a].created \cup made]  OBVIOUS
<1>3. q \in [st : {"running", "raised", "done"}, next : 1..(Len(Config) + 1), created : SUBSET Topics]
      /\ q.next = admin[a].next + 1 /\ q.created = admin[a].created \cup made
      /\ (q.st = "running" => admin[a].next # Len(Config)) /\ (q.st = "done" => admin[a].next = Len(Config))
  BY <1>1, <1>2
<1>4. admin' = [admin EXCEPT ![a] = q]
  <2>1. Advance(a, made)  BY DEF CreateTopic
  <2> HIDE DEF t, made
  <2> QED  BY <2>1, AdvanceWrites
<1> HIDE DEF t, made
<1>5. /\ admin' \in [Admins -> [st : {"running", "raised", "done"}, next : 1..(Len(Config) + 1), created : SUBSET Topics]]
      /\ admin'[a] = q /\ \A b \in Admins \ {a} : admin'[b] = admin[b]
  BY <1>3, <1>4, OneAdminMoves
<1>6. ThroughWithEarlier(a)'
  <2>1. \A i \in 1..(q.next - 1) : i \in 1..(admin[a].next - 1) \/ i = admin[a].next  BY <1>1, <1>3
  <2>2. \A i \in 1..(q.next - 1) : Config[i] \in topics'
    BY <1>2, <2>1 DEF BootInv, ThroughWithEarlier, t
  <2> QED  BY <1>1, <1>3, <1>5, <2>2 DEF ThroughWithEarlier
<1>7. \A b \in Admins : admin'[b].created \subseteq topics' /\ ThroughWithEarlier(b)'
  BY <1>2, <1>3, <1>5, <1>6 DEF BootInv, ThroughWithEarlier, made
<1>8. CreatedOnce'
  <2>1. \A b \in Admins : admin[b].created \subseteq topics /\ made \cap topics = {}  BY DEF BootInv, made
  <2> QED  BY <1>3, <1>5, <2>1 DEF CreatedOnce
<1>9. UNCHANGED <<genVars, faults>>  BY DEF CreateTopic
<1> QED  BY <1>2, <1>5, <1>7, <1>8, <1>9 DEF BootInv, UsersHandedOver, HaveUsers, genVars, userVars, tradeVars

(* The other steps of an admin: it ends or starts over, told of nothing.   *)
LEMMA AdminStep ==
  ASSUME BootInv, CreatedOnce, NEW a \in Admins, CreateFails(a) \/ RunAgain(a)
  PROVE  BootInv' /\ CreatedOnce'
<1>1. /\ admin[a] \in [st : {"running", "raised", "done"}, next : 1..(Len(Config) + 1), created : SUBSET Topics]
      /\ Len(Config) \in Nat \ {0} /\ (admin[a].st = "running" => admin[a].next \in 1..Len(Config))
      /\ ThroughWithEarlier(a)
  BY BootConstants DEF BootInv, ThroughWithEarlier
<1>2. topics \subseteq topics' /\ topics' \subseteq Topics
  BY <1>1 DEF CreateFails, RunAgain, BootInv, Topics
<1> PICK n : n = IF admin[a].st = "running" THEN admin[a].next ELSE 1  OBVIOUS
<1> PICK q : q = [st |-> IF admin[a].st = "running" THEN "raised" ELSE "running", next |-> n, created |-> admin[a].created]
  OBVIOUS
<1>3. q \in [st : {"running", "raised", "done"}, next : 1..(Len(Config) + 1), created : SUBSET Topics]
      /\ q.next = n /\ q.created = admin[a].created /\ q.st # "done" /\ (q.st = "running" => n <= Len(Config))
      /\ n \in Nat /\ (n = 1 \/ n = admin[a].next)
  BY <1>1
<1>4. admin' = [admin EXCEPT ![a] = q]  BY <1>1 DEF CreateFails, RunAgain, BootInv
<1>5. /\ admin' \in [Admins -> [st : {"running", "raised", "done"}, next : 1..(Len(Config) + 1), created : SUBSET Topics]]
      /\ admin'[a] = q /\ \A b \in Admins \ {a} : admin'[b] = admin[b]
  BY <1>3, <1>4, OneAdminMoves
<1>6. ThroughWithEarlier(a)'
  <2>1. \A i \in 1..(n - 1) : i \in 1..(admin[a].next - 1)  BY <1>1, <1>3
  <2>2. \A i \in 1..(n - 1) : Config[i] \in topics'  BY <1>1, <1>2, <2>1 DEF ThroughWithEarlier
  <2> QED  BY <1>3, <1>5, <2>2 DEF ThroughWithEarlier
<1>7. \A b \in Admins : admin'[b].created \subseteq topics' /\ ThroughWithEarlier(b)'
  BY <1>2, <1>3, <1>5, <1>6 DEF BootInv, ThroughWithEarlier
<1>8. CreatedOnce'  BY <1>3, <1>5 DEF CreatedOnce
<1>9. UNCHANGED genVars /\ faults' \in 0..MaxFaults /\ faults <= faults'
  BY BootConstants DEF CreateFails, RunAgain, genVars, BootInv
<1>10. UsersHandedOver'
  BY <1>9 DEF UsersHandedOver, HaveUsers, BootInv, genVars, userVars, tradeVars
<1> QED  BY <1>2, <1>5, <1>7, <1>8, <1>9, <1>10 DEF BootInv, genVars, userVars, tradeVars

(* The shape of the service's record, and what a fault does to the counts. *)
LEMMA GenFacts ==
  ASSUME BootInv
  PROVE  /\ gen \in [st : {"down", "publishing", "trading", "idle", "dead"}, start : 0..MaxStarts,
                     next : 1..(UserCount + 1)]
         /\ missed \in BOOLEAN /\ faults \in 0..MaxFaults
         /\ UserCount \in Nat /\ MaxStarts \in Nat /\ MaxFaults \in Nat
         /\ published \subseteq People /\ UsersHandedOver
         /\ userLog \subseteq published /\ queue \subseteq published /\ givenUp \subseteq published
BY BootConstants DEF BootInv

(* Whatever a request meets is written down.                               *)
LEMMA TroubleIsCounted ==
  ASSUME BootInv, NEW t, Trouble(t)
  PROVE  missed' \in BOOLEAN /\ faults' \in 0..MaxFaults /\ ~(~missed' /\ faults' = 0)
<1>1. CASE missed' = TRUE /\ faults' = faults  BY <1>1, GenFacts
<1>2. CASE faults < MaxFaults /\ faults' = faults + 1 /\ missed' = missed  BY <1>2, GenFacts
<1> QED  BY <1>1, <1>2 DEF Trouble

(* The conjuncts of BootInv that are not about the users.                  *)
LEMMA AdminsStay ==
  ASSUME BootInv, UNCHANGED adminVars
  PROVE  /\ topics' \subseteq Topics
         /\ admin' \in [Admins -> [st : {"running", "raised", "done"}, next : 1..(Len(Config) + 1),
                                   created : SUBSET Topics]]
         /\ \A a \in Admins : admin'[a].created \subseteq topics' /\ ThroughWithEarlier(a)'
         /\ CreatedOnce => CreatedOnce'
BY DEF BootInv, adminVars, ThroughWithEarlier, CreatedOnce

(* A start of the generation makes a pool of its own.                      *)
LEMMA StartGenerationStep ==
  ASSUME BootInv, TradesFollowUsers, StartGeneration
  PROVE  BootInv' /\ TradesFollowUsers'
<1>1. gen' = [st |-> "publishing", start |-> gen.start + 1, next |-> 1]
      /\ pool' = {p \in People : p[1] = gen.start + 1} /\ gen.start < MaxStarts
      /\ gen.st \in {"down", "dead"}
      /\ UNCHANGED <<adminVars, published, queue, givenUp, userLog, trades, tradeLog, missed, faults>>
  BY DEF StartGeneration, userVars, tradeVars
<1>2. gen' \in [st : {"down", "publishing", "trading", "idle", "dead"}, start : 0..MaxStarts, next : 1..(UserCount + 1)]
      /\ gen'.start = gen.start + 1
  BY <1>1, GenFacts
<1>3. \A p \in published : p[1] < gen'.start
  <2> SUFFICES ASSUME NEW p \in published PROVE p[1] < gen.start + 1  BY <1>2
  <2>1. p[1] \in 1..MaxStarts /\ (p[1] < gen.start \/ p[1] = gen.start)
    BY GenFacts DEF UsersHandedOver, People
  <2> QED  BY <2>1, GenFacts
<1>4. UsersHandedOver'
  BY <1>1, <1>2, <1>3, GenFacts DEF UsersHandedOver, HaveUsers
<1>5. TradesFollowUsers'  BY <1>1 DEF TradesFollowUsers, HaveUsers
<1> QED  BY <1>1, <1>2, <1>4, <1>5, AdminsStay, GenFacts DEF BootInv

(* The next user is handed over, and is not yet in Kafka.                  *)
LEMMA PublishUserStep ==
  ASSUME BootInv, TradesFollowUsers, PublishUser
  PROVE  BootInv' /\ TradesFollowUsers'
<1> DEFINE u == <<gen.start, gen.next>>
<1>1. /\ gen.st = "publishing" /\ gen.next <= UserCount
      /\ published' = published \cup {u} /\ queue' = queue \cup {u}
      /\ gen' = [gen EXCEPT !.next = @ + 1]
      /\ UNCHANGED <<adminVars, pool, givenUp, userLog, trades, tradeLog, missed, faults>>
  BY DEF PublishUser, tradeVars
<1>2. gen.next \in 1..UserCount  BY <1>1, GenFacts
<1>3. gen' \in [st : {"down", "publishing", "trading", "idle", "dead"}, start : 0..MaxStarts, next : 1..(UserCount + 1)]
      /\ gen'.st = "publishing" /\ gen'.start = gen.start /\ gen'.next = gen.next + 1
  BY <1>1, <1>2, GenFacts
<1>4. u \in People /\ gen.start # 0
  <2>1. gen.start # 0  BY <1>1 DEF BootInv
  <2> QED  BY <1>2, <2>1, GenFacts DEF People
<1>5. u \notin published
  BY <1>2, GenFacts DEF UsersHandedOver
<1>6. ASSUME NEW us, us \subseteq published, us \cap queue \subseteq givenUp
      PROVE  us \subseteq published' /\ us \cap queue' \subseteq givenUp
  BY <1>1, <1>5, <1>6
<1>7. HaveUsers(trades)' /\ HaveUsers(tradeLog)'
  <2>1. HaveUsers(trades) /\ HaveUsers(tradeLog)  BY GenFacts DEF UsersHandedOver, TradesFollowUsers
  <2> QED  BY <1>1, <1>6, <2>1 DEF HaveUsers
<1>8. \A i \in 1..(gen'.next - 1) : <<gen'.start, i>> \in published'
  <2>1. \A i \in 1..(gen'.next - 1) : i \in 1..(gen.next - 1) \/ i = gen.next  BY <1>2, <1>3
  <2> QED  BY <1>1, <1>3, <2>1, GenFacts DEF UsersHandedOver
<1>9. \A p \in published' : p[1] < gen'.start \/ (p[1] = gen'.start /\ p[2] < gen'.next)
  <2> SUFFICES ASSUME NEW p \in published' PROVE p[1] < gen.start \/ (p[1] = gen.start /\ p[2] < gen.next + 1)
    BY <1>3
  <2>1. CASE p = u  BY <1>2, <2>1
  <2>2. CASE p \in published
    <3>1. p[2] \in 1..UserCount  BY <2>2, GenFacts DEF People
    <3> QED  BY <1>2, <2>2, <3>1, GenFacts DEF UsersHandedOver
  <2> QED  BY <1>1, <2>1, <2>2
<1>10. ~missed' /\ faults' = 0 => published' \subseteq userLog' \cup queue' /\ givenUp' = {}
  BY <1>1, GenFacts DEF UsersHandedOver
<1>11. UsersHandedOver'  BY <1>3, <1>7, <1>8, <1>9, <1>10 DEF UsersHandedOver
<1> HIDE DEF u
<1> QED  BY <1>1, <1>3, <1>4, <1>7, <1>11, AdminsStay, GenFacts DEF BootInv, TradesFollowUsers

(* The event of a user leaves the queue; out of it and not in Kafka only   *)
(* after a fault.                                                          *)
LEMMA DeliverUserStep ==
  ASSUME BootInv, TradesFollowUsers, DeliverUser
  PROVE  BootInv' /\ TradesFollowUsers'
<1>1. PICK u \in queue : /\ queue' = queue \ {u} /\ Delivered(userLog, u, UserTopic)
                         /\ UNCHANGED <<adminVars, gen, pool, published, givenUp, trades, tradeLog>>
  BY DEF DeliverUser, tradeVars
<1>2. /\ userLog \subseteq userLog' /\ userLog' \subseteq userLog \cup {u}
      /\ missed' \in BOOLEAN /\ faults' \in 0..MaxFaults
      /\ (~missed' /\ faults' = 0 => ~missed /\ faults = 0 /\ u \in userLog')
  <2>1. CASE userLog' = userLog \cup {u} /\ UNCHANGED <<missed, faults>>  BY <2>1, GenFacts
  <2>2. CASE Trouble(UserTopic) /\ userLog' = userLog  BY <2>2, TroubleIsCounted
  <2> QED  BY <1>1, <2>1, <2>2 DEF Delivered
<1>3. HaveUsers(trades)' /\ HaveUsers(tradeLog)'
  <2>1. HaveUsers(trades) /\ HaveUsers(tradeLog)  BY GenFacts DEF UsersHandedOver, TradesFollowUsers
  <2> QED  BY <1>1, <1>2, <2>1 DEF HaveUsers
<1>4. UsersHandedOver'
  BY <1>1, <1>2, <1>3, GenFacts DEF UsersHandedOver
<1>5. userLog' \subseteq published' /\ queue' \subseteq published'  BY <1>1, <1>2, GenFacts
<1> QED  BY <1>1, <1>2, <1>3, <1>4, <1>5, AdminsStay, GenFacts DEF BootInv, TradesFollowUsers

(* A trade reaches Kafka out of a queue of trades that have their users.   *)
LEMMA DeliverTradeStep ==
  ASSUME BootInv, TradesFollowUsers, DeliverTrade
  PROVE  BootInv' /\ TradesFollowUsers'
<1>1. PICK u \in trades : /\ trades' = trades \ {u} /\ Delivered(tradeLog, u, TradeTopic)
                          /\ UNCHANGED <<adminVars, gen, pool, published, queue, givenUp, userLog>>
  BY DEF DeliverTrade, userVars
<1>2. /\ tradeLog' \subseteq tradeLog \cup {u}
      /\ missed' \in BOOLEAN /\ faults' \in 0..MaxFaults
      /\ (~missed' /\ faults' = 0 => ~missed /\ faults = 0)
  <2>1. CASE tradeLog' = tradeLog \cup {u} /\ UNCHANGED <<missed, faults>>  BY <2>1, GenFacts
  <2>2. CASE Trouble(TradeTopic) /\ tradeLog' = tradeLog  BY <2>2, TroubleIsCounted
  <2> QED  BY <1>1, <2>1, <2>2 DEF Delivered
<1>3. HaveUsers(trades)' /\ HaveUsers(tradeLog)'
  <2>1. HaveUsers(trades) /\ HaveUsers(tradeLog)  BY GenFacts DEF UsersHandedOver, TradesFollowUsers
  <2> QED  BY <1>1, <1>2, <2>1 DEF HaveUsers
<1>4. UsersHandedOver'  BY <1>1, <1>2, <1>3, GenFacts DEF UsersHandedOver
<1> QED  BY <1>1, <1>2, <1>3, <1>4, AdminsStay, GenFacts DEF BootInv, TradesFollowUsers

(* The process ends with empty queues.                                     *)
LEMMA DiesStep ==
  ASSUME BootInv, TradesFollowUsers, PublishUserRaises \/ GenerationEnds
  PROVE  BootInv' /\ TradesFollowUsers'
<1>1. /\ gen' = [gen EXCEPT !.st = "dead"] /\ queue' = {} /\ trades' = {}
      /\ UNCHANGED <<adminVars, pool, published, givenUp, userLog, tradeLog>>
  BY DEF PublishUserRaises, GenerationEnds, Dies
<1>2. missed' \in BOOLEAN /\ faults' \in 0..MaxFaults /\ ~(~missed' /\ faults' = 0)
  <2>1. CASE PublishUserRaises  BY <2>1, TroubleIsCounted DEF PublishUserRaises
  <2>2. CASE GenerationEnds  BY <2>2, GenFacts DEF GenerationEnds
  <2> QED  BY <2>1, <2>2
<1>3. gen' \in [st : {"down", "publishing", "trading", "idle", "dead"}, start : 0..MaxStarts, next : 1..(UserCount + 1)]
      /\ gen'.st = "dead" /\ gen'.start = gen.start /\ gen'.next = gen.next /\ gen.start # 0
  <2>1. gen.st # "down"  BY DEF PublishUserRaises, GenerationEnds
  <2> QED  BY <1>1, <2>1, GenFacts DEF BootInv
<1>4. UsersHandedOver'  BY <1>1, <1>2, <1>3, GenFacts DEF UsersHandedOver, HaveUsers
<1>5. TradesFollowUsers'  BY <1>1, <1>2 DEF TradesFollowUsers, HaveUsers
<1> QED  BY <1>1, <1>2, <1>3, <1>4, <1>5, AdminsStay, GenFacts DEF BootInv

(* The trades begin when nobody is left to hand over, behind a flush that  *)
(* emptied the queue or gave it up; they end with the thread.              *)
LEMMA SimulatorStep ==
  ASSUME BootInv, TradesFollowUsers, StartSimulator \/ FlushTimesOut \/ TradeRaises
  PROVE  BootInv' /\ TradesFollowUsers'
<1>1. /\ UNCHANGED <<adminVars, pool, published, queue, userLog, trades, tradeLog>>
      /\ givenUp \subseteq givenUp' /\ givenUp' \subseteq published
  BY GenFacts DEF StartSimulator, FlushTimesOut, TradeRaises, userVars, tradeVars
<1>2. /\ missed' \in BOOLEAN /\ faults' \in 0..MaxFaults
      /\ (~missed' /\ faults' = 0 => ~missed /\ faults = 0 /\ givenUp' = givenUp)
  <2>1. CASE StartSimulator  BY <2>1, GenFacts DEF StartSimulator, userVars
  <2>2. CASE FlushTimesOut  BY <2>2, TroubleIsCounted DEF FlushTimesOut
  <2>3. CASE TradeRaises  BY <2>3, TroubleIsCounted DEF TradeRaises
  <2> QED  BY <2>1, <2>2, <2>3
<1>3. /\ gen' \in [st : {"down", "publishing", "trading", "idle", "dead"}, start : 0..MaxStarts, next : 1..(UserCount + 1)]
      /\ gen'.st \in {"trading", "idle"} /\ gen'.start = gen.start /\ gen'.next = gen.next
      /\ gen.start # 0 /\ gen.next = UserCount + 1 /\ queue \subseteq givenUp'
  <2>1. CASE StartSimulator \/ FlushTimesOut
    <3>1. gen.st = "publishing" /\ gen.next > UserCount /\ gen' = [gen EXCEPT !.st = "trading"]
          /\ queue \subseteq givenUp'
      BY <2>1 DEF StartSimulator, FlushTimesOut
    <3> QED  BY <3>1, GenFacts DEF BootInv
  <2>2. CASE TradeRaises
    <3>1. gen.st = "trading" /\ gen' = [gen EXCEPT !.st = "idle"] /\ givenUp' = givenUp
      BY <2>2 DEF TradeRaises, userVars
    <3> QED  BY <3>1, GenFacts DEF BootInv, UsersHandedOver
  <2> QED  BY <2>1, <2>2
<1>4. HaveUsers(trades)' /\ HaveUsers(tradeLog)'
  <2>1. HaveUsers(trades) /\ HaveUsers(tradeLog)  BY GenFacts DEF UsersHandedOver, TradesFollowUsers
  <2> QED  BY <1>1, <1>2, <2>1 DEF HaveUsers
<1>5. UsersHandedOver'  BY <1>1, <1>2, <1>3, <1>4, GenFacts DEF UsersHandedOver
<1> QED  BY <1>1, <1>2, <1>3, <1>4, <1>5, AdminsStay, GenFacts DEF BootInv, TradesFollowUsers

(* Who trades is in memory, all in memory were handed over, and who still  *)
(* waits was given up by the flush.                                        *)
LEMMA TradeStep ==
  ASSUME BootInv, TradesFollowUsers, Trade
  PROVE  BootInv' /\ TradesFollowUsers'
<1>1. PICK u \in People : /\ gen.st = "trading" /\ MayTrade(u) /\ trades' = trades \cup {u}
                          /\ UNCHANGED <<adminVars, gen, pool, published, queue, givenUp, userLog,
                                         tradeLog, missed, faults>>
  BY DEF Trade, userVars
<1>2. u \in published
  <2>1. u[1] = gen.start /\ u[2] \in 1..UserCount /\ u = <<u[1], u[2]>>  BY <1>1 DEF MayTrade, BootInv, People
  <2>2. gen.next - 1 = UserCount  BY <1>1, GenFacts DEF UsersHandedOver
  <2> QED  BY <2>1, <2>2, GenFacts DEF UsersHandedOver
<1>3. u[2] \in Consenting /\ queue \subseteq givenUp
      /\ (~missed /\ faults = 0 => u \in userLog)
  BY <1>1, <1>2, GenFacts DEF MayTrade, UsersHandedOver
<1>4. HaveUsers(trades)' /\ HaveUsers(tradeLog)'
  <2>1. HaveUsers(trades) /\ HaveUsers(tradeLog)  BY GenFacts DEF UsersHandedOver, TradesFollowUsers
  <2> QED  BY <1>1, <1>2, <1>3, <2>1 DEF HaveUsers
<1>5. UsersHandedOver'  BY <1>1, <1>4, GenFacts DEF UsersHandedOver
<1> QED  BY <1>1, <1>4, <1>5, AdminsStay, GenFacts DEF BootInv, TradesFollowUsers

(* Every step of the start-up keeps its invariants.                        *)
LEMMA BootInvStep ==
  ASSUME BootInv, CreatedOnce, TradesFollowUsers, [BootNext]_bootVars
  PROVE  BootInv' /\ CreatedOnce' /\ TradesFollowUsers'
<1>1. ASSUME NEW a \in Admins, CreateTopic(a) \/ CreateFails(a) \/ RunAgain(a)
      PROVE  BootInv' /\ CreatedOnce' /\ TradesFollowUsers'
  <2>1. BootInv' /\ CreatedOnce'  BY <1>1, CreateTopicStep, AdminStep
  <2>2. UNCHANGED <<published, queue, givenUp, userLog, tradeLog, missed>> /\ (faults' = 0 => faults = 0)
    BY <1>1 DEF CreateTopic, CreateFails, RunAgain, genVars, userVars, tradeVars, BootInv
  <2> QED  BY <2>1, <2>2 DEF TradesFollowUsers, HaveUsers
<1>2. CASE StartGeneration
  BY <1>2, StartGenerationStep, AdminsStay DEF StartGeneration
<1>3. CASE PublishUser
  BY <1>3, PublishUserStep, AdminsStay DEF PublishUser
<1>4. CASE DeliverUser \/ DeliverTrade
  BY <1>4, DeliverUserStep, DeliverTradeStep, AdminsStay DEF DeliverUser, DeliverTrade
<1>5. CASE PublishUserRaises \/ GenerationEnds
  BY <1>5, DiesStep, AdminsStay DEF PublishUserRaises, GenerationEnds, Dies
<1>6. CASE StartSimulator \/ FlushTimesOut \/ TradeRaises
  BY <1>6, SimulatorStep, AdminsStay DEF StartSimulator, FlushTimesOut, TradeRaises
<1>7. CASE Trade
  BY <1>7, TradeStep, AdminsStay DEF Trade
<1>8. CASE UNCHANGED bootVars
  <2>1. UNCHANGED <<adminVars, gen, pool, published, queue, givenUp, userLog, trades, tradeLog, missed, faults>>
    BY <1>8 DEF bootVars, genVars, userVars, tradeVars
  <2>2. UsersHandedOver' /\ TradesFollowUsers'
    BY <2>1, GenFacts DEF UsersHandedOver, TradesFollowUsers, HaveUsers
  <2> QED  BY <2>1, <2>2, AdminsStay DEF BootInv
<1> QED  BY <1>1, <1>2, <1>3, <1>4, <1>5, <1>6, <1>7, <1>8 DEF BootNext

(* Whoever is through with every topic has found or made each of them.     *)
LEMMA ThroughMeansAll == BootInv => InitializedMeansAll
<1> SUFFICES ASSUME BootInv, NEW a \in Admins, admin[a].st = "done" PROVE topics = Topics
  BY DEF InitializedMeansAll
<1>1. admin[a].next - 1 = Len(Config)  BY BootConstants DEF BootInv, ThroughWithEarlier
<1> QED  BY <1>1 DEF BootInv, ThroughWithEarlier, Topics

(* Any number of admins, however their requests interleave and fail: an    *)
(* initialization that ends leaves every topic there, and no two callers   *)
(* are told that they created the same one (admin.py:26-56, :98-110).      *)
THEOREM TopicsAreInitialized == BootSpec => [](BootInv /\ TopicsInitialized)
<1>1. BootInit => BootInv /\ CreatedOnce /\ TradesFollowUsers  BY InitBootInv DEF TopicsInitialized
<1>2. BootInv /\ CreatedOnce /\ TradesFollowUsers /\ [BootNext]_bootVars
        => (BootInv /\ CreatedOnce /\ TradesFollowUsers)'
  BY BootInvStep
<1>3. BootInv /\ CreatedOnce => TopicsInitialized  BY ThroughMeansAll DEF TopicsInitialized
<1> QED  BY <1>1, <1>2, <1>3, PTL DEF BootSpec

(* Through any number of starts, faults and late deliveries: who has a     *)
(* trade in Kafka consented and was handed over before, waits in the queue *)
(* only where a flush gave it up, and is in Kafka too while no topic was   *)
(* missing and nothing failed (main.py:50-69, synthetic_users.py:77-83,    *)
(* producer.py:118-126).                                                   *)
THEOREM TradesComeAfterUsers == BootSpec => []TradesFollowUsers
<1>1. BootInit => BootInv /\ CreatedOnce /\ TradesFollowUsers  BY InitBootInv DEF TopicsInitialized
<1>2. BootInv /\ CreatedOnce /\ TradesFollowUsers /\ [BootNext]_bootVars
        => (BootInv /\ CreatedOnce /\ TradesFollowUsers)'
  BY BootInvStep
<1> QED  BY <1>1, <1>2, PTL DEF BootSpec

-----------------------------------------------------------------------------
(* The catalog of Atlas.                                                   *)

(* Lineage is registered after both its ends, which have none themselves.  *)
LEMMA LineageComesLast ==
  /\ Len(Catalog) = 9
  /\ \A i \in 1..9 : Catalog[i] \in Names
  /\ \A i \in 1..9 : \A e \in Ends(Catalog[i]) : Ends(e) = {} /\ \E j \in 1..(i - 1) : e = Catalog[j]
<1>1. Len(Catalog) = 9  BY DEF Catalog
<1>2. /\ Catalog[1] = "stock-ticks" /\ Catalog[2] = "trade-events" /\ Catalog[3] = "user-events"
      /\ Catalog[4] = "bronze" /\ Catalog[5] = "silver" /\ Catalog[6] = "gold"
      /\ Catalog[7] = "kafka-to-bronze" /\ Catalog[8] = "bronze-to-silver" /\ Catalog[9] = "silver-to-gold"
  BY DEF Catalog
<1>3. /\ Ends("stock-ticks") = {} /\ Ends("trade-events") = {} /\ Ends("user-events") = {}
      /\ Ends("bronze") = {} /\ Ends("silver") = {} /\ Ends("gold") = {}
  BY DEF Ends
<1>4. /\ Ends("kafka-to-bronze") = {"stock-ticks", "bronze"} /\ Ends("bronze-to-silver") = {"bronze", "silver"}
      /\ Ends("silver-to-gold") = {"silver", "gold"}
  BY DEF Ends
<1>5. ASSUME NEW i \in 1..9, NEW e \in Ends(Catalog[i])
      PROVE  Ends(e) = {} /\ \E j \in 1..(i - 1) : e = Catalog[j]
  <2>1. i \in {7, 8, 9}
    <3>1. i = 1 \/ i = 2 \/ i = 3 \/ i = 4 \/ i = 5 \/ i = 6 \/ i \in {7, 8, 9}  OBVIOUS
    <3> QED  BY <1>2, <1>3, <3>1
  <2>2. CASE i = 7
    <3>1. 1 \in 1..(i - 1) /\ 4 \in 1..(i - 1)  BY <2>2
    <3>2. e = "stock-ticks" \/ e = "bronze"  BY <1>2, <1>4, <2>2
    <3> QED  BY <1>2, <1>3, <3>1, <3>2
  <2>3. CASE i = 8
    <3>1. 4 \in 1..(i - 1) /\ 5 \in 1..(i - 1)  BY <2>3
    <3>2. e = "bronze" \/ e = "silver"  BY <1>2, <1>4, <2>3
    <3> QED  BY <1>2, <1>3, <3>1, <3>2
  <2>4. CASE i = 9
    <3>1. 5 \in 1..(i - 1) /\ 6 \in 1..(i - 1)  BY <2>4
    <3>2. e = "silver" \/ e = "gold"  BY <1>2, <1>4, <2>4
    <3> QED  BY <1>2, <1>3, <3>1, <3>2
  <2> QED  BY <2>1, <2>2, <2>3, <2>4
<1> QED  BY <1>1, <1>5 DEF Names

(* The initial states satisfy the invariant of the catalog.                *)
LEMMA InitAtlasInv == AtlasInit => AtlasInv
<1>1. 1 \in 1..(Len(Catalog) + 1) /\ 0 \in 0..MaxOutages /\ 0 \in 0..MaxClients  BY AtlasConstants, LineageComesLast
<1> QED  BY <1>1 DEF AtlasInit, AtlasInv, PostedIsThere

Clients == [st : {"none", "registering", "done"}, available : BOOLEAN,
            next : 1..(Len(Catalog) + 1), calm : BOOLEAN, known : SUBSET Foreign]

(* What Atlas accepts rests on nothing that is missing; and it accepts     *)
(* what rests on nothing missing once the entries before are there.        *)
LEMMA AcceptedRestsOnProvided ==
  ASSUME AtlasInv, NEW i \in 1..9
  PROVE  /\ AtlasTakes(Catalog[i]) => Rests(Catalog[i]) \subseteq provided
         /\ atlasUp /\ Rests(Catalog[i]) \subseteq provided
              /\ (\A j \in 1..(i - 1) : Rests(Catalog[j]) \subseteq Rests(Catalog[i])
                                          => Catalog[j] \in entities)
            => AtlasTakes(Catalog[i])
<1> PICK x : x = Catalog[i]  OBVIOUS
<1>1. \A e \in Ends(x) : Ends(e) = {} /\ \E j \in 1..(i - 1) : e = Catalog[j]  BY LineageComesLast
<1>2. \A e \in Ends(x) : Needs(e) = Rests(e) /\ Rests(e) \subseteq Rests(x)
  <2> SUFFICES ASSUME NEW e \in Ends(x) PROVE Needs(e) = Rests(e) /\ Rests(e) \subseteq Rests(x)  OBVIOUS
  <2>1. Needs(e) = Rests(e)  BY <1>1 DEF Rests
  <2>2. Needs(e) \subseteq Rests(x)  BY DEF Rests
  <2> QED  BY <2>1, <2>2
<1>3. ASSUME AtlasTakes(x) PROVE Rests(x) \subseteq provided
  <2>1. Needs(x) \subseteq provided /\ Ends(x) \subseteq entities  BY <1>3 DEF AtlasTakes
  <2>2. \A e \in Ends(x) : Needs(e) \subseteq provided  BY <1>2, <2>1 DEF AtlasInv
  <2> QED  BY <2>1, <2>2 DEF Rests
<1>4. ASSUME atlasUp, Rests(x) \subseteq provided,
             \A j \in 1..(i - 1) : Rests(Catalog[j]) \subseteq Rests(x) => Catalog[j] \in entities
      PROVE  AtlasTakes(x)
  <2>1. Ends(x) \subseteq entities  BY <1>1, <1>2, <1>4
  <2>2. Needs(x) \subseteq provided  BY <1>4 DEF Rests
  <2> QED  BY <1>4, <2>1, <2>2 DEF AtlasTakes
<1> QED  BY <1>3, <1>4

(* A post adds its entry, or nothing.                                      *)
LEMMA PostStep ==
  ASSUME AtlasInv, Post
  PROVE  AtlasInv'
<1> PICK n : n = client.next  OBVIOUS
<1> PICK x : x = Catalog[n]  OBVIOUS
<1>1. client \in Clients /\ client.st = "registering" /\ n \in 1..9 /\ Len(Catalog) = 9
  BY LineageComesLast DEF AtlasInv, Post, Clients
<1>2. UNCHANGED <<atlasUp, provided, outages, built>>  BY DEF Post
<1>3. x \in Names  BY <1>1, LineageComesLast
<1>4. entities \subseteq entities' /\ entities' \subseteq entities \cup {x}
  BY DEF Post
<1>5. client.available /\ AtlasTakes(x) => x \in entities'  BY DEF Post
<1>6. x \in entities' => x \in entities \/ AtlasTakes(x)  BY DEF Post
<1>7. entities' \subseteq {y \in Names : Rests(y) \subseteq provided}
  BY <1>1, <1>3, <1>4, <1>6, AcceptedRestsOnProvided DEF AtlasInv
<1> PICK st : st = IF n = Len(Catalog) THEN "done" ELSE "registering"  OBVIOUS
<1>8. client' = [st |-> st, available |-> client.available, next |-> n + 1, calm |-> client.calm,
                 known |-> client.known]
  BY <1>1 DEF Post, Clients
<1>9. /\ client' \in Clients
      /\ client'.st = st /\ client'.available = client.available /\ client'.next = n + 1
      /\ client'.calm = client.calm /\ client'.known = client.known
  BY <1>1, <1>8 DEF Clients
<1>10. PostedIsThere'
  <2> SUFFICES ASSUME client.calm
               PROVE  atlasUp /\ client.available
                      /\ \A i \in 1..n : Rests(Catalog[i]) \subseteq client.known => Catalog[i] \in entities'
    BY <1>1, <1>2, <1>9 DEF PostedIsThere
  <2>1. atlasUp /\ client.available
        /\ \A i \in 1..(n - 1) : Rests(Catalog[i]) \subseteq client.known => Catalog[i] \in entities
    BY <1>1 DEF AtlasInv, PostedIsThere
  <2>2. client.known \subseteq provided  BY DEF AtlasInv
  <2>3. Rests(x) \subseteq client.known => x \in entities'
    <3> SUFFICES ASSUME Rests(x) \subseteq client.known PROVE AtlasTakes(x)  BY <1>5, <2>1
    <3>1. \A j \in 1..(n - 1) : Rests(Catalog[j]) \subseteq Rests(x) => Catalog[j] \in entities  BY <2>1
    <3> QED  BY <1>1, <2>1, <2>2, <3>1, AcceptedRestsOnProvided
  <2>4. \A i \in 1..n : i \in 1..(n - 1) \/ i = n  BY <1>1
  <2> QED  BY <1>4, <2>1, <2>3, <2>4
<1>11. (st = "registering" => n # 9) /\ (st = "done" => n = 9)  BY <1>1
<1>12. client'.st = "registering" => client'.next <= Len(Catalog)  BY <1>1, <1>9, <1>11
<1>13. client'.st = "done" => client'.next = Len(Catalog) + 1  BY <1>1, <1>9, <1>11
<1> QED  BY <1>2, <1>7, <1>9, <1>10, <1>12, <1>13 DEF AtlasInv, Clients

(* However often Atlas goes and comes, and whatever it is given meanwhile: *)
(* a registration during which it stayed up leaves every entry that rests  *)
(* on nothing missing at its start, lineage included, and the catalog is   *)
(* whole only where all databases and classifications were provided        *)
(* (atlas_client.py:38, :52-67, :110, :184-221).                           *)
THEOREM CatalogIsComplete == AtlasSpec => [](AtlasInv /\ CatalogComplete)
<1>1. AtlasInit => AtlasInv  BY InitAtlasInv
<1>2. AtlasInv /\ [AtlasNext]_atlasVars => AtlasInv'
  <2> SUFFICES ASSUME AtlasInv, [AtlasNext]_atlasVars PROVE AtlasInv'  OBVIOUS
  <2>1. client \in Clients /\ atlasUp \in BOOLEAN /\ Len(Catalog) = 9 /\ provided \in SUBSET Foreign
    BY LineageComesLast DEF AtlasInv, Clients
  <2>2. CASE Construct
    <3>1. client' = [st |-> "registering", available |-> atlasUp, next |-> 1, calm |-> atlasUp, known |-> provided]
          /\ built' \in 0..MaxClients /\ UNCHANGED <<atlasUp, provided, entities, outages>>
      BY <2>2, AtlasConstants DEF Construct, AtlasInv
    <3>2. client' \in Clients  BY <2>1, <3>1 DEF Clients
    <3> QED  BY <2>1, <3>1, <3>2 DEF AtlasInv, PostedIsThere, Clients
  <2>3. CASE Post  BY <2>3, PostStep
  <2>4. CASE Provide
    <3>1. provided \subseteq provided' /\ provided' \subseteq Foreign
          /\ UNCHANGED <<atlasUp, entities, client, outages, built>>
      BY <2>1, <2>4 DEF Provide
    <3> QED  BY <3>1 DEF AtlasInv, PostedIsThere
  <2>5. CASE GoesDown
    <3>1. client' = [client EXCEPT !.calm = FALSE] /\ atlasUp' = FALSE /\ outages' \in 0..MaxOutages
          /\ UNCHANGED <<provided, entities, built>>
      BY <2>5, AtlasConstants DEF GoesDown, AtlasInv
    <3>2. client' \in Clients /\ ~client'.calm /\ client'.st = client.st /\ client'.next = client.next
          /\ client'.known = client.known
      BY <2>1, <3>1 DEF Clients
    <3> QED  BY <3>1, <3>2 DEF AtlasInv, PostedIsThere, Clients
  <2>6. CASE ComesUp
    <3>1. atlasUp' = TRUE /\ UNCHANGED <<provided, entities, client, outages, built>>  BY <2>6 DEF ComesUp
    <3> QED  BY <2>1, <3>1 DEF AtlasInv, PostedIsThere
  <2>7. CASE UNCHANGED atlasVars  BY <2>7 DEF atlasVars, AtlasInv, PostedIsThere
  <2> QED  BY <2>2, <2>3, <2>4, <2>5, <2>6, <2>7 DEF AtlasNext
<1>3. AtlasInv => CatalogComplete
  <2>1. ASSUME AtlasInv, client.st = "done", client.calm
        PROVE  {x \in Names : Rests(x) \subseteq client.known} \subseteq entities
    <3>1. client.next - 1 = Len(Catalog)  BY <2>1, LineageComesLast DEF AtlasInv
    <3> QED  BY <2>1, <3>1 DEF AtlasInv, PostedIsThere, Names
  <2>2. ASSUME AtlasInv, entities = Names PROVE provided = Foreign
    <3>1. \A x \in Names : Needs(x) \subseteq provided  BY <2>2 DEF AtlasInv, Rests
    <3> QED  BY <2>2, <3>1 DEF Foreign, AtlasInv
  <2> QED  BY <2>1, <2>2 DEF CatalogComplete
<1> QED  BY <1>1, <1>2, <1>3, PTL DEF AtlasSpec

-----------------------------------------------------------------------------
(* The trigger of NiFi.                                                    *)

Tasks == [st : Calls \cup {"skipped", "nogroup", "triggered", "failed"},
          try : 1..TaskTries, attempt : 1..StartAttempts, token : Nat, asked : BOOLEAN, started : BOOLEAN]

(* NiFi changes: an outage and an expiry are faults; the group stays.      *)
LEMMA NiFiMoves ==
  ASSUME NiFiInv, NiFiDown \/ NiFiUp \/ TokenExpires
  PROVE  NiFiInv'
<1>1. /\ nifi \in [up : BOOLEAN, secured : BOOLEAN, login : 1..(MaxNiFiFaults + 1), group : {"none", "stopped", "running"}]
      /\ nifiFaults \in 0..MaxNiFiFaults /\ nifi.login <= nifiFaults + 1 /\ task' = task /\ task \in Tasks
  BY DEF NiFiInv, NiFiDown, NiFiUp, TokenExpires, Tasks
<1>2. CASE NiFiDown
  <2>1. nifi' = [nifi EXCEPT !.up = FALSE] /\ nifiFaults' = nifiFaults + 1 /\ nifiFaults' \in 0..MaxNiFiFaults
    BY <1>1, <1>2, NiFiConstants DEF NiFiDown, Fault
  <2>2. TriesCostFaults'  BY <1>1, <2>1, NiFiConstants DEF NiFiInv, TriesCostFaults, Tasks
  <2>3. nifi'.login = nifi.login /\ nifi'.secured = nifi.secured /\ nifi'.group = nifi.group
        /\ nifi' \in [up : BOOLEAN, secured : BOOLEAN, login : 1..(MaxNiFiFaults + 1), group : {"none", "stopped", "running"}]
    BY <1>1, <2>1
  <2>4. nifi'.login <= nifiFaults' + 1  BY <1>1, <2>1, <2>3
  <2> QED  BY <1>1, <2>1, <2>2, <2>3, <2>4 DEF NiFiInv
<1>3. CASE NiFiUp
  <2>1. nifi' = [nifi EXCEPT !.up = TRUE] /\ nifiFaults' = nifiFaults /\ ~nifi.up  BY <1>3 DEF NiFiUp
  <2>2. ~Allowed  BY <2>1 DEF Allowed
  <2>3. TriesCostFaults'  BY <1>1, <2>1, <2>2 DEF NiFiInv, TriesCostFaults
  <2> QED  BY <1>1, <2>1, <2>3 DEF NiFiInv
<1>4. CASE TokenExpires
  <2>1. nifi' = [nifi EXCEPT !.login = @ + 1] /\ nifiFaults' = nifiFaults + 1 /\ nifiFaults' \in 0..MaxNiFiFaults
    BY <1>1, <1>4, NiFiConstants DEF TokenExpires, Fault
  <2>2. TriesCostFaults'  BY <1>1, <2>1, NiFiConstants DEF NiFiInv, TriesCostFaults, Tasks
  <2>3. nifi'.login = nifi.login + 1 /\ nifi'.secured = nifi.secured /\ nifi'.group = nifi.group /\ nifi'.up = nifi.up
        /\ nifi' \in [up : BOOLEAN, secured : BOOLEAN, login : 1..(MaxNiFiFaults + 1), group : {"none", "stopped", "running"}]
    BY <1>1, <2>1, NiFiConstants
  <2> QED  BY <1>1, <2>1, <2>2, <2>3, NiFiConstants DEF NiFiInv, Tasks
<1> QED  BY <1>2, <1>3, <1>4

(* The task moves: its record becomes q.                                   *)
LEMMA TaskIsRecord ==
  ASSUME task \in Tasks
  PROVE  task = [st |-> task.st, try |-> task.try, attempt |-> task.attempt, token |-> task.token,
                 asked |-> task.asked, started |-> task.started]
BY DEF Tasks

(* A client that has no token may get one from a NiFi that asks for it.    *)
LEMMA EnsureAuthStep ==
  ASSUME NiFiInv, EnsureAuth
  PROVE  NiFiInv'
<1>1. /\ nifi \in [up : BOOLEAN, secured : BOOLEAN, login : 1..(MaxNiFiFaults + 1), group : {"none", "stopped", "running"}]
      /\ task \in Tasks /\ nifi' = nifi /\ nifiFaults \in 0..MaxNiFiFaults
  BY DEF NiFiInv, EnsureAuth, Tasks
<1>2. PICK k : /\ task' = [task EXCEPT !.asked = TRUE, !.token = k]
               /\ k = task.token \/ (task.token = 0 /\ nifi.secured /\ k = nifi.login)
               /\ nifiFaults' \in 0..MaxNiFiFaults /\ nifiFaults <= nifiFaults'
  <2>1. CASE /\ task' = [task EXCEPT !.asked = TRUE, !.token = IF @ = 0 /\ nifi.up /\ nifi.secured THEN nifi.login ELSE @]
             /\ UNCHANGED nifiFaults
    <3>1. PICK k : k = IF task.token = 0 /\ nifi.up /\ nifi.secured THEN nifi.login ELSE task.token  OBVIOUS
    <3>2. task' = [task EXCEPT !.asked = TRUE, !.token = k]  BY <1>1, <2>1, <3>1 DEF Tasks
    <3>3. k = task.token \/ (task.token = 0 /\ nifi.secured /\ k = nifi.login)  BY <3>1
    <3>4. nifiFaults' \in 0..MaxNiFiFaults /\ nifiFaults <= nifiFaults'  BY <1>1, <2>1
    <3> QED  BY <3>2, <3>3, <3>4, Zenon
  <2>2. CASE task' = [task EXCEPT !.asked = TRUE] /\ Fault
    <3>1. nifiFaults' \in 0..MaxNiFiFaults /\ nifiFaults <= nifiFaults'  BY <1>1, <2>2, NiFiConstants DEF Fault
    <3>2. task' = [task EXCEPT !.asked = TRUE, !.token = task.token]  BY <1>1, <2>2 DEF Tasks
    <3> QED  BY <3>1, <3>2
  <2> QED  BY <2>1, <2>2 DEF EnsureAuth
<1>3. k \in Nat /\ k <= nifi.login  BY <1>1, <1>2 DEF NiFiInv, Tasks
<1>4. /\ task' \in Tasks /\ task'.st = task.st /\ task'.try = task.try /\ task'.started = task.started
      /\ task'.token = k
  BY <1>1, <1>2, <1>3 DEF Tasks
<1>5. Allowed => Allowed'  BY <1>1, <1>2, <1>4 DEF Allowed, NiFiInv
<1>6. TriesCostFaults'  BY <1>1, <1>2, <1>4, <1>5, NiFiConstants DEF NiFiInv, TriesCostFaults, Tasks
<1> QED  BY <1>1, <1>2, <1>3, <1>4, <1>6 DEF NiFiInv, Tasks

(* A request is answered: NiFi let the client in.                          *)
LEMMA AnsweredStep ==
  ASSUME NiFiInv, Answered
  PROVE  NiFiInv' /\ TriggeredMeansStarted'
<1>1. /\ nifi \in [up : BOOLEAN, secured : BOOLEAN, login : 1..(MaxNiFiFaults + 1), group : {"none", "stopped", "running"}]
      /\ task \in Tasks /\ nifiFaults' = nifiFaults /\ Allowed /\ task.st \in Calls
  BY DEF NiFiInv, Answered, Busy, Tasks
<1>2. PICK g : nifi' = [nifi EXCEPT !.group = g] /\ g = IF task.st = "start" THEN "running" ELSE nifi.group
  BY <1>1 DEF Answered
<1>3. /\ nifi' \in [up : BOOLEAN, secured : BOOLEAN, login : 1..(MaxNiFiFaults + 1), group : {"none", "stopped", "running"}]
      /\ nifi'.up = nifi.up /\ nifi'.secured = nifi.secured /\ nifi'.login = nifi.login /\ nifi'.group = g
  BY <1>1, <1>2
<1>4. /\ task' \in Tasks /\ task'.try = task.try /\ task'.token = task.token
      /\ task'.started # task.started => task.st = "start" /\ task'.started
      /\ task'.st = "status" => task'.started
      /\ task'.st = "triggered" => task.st = "status"
      /\ task'.st # "failed"
  <2> DEFINE T == [st |-> task.st, try |-> task.try, attempt |-> task.attempt, token |-> task.token,
                   asked |-> task.asked, started |-> task.started]
  <2>0. task = T  BY <1>1, TaskIsRecord DEF Tasks
  <2>1. CASE task.st = "health"
    <3>1. task' = [[task EXCEPT !.asked = FALSE] EXCEPT !.st = "list"]  BY <2>1 DEF Answered
    <3>2. task' = [[T EXCEPT !.asked = FALSE] EXCEPT !.st = "list"]  BY <2>0, <3>1
    <3>3. task' = [st |-> "list", try |-> task.try, attempt |-> task.attempt, token |-> task.token,
                   asked |-> FALSE, started |-> task.started]
      BY <3>2
    <3> QED  BY <1>1, <3>3 DEF Tasks, Calls
  <2>2. CASE task.st = "list"
    <3>1. PICK st \in {"nogroup", "start"} : st = IF nifi.group = "none" THEN "nogroup" ELSE "start"  OBVIOUS
    <3>2. task' = [[task EXCEPT !.asked = FALSE] EXCEPT !.st = st]  BY <2>2, <3>1 DEF Answered
    <3>3. task' = [[T EXCEPT !.asked = FALSE] EXCEPT !.st = st]  BY <2>0, <3>2
    <3>4. task' = [st |-> st, try |-> task.try, attempt |-> task.attempt, token |-> task.token,
                   asked |-> FALSE, started |-> task.started]
      BY <3>3
    <3>5. st \in Calls \cup {"nogroup"} /\ st # "status" /\ st # "triggered" /\ st # "failed"  BY <3>1 DEF Calls
    <3> QED  BY <1>1, <3>4, <3>5 DEF Tasks
  <2>3. CASE task.st = "start"
    <3>1. task' = [[task EXCEPT !.asked = FALSE] EXCEPT !.st = "status", !.started = TRUE]  BY <2>3 DEF Answered
    <3>2. task' = [[T EXCEPT !.asked = FALSE] EXCEPT !.st = "status", !.started = TRUE]  BY <2>0, <3>1
    <3>3. task' = [st |-> "status", try |-> task.try, attempt |-> task.attempt, token |-> task.token,
                   asked |-> FALSE, started |-> TRUE]
      BY <3>2
    <3> QED  BY <1>1, <2>3, <3>3 DEF Tasks, Calls
  <2>4. CASE task.st = "status"
    <3>1. task' = [[task EXCEPT !.asked = FALSE] EXCEPT !.st = "triggered"]  BY <2>4 DEF Answered
    <3>2. task' = [[T EXCEPT !.asked = FALSE] EXCEPT !.st = "triggered"]  BY <2>0, <3>1
    <3>3. task' = [st |-> "triggered", try |-> task.try, attempt |-> task.attempt, token |-> task.token,
                   asked |-> FALSE, started |-> task.started]
      BY <3>2
    <3> QED  BY <1>1, <2>4, <3>3 DEF Tasks
  <2> QED  BY <1>1, <2>1, <2>2, <2>3, <2>4 DEF Calls
<1>6. Allowed'  BY <1>1, <1>3, <1>4 DEF Allowed
<1>7. TriesCostFaults'  BY <1>1, <1>4, <1>6 DEF NiFiInv, TriesCostFaults
<1>8. (task'.started => nifi'.group = "running")  BY <1>2, <1>3, <1>4 DEF NiFiInv
<1>9. TriggeredMeansStarted'  BY <1>4 DEF NiFiInv, TriggeredMeansStarted
<1> QED  BY <1>1, <1>3, <1>4, <1>7, <1>8, <1>9 DEF NiFiInv, Tasks

(* After a request that raised, in a try that has cost a fault by then:    *)
(* the next try, the next attempt, or the end.                             *)
LEMMA RaisedMoves ==
  ASSUME task \in Tasks, task.st \in Calls, NEW t, t = Raised(task)
  PROVE  /\ t \in Tasks /\ (t.started => task.started) /\ t.st # "status" /\ t.st # "triggered"
         /\ t.token \in {0, task.token}
         /\ \/ t.st = "skipped" /\ task.st = "health" /\ t.try = task.try
            \/ t.st = "start" /\ task.st = "start" /\ t.try = task.try /\ t.token = task.token
            \/ t.st = "failed" /\ task.st # "health" /\ t.try = task.try /\ task.try = TaskTries
            \/ t.st = "health" /\ task.st # "health" /\ t.try = task.try + 1
<1>1. CASE task.st = "health"
  <2>1. t = [task EXCEPT !.st = "skipped"]  BY <1>1 DEF Raised
  <2> QED  BY <1>1, <2>1 DEF Tasks
<1>2. CASE task.st = "start" /\ task.attempt < StartAttempts
  <2>1. t = [task EXCEPT !.attempt = @ + 1, !.asked = FALSE]  BY <1>2 DEF Raised
  <2>2. task.attempt + 1 \in 1..StartAttempts  BY <1>2, NiFiConstants DEF Tasks
  <2> QED  BY <1>2, <2>1, <2>2 DEF Tasks
<1>3. CASE task.st # "health" /\ ~(task.st = "start" /\ task.attempt < StartAttempts) /\ task.try = TaskTries
  <2>1. t = [task EXCEPT !.st = "failed"]  BY <1>3 DEF Raised, NewTry
  <2> QED  BY <1>3, <2>1 DEF Tasks
<1>4. CASE task.st # "health" /\ ~(task.st = "start" /\ task.attempt < StartAttempts) /\ task.try # TaskTries
  <2>1. t = [st |-> "health", try |-> task.try + 1, attempt |-> 1, token |-> 0, asked |-> FALSE, started |-> FALSE]
    BY <1>4 DEF Raised, NewTry, Try
  <2>2. task.try + 1 \in 1..TaskTries /\ 1 \in 1..StartAttempts  BY <1>4, NiFiConstants DEF Tasks
  <2> QED  BY <1>4, <2>1, <2>2 DEF Tasks, Calls
<1> QED  BY <1>1, <1>2, <1>3, <1>4

(* The request was refused or lost: of a client that had been let in,      *)
(* either costs a fault.                                                   *)
LEMMA RaisedStep ==
  ASSUME NiFiInv, Refused \/ Lost
  PROVE  NiFiInv' /\ TriggeredMeansStarted'
<1>1. /\ nifi \in [up : BOOLEAN, secured : BOOLEAN, login : 1..(MaxNiFiFaults + 1), group : {"none", "stopped", "running"}]
      /\ task \in Tasks /\ task.st \in Calls /\ task' = Raised(task) /\ nifiFaults \in 0..MaxNiFiFaults
      /\ task.try \in Nat
  BY DEF NiFiInv, Refused, Lost, Busy, Tasks
<1>2. /\ nifiFaults' \in 0..MaxNiFiFaults /\ nifiFaults <= nifiFaults'
      /\ task.st # "health" => nifiFaults' >= task.try
  <2>1. CASE Refused
    <3>1. nifiFaults' = nifiFaults /\ ~Allowed  BY <2>1 DEF Refused
    <3> QED  BY <1>1, <3>1 DEF NiFiInv, TriesCostFaults
  <2>2. CASE Lost
    <3>1. nifiFaults' = nifiFaults + 1 /\ nifiFaults' \in 0..MaxNiFiFaults
      BY <1>1, <2>2, NiFiConstants DEF Lost, Fault
    <3> QED  BY <1>1, <3>1, NiFiConstants DEF NiFiInv, TriesCostFaults
  <2> QED  BY <2>1, <2>2
<1>3. PICK g \in {nifi.group, "running"} : nifi' = [nifi EXCEPT !.group = g]
  <2>1. CASE nifi' = nifi
    <3>1. nifi' = [nifi EXCEPT !.group = nifi.group]  BY <1>1, <2>1
    <3> QED  BY <3>1
  <2>2. CASE nifi' = [nifi EXCEPT !.group = "running"]  BY <2>2
  <2> QED  BY <2>1, <2>2 DEF Refused, Lost
<1>4. /\ nifi' \in [up : BOOLEAN, secured : BOOLEAN, login : 1..(MaxNiFiFaults + 1), group : {"none", "stopped", "running"}]
      /\ nifi'.up = nifi.up /\ nifi'.secured = nifi.secured /\ nifi'.login = nifi.login /\ nifi'.group = g
  BY <1>1, <1>3
<1>5. /\ task' \in Tasks /\ (task'.started => task.started) /\ task'.st # "status" /\ task'.st # "triggered"
      /\ task'.token \in {0, task.token}
      /\ \/ task'.st = "skipped" /\ task.st = "health" /\ task'.try = task.try
         \/ task'.st = "start" /\ task.st = "start" /\ task'.try = task.try /\ task'.token = task.token
         \/ task'.st = "failed" /\ task.st # "health" /\ task'.try = task.try /\ task.try = TaskTries
         \/ task'.st = "health" /\ task.st # "health" /\ task'.try = task.try + 1
  BY <1>1, RaisedMoves
<1>6. TriesCostFaults'
  <2>1. nifiFaults' >= task.try - 1  BY <1>1, <1>2 DEF NiFiInv, TriesCostFaults
  <2> QED  BY <1>1, <1>2, <1>5, <2>1 DEF TriesCostFaults, Calls
<1>7. task'.started => nifi'.group = "running"  BY <1>3, <1>4, <1>5 DEF NiFiInv
<1>8. task'.token <= nifi'.login /\ (task'.token # 0 => nifi'.secured)  BY <1>1, <1>4, <1>5 DEF NiFiInv
<1>9. nifi'.login <= nifiFaults' + 1  BY <1>1, <1>2, <1>4 DEF NiFiInv
<1>10. TriggeredMeansStarted'  BY <1>5 DEF TriggeredMeansStarted
<1> QED  BY <1>2, <1>4, <1>5, <1>6, <1>7, <1>8, <1>9, <1>10 DEF NiFiInv, Tasks

(* The initial states satisfy the invariants of the trigger.               *)
LEMMA InitNiFiInv == NiFiInit => NiFiInv /\ TriggerTruthful
<1> SUFFICES ASSUME NiFiInit PROVE NiFiInv /\ TriggerTruthful  OBVIOUS
<1>1. task = [st |-> "health", try |-> 1, attempt |-> 1, token |-> 0, asked |-> FALSE, started |-> FALSE]
      /\ nifi \in [up : BOOLEAN, secured : BOOLEAN, login : {1}, group : {"none", "stopped"}] /\ nifiFaults = 0
  BY DEF NiFiInit, Try
<1>2. 1 \in 1..TaskTries /\ 1 \in 1..StartAttempts /\ 1 \in 1..(MaxNiFiFaults + 1) /\ 0 \in 0..MaxNiFiFaults
  BY NiFiConstants
<1>3. task \in Tasks /\ task.st = "health" /\ task.try = 1 /\ task.token = 0 /\ task.started = FALSE
  BY <1>1, <1>2 DEF Tasks, Calls
<1>4. nifi \in [up : BOOLEAN, secured : BOOLEAN, login : 1..(MaxNiFiFaults + 1), group : {"none", "stopped", "running"}]
      /\ nifi.login = 1
  BY <1>1, <1>2
<1>5. TriesCostFaults  BY <1>1, <1>3 DEF TriesCostFaults
<1> QED
  BY <1>1, <1>2, <1>3, <1>4, <1>5 DEF NiFiInv, Tasks, TriggerTruthful, TriggeredMeansStarted, FailedCostsFaults

(* A task that reports a trigger did start the group in that try, and one  *)
(* that failed met a fault in each of its tries, whatever is refused, lost *)
(* or expired on the way (nifi_api.py:57-64, :107-114, :142-148).          *)
THEOREM TriggerIsTruthful == NiFiSpec => [](NiFiInv /\ TriggerTruthful)
<1>1. NiFiInit => NiFiInv /\ TriggeredMeansStarted  BY InitNiFiInv DEF TriggerTruthful
<1>2. NiFiInv /\ TriggeredMeansStarted /\ [NiFiNext]_nifiVars => NiFiInv' /\ TriggeredMeansStarted'
  <2> SUFFICES ASSUME NiFiInv, TriggeredMeansStarted, [NiFiNext]_nifiVars
               PROVE  NiFiInv' /\ TriggeredMeansStarted'
    OBVIOUS
  <2>1. CASE EnsureAuth
    <3>1. task.st \in Calls /\ task \in Tasks  BY <2>1 DEF EnsureAuth, Busy, NiFiInv, Tasks
    <3>2. task'.st = task.st  BY <2>1, <3>1 DEF EnsureAuth, Tasks
    <3>3. TriggeredMeansStarted'  BY <3>1, <3>2 DEF TriggeredMeansStarted, Calls
    <3> QED  BY <2>1, <3>3, EnsureAuthStep
  <2>2. CASE Answered  BY <2>2, AnsweredStep
  <2>3. CASE Refused \/ Lost  BY <2>3, RaisedStep
  <2>4. CASE NiFiDown \/ NiFiUp \/ TokenExpires
    <3>1. task' = task  BY <2>4 DEF NiFiDown, NiFiUp, TokenExpires
    <3> QED  BY <2>4, <3>1, NiFiMoves DEF TriggeredMeansStarted
  <2>5. CASE UNCHANGED nifiVars
    BY <2>5 DEF nifiVars, NiFiInv, TriggeredMeansStarted, TriesCostFaults, Allowed
  <2> QED  BY <2>1, <2>2, <2>3, <2>4, <2>5 DEF NiFiNext
<1>3. NiFiInv /\ TriggeredMeansStarted => TriggerTruthful
  BY DEF NiFiInv, TriesCostFaults, TriggerTruthful, FailedCostsFaults
<1> QED  BY <1>1, <1>2, <1>3, PTL DEF NiFiSpec

-----------------------------------------------------------------------------
(* The daily mart.                                                         *)

(* A set of numbers below a bound has a greatest one: what it falls short  *)
(* of the bound by has a least one.                                        *)
LEMMA GreatestExists ==
  ASSUME NEW n \in Nat, NEW S \in SUBSET (1..n), S # {}
  PROVE  \E d \in S : \A e \in S : e <= d
<1> DEFINE R == OpToRel(<, Nat)
           Gaps == {n - d : d \in S}
<1>1. IsWellFoundedOn(R, Nat)  BY NatLessThanWellFounded, Zenon
<1>2. Gaps \subseteq Nat /\ Gaps # {}
  <2>1. Gaps \subseteq Nat  OBVIOUS
  <2>2. PICK d \in S : TRUE  OBVIOUS
  <2>3. n - d \in Gaps  OBVIOUS
  <2> QED  BY <2>1, <2>3
<1>3. \A x, y \in Nat : x < y => <<x, y>> \in R  BY Zenon DEF OpToRel
<1> HIDE DEF R, Gaps
<1>4. PICK x \in Gaps : \A y \in Gaps : ~(<<y, x>> \in R)  BY <1>1, <1>2, WFMin
<1>5. PICK d \in S : x = n - d  BY <1>4 DEF Gaps
<1>6. ASSUME NEW e \in S PROVE e <= d
  <2>1. n - e \in Gaps  BY DEF Gaps
  <2>2. ~(n - e < x)  BY <2>1, <1>2, <1>3, <1>4
  <2> QED  BY <2>2, <1>5
<1> QED  BY <1>6

(* The newest day of a mart m.                                             *)
NewestDay(m) == CHOOSE d \in Days \cup {0} : /\ d = 0 \/ \E t \in Tickers : m[t, d] > 0
                                             /\ \A t \in Tickers, e \in Days : m[t, e] > 0 => e <= d

(* No row is of a later day, and a row is of that day, if there is any.    *)
LEMMA NewestDayIsNewest ==
  ASSUME NEW m \in [Cells -> Nat]
  PROVE  /\ NewestDay(m) \in Days \cup {0}
         /\ NewestDay(m) # 0 => \E c \in Cells : m[c] > 0 /\ c[2] = NewestDay(m)
         /\ \A c \in Cells : m[c] > 0 => c[2] <= NewestDay(m)
<1> DEFINE S == {d \in Days : \E t \in Tickers : m[t, d] > 0}
           IsNewest(d) == /\ d = 0 \/ \E t \in Tickers : m[t, d] > 0
                          /\ \A t \in Tickers, e \in Days : m[t, e] > 0 => e <= d
<1>1. \E d \in Days \cup {0} : IsNewest(d)
  <2>1. CASE S = {}
    <3>1. IsNewest(0)  BY <2>1
    <3> QED  BY <3>1
  <2>2. CASE S # {}
    <3>1. LastDay \in Nat /\ S \in SUBSET (1..LastDay)  BY MartConstants DEF Days
    <3>2. PICK d \in S : \A e \in S : e <= d  BY <2>2, <3>1, GreatestExists
    <3>3. IsNewest(d)  BY <3>2
    <3> QED  BY <3>2, <3>3
  <2> QED  BY <2>1, <2>2
<1>2. NewestDay(m) \in Days \cup {0} /\ IsNewest(NewestDay(m))  BY <1>1 DEF NewestDay
<1>3. ASSUME NEW c \in Cells, m[c] > 0 PROVE c[2] <= NewestDay(m)
  <2>1. c[1] \in Tickers /\ c[2] \in Days /\ c = <<c[1], c[2]>>  BY DEF Cells
  <2>2. m[c[1], c[2]] > 0  BY <1>3, <2>1
  <2> QED  BY <1>2, <2>1, <2>2
<1>4. ASSUME NewestDay(m) # 0 PROVE \E c \in Cells : m[c] > 0 /\ c[2] = NewestDay(m)
  <2>1. PICK t \in Tickers : m[t, NewestDay(m)] > 0  BY <1>2, <1>4
  <2>2. <<t, NewestDay(m)>> \in Cells  BY <1>2, <1>4 DEF Cells
  <2> QED  BY <2>1, <2>2
<1> QED  BY <1>2, <1>3, <1>4

(* What the newest day of the mart is.                                     *)
LEMMA MartFacts ==
  ASSUME MartInv
  PROVE  /\ MaxTradeDate = NewestDay(mart) /\ mart \in [Cells -> Nat]
         /\ MaxTradeDate \in Nat
         /\ MaxTradeDate # 0 => \E c \in Cells : mart[c] > 0 /\ c[2] = MaxTradeDate
         /\ \A c \in Cells : c[2] \in Nat /\ (mart[c] > 0 => c[2] <= MaxTradeDate)
<1>1. MaxTradeDate = NewestDay(mart)  BY DEF MaxTradeDate, NewestDay
<1>2. mart \in [Cells -> Nat]  BY DEF MartInv
<1>3. Days \subseteq Nat /\ \A c \in Cells : c[2] \in Days  BY MartConstants DEF Days, Cells
<1>4. /\ MaxTradeDate \in Days \cup {0}
      /\ MaxTradeDate # 0 => \E c \in Cells : mart[c] > 0 /\ c[2] = MaxTradeDate
      /\ \A c \in Cells : mart[c] > 0 => c[2] <= MaxTradeDate
  BY <1>1, <1>2, NewestDayIsNewest, Zenon
<1>5. MaxTradeDate \in Nat
  <2>1. Days \cup {0} \subseteq Nat  BY <1>3
  <2> QED  BY <1>4, <2>1, Zenon
<1>6. \A c \in Cells : c[2] \in Nat  BY <1>3
<1> QED  BY <1>1, <1>2, <1>4, <1>5, <1>6, Zenon

(* One more row for each cell of C, none of them of a day to come.         *)
LEMMA GrowsStep ==
  ASSUME MartInv, OnlyLateRowsMissing, NEW C, Grows(C), \A c \in C : c[2] <= today,
         copies' \in BOOLEAN, copies => copies'
  PROVE  MartInv' /\ OnlyLateRowsMissing'
<1> DEFINE T == MaxTradeDate
           up(c) == IF c \in C THEN 1 ELSE 0
           upLate(c) == IF c \in C /\ c[2] <= T THEN 1 ELSE 0
<1>1. UNCHANGED <<today, mart, run, due, failures>>  BY DEF Grows
<1>2. MaxTradeDate' = T  BY <1>1 DEF MaxTradeDate
<1>3. T \in Nat /\ today \in Nat /\ \A c \in Cells : c[2] \in Nat
  BY MartFacts, MartConstants DEF MartInv, Days
<1>4. silver \in [Cells -> Nat] /\ mart \in [Cells -> Nat] /\ late \in [Cells -> Nat]  BY DEF MartInv
<1>5. silver' = [c \in Cells |-> silver[c] + up(c)] /\ late' = [c \in Cells |-> late[c] + upLate(c)]
  BY DEF Grows
<1> HIDE DEF T
<1>6. ASSUME NEW c \in Cells
      PROVE  /\ silver'[c] \in Nat /\ silver'[c] >= silver[c] /\ late'[c] \in Nat
             /\ c[2] > today => silver'[c] = silver[c]
             /\ c[2] > T => late'[c] = late[c]
             /\ c[2] <= T => silver'[c] - silver[c] = late'[c] - late[c]
  <2>1. silver'[c] = silver[c] + up(c) /\ late'[c] = late[c] + upLate(c)  BY <1>5
  <2>2. silver[c] \in Nat /\ late[c] \in Nat  BY <1>4
  <2>3. CASE c \in C
    <3>1. c[2] <= today  BY <2>3
    <3> QED  BY <1>3, <2>1, <2>2, <2>3, <3>1
  <2>4. CASE c \notin C  BY <1>3, <2>1, <2>2, <2>4
  <2> QED  BY <2>3, <2>4
<1>7. silver' \in [Cells -> Nat] /\ late' \in [Cells -> Nat]
  <2> HIDE DEF up, upLate
  <2> QED  BY <1>5, <1>6
<1> HIDE DEF up, upLate
<1>8. OnlyLateRowsMissing'
  <2> SUFFICES ASSUME NEW c \in Cells
               PROVE  IF c[2] <= T THEN mart[c] + late'[c] = silver'[c] ELSE mart[c] = 0
    BY <1>1, <1>2 DEF OnlyLateRowsMissing
  <2>1. IF c[2] <= T THEN mart[c] + late[c] = silver[c] ELSE mart[c] = 0  BY DEF OnlyLateRowsMissing, T
  <2>2. mart[c] \in Nat /\ late[c] \in Nat /\ silver[c] \in Nat  BY <1>4
  <2> QED  BY <1>3, <1>6, <2>1, <2>2
<1>9. run'.task = "dbt_run" => \E c \in Cells : silver'[c] > 0
  <2> SUFFICES ASSUME run.task = "dbt_run" PROVE \E c \in Cells : silver'[c] > 0  BY <1>1
  <2>1. PICK c \in Cells : silver[c] > 0  BY DEF MartInv
  <2>2. silver[c] \in Nat  BY <1>4
  <2> QED  BY <1>6, <2>1, <2>2
<1>10. \A c \in Cells : (c[2] > today' => silver'[c] = 0 /\ mart'[c] = 0) /\ (c[2] > MaxTradeDate' => late'[c] = 0)
  BY <1>1, <1>2, <1>6 DEF MartInv, T
<1>11. run'.copies => copies'  BY <1>1 DEF MartInv
<1>12. run'.task \in {"dbt_test", "load_to_druid"} => MaxTradeDate' > 0  BY <1>1, <1>2 DEF MartInv, T
<1> QED  BY <1>1, <1>4, <1>7, <1>8, <1>9, <1>10, <1>11, <1>12 DEF MartInv

(* dbt run takes the days after the newest one of the mart.                *)
LEMMA DbtRunStep ==
  ASSUME MartInv, OnlyLateRowsMissing, DbtRun
  PROVE  MartInv' /\ OnlyLateRowsMissing'
<1> DEFINE T == MaxTradeDate
<1>1. UNCHANGED <<today, silver, copies, due, failures, late>> /\ run.task = "dbt_run"
      /\ run' = [run EXCEPT !.task = "dbt_test"]
  BY DEF DbtRun
<1>2. T \in Nat /\ today \in Nat /\ \A c \in Cells : c[2] \in Nat
  BY MartFacts, MartConstants DEF MartInv, Days
<1>3. silver \in [Cells -> Nat] /\ mart \in [Cells -> Nat] /\ late \in [Cells -> Nat]  BY DEF MartInv
<1>4. mart' = [c \in Cells |-> IF c[2] > T THEN silver[c] ELSE mart[c]]  BY DEF DbtRun, Selected
<1>5. \A c \in Cells : mart'[c] = IF c[2] > T THEN silver[c] ELSE mart[c]  BY <1>4
<1>6. mart' \in [Cells -> Nat]  BY <1>3, <1>4
<1>7. MaxTradeDate' = NewestDay(mart')  BY DEF MaxTradeDate, NewestDay
<1>8. /\ MaxTradeDate' \in Nat
      /\ \A c \in Cells : mart'[c] > 0 => c[2] <= MaxTradeDate'
  BY <1>6, <1>7, NewestDayIsNewest, MartConstants DEF Days
<1>9. MaxTradeDate' >= T
  <2>1. CASE T = 0  BY <1>8, <2>1
  <2>2. CASE T # 0
    <3>1. PICK c \in Cells : mart[c] > 0 /\ c[2] = T  BY <2>2, MartFacts
    <3>2. mart'[c] = mart[c]  BY <1>2, <1>5, <3>1
    <3> QED  BY <1>8, <3>1, <3>2
  <2> QED  BY <2>1, <2>2
<1>10. MaxTradeDate' > 0
  <2>1. PICK c \in Cells : silver[c] > 0  BY <1>1 DEF MartInv
  <2>2. c[2] \in Nat \ {0}  BY MartConstants DEF Cells, Days
  <2>3. CASE c[2] > T  BY <1>5, <1>8, <2>1, <2>2, <2>3
  <2>4. CASE c[2] <= T  BY <1>2, <1>8, <1>9, <2>2, <2>4
  <2> QED  BY <1>2, <2>2, <2>3, <2>4
<1>11. \A c \in Cells : c[2] > T => late[c] = 0  BY DEF MartInv
<1>12. OnlyLateRowsMissing'
  <2> SUFFICES ASSUME NEW c \in Cells
               PROVE  IF c[2] <= MaxTradeDate' THEN mart'[c] + late[c] = silver[c] ELSE mart'[c] = 0
    BY <1>1 DEF OnlyLateRowsMissing
  <2>1. IF c[2] <= T THEN mart[c] + late[c] = silver[c] ELSE mart[c] = 0  BY DEF OnlyLateRowsMissing
  <2>2. mart[c] \in Nat /\ late[c] \in Nat /\ silver[c] \in Nat /\ mart'[c] \in Nat /\ c[2] \in Nat
    BY <1>2, <1>3, <1>6
  <2>3. CASE c[2] <= T  BY <1>2, <1>5, <1>8, <1>9, <2>1, <2>2, <2>3
  <2>4. CASE c[2] > T  BY <1>5, <1>8, <1>11, <2>2, <2>4
  <2> QED  BY <1>2, <2>2, <2>3, <2>4
<1>13. \A c \in Cells : c[2] > MaxTradeDate' => late[c] = 0  BY <1>2, <1>8, <1>9, <1>11
<1>14. \A c \in Cells : c[2] > today => silver[c] = 0 /\ mart'[c] = 0  BY <1>5 DEF MartInv
<1>15. /\ run \in [task : {"none", "dbt_run", "dbt_test", "load_to_druid"}, copies : BOOLEAN]
       /\ run.copies => copies
  BY DEF MartInv
<1>16. /\ run' \in [task : {"none", "dbt_run", "dbt_test", "load_to_druid"}, copies : BOOLEAN]
       /\ run'.task = "dbt_test" /\ (run'.copies => copies)
  BY <1>1, <1>15
<1> QED  BY <1>1, <1>3, <1>6, <1>10, <1>12, <1>13, <1>14, <1>16 DEF MartInv

(* The other steps move the run and the clock, and no row.                 *)
LEMMA ClockAndRunStep ==
  ASSUME MartInv, OnlyLateRowsMissing, UNCHANGED <<silver, copies, mart, late>>,
         today' = today \/ (today < LastDay /\ today' = today + 1),
         due' \in BOOLEAN, failures' \in 0..MaxFailures,
         run' \in [task : {"none", "dbt_run", "dbt_test", "load_to_druid"}, copies : BOOLEAN],
         run'.copies => copies,
         run'.task = "dbt_run" => \E c \in Cells : silver[c] > 0,
         run'.task \in {"dbt_test", "load_to_druid"} => MaxTradeDate > 0
  PROVE  MartInv' /\ OnlyLateRowsMissing'
<1>1. MaxTradeDate' = MaxTradeDate  BY DEF MaxTradeDate
<1>2. OnlyLateRowsMissing'  BY <1>1 DEF OnlyLateRowsMissing
<1>3. today' \in Days /\ today' >= today  BY MartConstants DEF MartInv, Days
<1>4. \A c \in Cells : c[2] \in Nat  BY MartConstants DEF Cells, Days
<1>5. \A c \in Cells : c[2] > today' => silver[c] = 0 /\ mart[c] = 0
  BY <1>3, <1>4, MartConstants DEF MartInv, Days
<1>6. \A c \in Cells : c[2] > MaxTradeDate => late[c] = 0  BY DEF MartInv
<1> QED  BY <1>1, <1>2, <1>3, <1>5, <1>6 DEF MartInv

(* The run moves on to task l, or ends.                                    *)
LEMMA RunMoves ==
  ASSUME run \in [task : {"none", "dbt_run", "dbt_test", "load_to_druid"}, copies : BOOLEAN]
  PROVE  /\ NoRun \in [task : {"none", "dbt_run", "dbt_test", "load_to_druid"}, copies : BOOLEAN]
         /\ NoRun.task = "none" /\ ~NoRun.copies
         /\ [run EXCEPT !.task = "load_to_druid"]
              = [task |-> "load_to_druid", copies |-> run.copies]
BY DEF NoRun

MartSafe == MartInv /\ OnlyLateRowsMissing /\ CopiesStopTheDag

(* Every step keeps the invariants of the mart.                            *)
LEMMA MartStep == MartSafe /\ [MartNext]_martVars => MartSafe'
<1> SUFFICES ASSUME MartInv, OnlyLateRowsMissing, CopiesStopTheDag, [MartNext]_martVars
             PROVE  MartInv' /\ OnlyLateRowsMissing' /\ CopiesStopTheDag'
  BY DEF MartSafe
<1> USE DEF CopiesStopTheDag
<1>1. /\ run \in [task : {"none", "dbt_run", "dbt_test", "load_to_druid"}, copies : BOOLEAN]
      /\ copies \in BOOLEAN /\ due \in BOOLEAN /\ failures \in 0..MaxFailures /\ (run.copies => copies)
  BY DEF MartInv
<1>2. ASSUME NEW t \in Tickers, NEW d \in Days, Arrive(t, d) PROVE MartInv' /\ OnlyLateRowsMissing' /\ CopiesStopTheDag'
  <2>1. \A c \in {<<t, d>>} : c[2] <= today  BY <1>2 DEF Arrive
  <2>2. Grows({<<t, d>>}) /\ copies' = copies /\ run' = run  BY <1>2 DEF Arrive, Grows
  <2> QED  BY <1>1, <2>1, <2>2, GrowsStep
<1>3. ASSUME NEW t \in Tickers, NEW d \in Days, Reappend(t, d) PROVE MartInv' /\ OnlyLateRowsMissing' /\ CopiesStopTheDag'
  <2>1. <<t, d>> \in Cells /\ silver[<<t, d>>] > 0  BY <1>3 DEF Reappend, Cells
  <2>2. ~(d > today)  BY <2>1 DEF MartInv
  <2>3. d \in Nat /\ today \in Nat  BY MartConstants DEF Days, MartInv
  <2>4. \A c \in {<<t, d>>} : c[2] <= today  BY <2>2, <2>3
  <2>5. Grows({<<t, d>>}) /\ copies' = TRUE /\ run' = run  BY <1>3 DEF Reappend, Grows
  <2> QED  BY <1>1, <2>4, <2>5, GrowsStep
<1>4. CASE Midnight
  <2>1. UNCHANGED <<silver, copies, mart, late, run, failures>> /\ due' = TRUE
        /\ today < LastDay /\ today' = today + 1
    BY <1>4 DEF Midnight
  <2> QED  BY <1>1, <2>1, ClockAndRunStep DEF MartInv
<1>5. CASE StartRun
  <2>1. UNCHANGED <<today, silver, copies, mart, failures, late>> /\ due' = FALSE  BY <1>5 DEF StartRun
  <2>2. CASE \E c \in Cells : silver[c] > 0
    <3>1. run' = [task |-> "dbt_run", copies |-> copies]  BY <1>5, <2>2 DEF StartRun
    <3> QED  BY <1>1, <2>1, <2>2, <3>1, ClockAndRunStep
  <2>3. CASE ~(\E c \in Cells : silver[c] > 0)
    <3>1. run' = NoRun  BY <1>5, <2>3 DEF StartRun
    <3> QED  BY <1>1, <2>1, <3>1, ClockAndRunStep, RunMoves
  <2> QED  BY <2>2, <2>3
<1>6. CASE DbtRun
  <2>1. run' = [run EXCEPT !.task = "dbt_test"]  BY <1>6 DEF DbtRun
  <2>2. run'.task = "dbt_test"  BY <1>1, <2>1
  <2> QED  BY <1>6, <2>2, DbtRunStep
<1>7. CASE DbtTest
  <2>1. UNCHANGED <<today, silver, copies, mart, due, failures, late>> /\ run.task = "dbt_test"  BY <1>7 DEF DbtTest
  <2>2. CASE copies
    <3>1. run' = NoRun  BY <1>7, <2>2 DEF DbtTest
    <3> QED  BY <1>1, <2>1, <3>1, ClockAndRunStep, RunMoves
  <2>3. CASE ~copies
    <3>1. run' = [task |-> "load_to_druid", copies |-> run.copies]  BY <1>1, <1>7, <2>3, RunMoves DEF DbtTest
    <3>2. MaxTradeDate > 0  BY <2>1 DEF MartInv
    <3> QED  BY <1>1, <2>1, <2>3, <3>1, <3>2, ClockAndRunStep
  <2> QED  BY <2>2, <2>3
<1>8. CASE EndRun
  <2>1. UNCHANGED <<today, silver, copies, mart, due, failures, late>> /\ run' = NoRun  BY <1>8 DEF EndRun
  <2> QED  BY <1>1, <2>1, ClockAndRunStep, RunMoves
<1>9. CASE RunFails
  <2>1. UNCHANGED <<today, silver, copies, mart, due, late>> /\ run' = NoRun /\ failures' \in 0..MaxFailures
    BY <1>1, <1>9, MartConstants DEF RunFails
  <2> QED  BY <1>1, <2>1, ClockAndRunStep, RunMoves
<1>10. CASE UNCHANGED martVars
  <2>1. UNCHANGED <<today, silver, copies, mart, run, due, failures, late>>  BY <1>10 DEF martVars
  <2> QED  BY <2>1 DEF MartInv, OnlyLateRowsMissing, MaxTradeDate
<1> QED  BY <1>2, <1>3, <1>4, <1>5, <1>6, <1>7, <1>8, <1>9, <1>10 DEF MartNext

(* The initial states satisfy the invariants of the mart.                  *)
LEMMA InitMartSafe == MartInit => MartSafe
<1> SUFFICES ASSUME MartInit PROVE MartSafe  OBVIOUS
<1>1. \A c \in Cells : silver[c] = 0 /\ mart[c] = 0 /\ late[c] = 0  BY DEF MartInit
<1>2. 1 \in Days /\ 0 \in 0..MaxFailures  BY MartConstants DEF Days
<1>3. silver \in [Cells -> Nat] /\ mart \in [Cells -> Nat] /\ late \in [Cells -> Nat]  BY DEF MartInit
<1>4. run \in [task : {"none", "dbt_run", "dbt_test", "load_to_druid"}, copies : BOOLEAN]
      /\ run.task = "none" /\ ~run.copies
  BY DEF MartInit, NoRun
<1>5. MartInv  BY <1>1, <1>2, <1>3, <1>4 DEF MartInit, MartInv
<1>6. OnlyLateRowsMissing  BY <1>1 DEF OnlyLateRowsMissing
<1> QED  BY <1>4, <1>5, <1>6 DEF MartSafe, CopiesStopTheDag

(* Runs that found a row leave a mart, no row is of a day to come, and     *)
(* none counts as late that a run can still take (daily_ohlcv.sql:14-20).  *)
THEOREM MartInvariant == MartSpec => []MartInv
<1>1. MartSafe => MartInv  BY DEF MartSafe
<1> QED  BY <1>1, InitMartSafe, MartStep, PTL DEF MartSpec

(* For any number of tickers, days and rows, through failed runs: the mart *)
(* lacks exactly the rows that came after the run that took their day      *)
(* (daily_ohlcv.sql:14-20).                                                *)
THEOREM OnlyLateRowsAreMissing == MartSpec => []OnlyLateRowsMissing
<1>1. MartSafe => OnlyLateRowsMissing  BY DEF MartSafe
<1> QED  BY <1>1, InitMartSafe, MartStep, PTL DEF MartSpec

(* A run that starts on a Silver with copies loads nothing into Druid      *)
(* (schema.yml:13, dag_transform_daily.py:164).                            *)
THEOREM CopiesStopEveryRun == MartSpec => []CopiesStopTheDag
<1>1. MartSafe => CopiesStopTheDag  BY DEF MartSafe
<1> QED  BY <1>1, InitMartSafe, MartStep, PTL DEF MartSpec

-----------------------------------------------------------------------------
(* The components run side by side, each in behaviours of its own.         *)

(* A step of the whole is a step of each component or leaves it alone.     *)
LEMMA OnePartMoves ==
  [Next]_vars => /\ [BootNext]_bootVars /\ [AtlasNext]_atlasVars /\ [NiFiNext]_nifiVars
                 /\ [PriceNext]_priceVars /\ [PrivacyNext]_privacyVars
                 /\ [GoldNext]_input
  BY Zenon DEF Next, vars, Kafka, Atlas, NiFi, PriceOf, Records, Tables

(* What is proved of a component by itself, here and in the proofs of the  *)
(* producer, of the GDPR manager and of the lake, holds of it among the    *)
(* others: none of them writes what another reads.                         *)
THEOREM PartsRunAlone ==
  Spec => /\ BootSpec /\ AtlasSpec /\ NiFiSpec /\ PriceSpec /\ PrivacySpec /\ GoldSpec
<1>1. Init => /\ BootInit /\ AtlasInit /\ NiFiInit /\ PriceInit /\ PrivacyInit /\ GoldInit
  BY DEF Init
<1>. QED
  BY <1>1, OnePartMoves, PTL
  DEF Spec, BootSpec, AtlasSpec, NiFiSpec, PriceSpec, PrivacySpec, GoldSpec

(* The components with a control flow keep their records together, side by *)
(* side as well (admin.py, generation/main.py, atlas_client.py,            *)
(* nifi_api.py).                                                           *)
THEOREM ControlIsInvariant == Spec => []ControlInv
<1>1. BootInv /\ AtlasInv /\ NiFiInv <=> ControlInv
  BY DEF ControlInv
<1>. QED
  BY <1>1, PartsRunAlone, TopicsAreInitialized, CatalogIsComplete, TriggerIsTruthful, PTL

===============================================================================
