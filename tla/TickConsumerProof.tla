------------------------- MODULE TickConsumerProof -------------------------
(***************************************************************************)
(* Proofs about TickConsumer, for any consumers, partitions, commit        *)
(* interval and bounds.                                                    *)
(***************************************************************************)
EXTENDS TickConsumer, FiniteSetTheorems, TLAPS

\* A prefix that is one longer has one more element.
LEMMA OneMore ==
  ASSUME NEW n \in Nat, NEW o \in 0 .. (n + 1) - 1
  PROVE  o \in 0 .. n - 1 \/ o = n
  OBVIOUS

\* No message is the empty tuple.
LEMMA NoMessageIsNone == NoMessage \notin Messages
  BY DEF NoMessage, Messages

\* What the handler has in hand is a message of the log.
LEMMA HandledIsMessage ==
  ASSUME InHand, NEW c \in Consumers, pc[c] = "handle"
  PROVE  current[c] \in Messages
<1>1. PICK p \in Partitions : \E o \in 0 .. logEnd[p] - 1 : current[c] = <<p, o>>
  BY DEF InHand
<1>2. PICK o \in Nat : current[c] = <<p, o>>
  BY <1>1
<1>. QED  BY <1>1, <1>2 DEF Messages

\* processed_count % commit_every.
LEMMA CountInRange ==
  ASSUME NEW n \in Nat
  PROVE  (n + 1) % CommitEvery \in 0 .. CommitEvery - 1
  BY CommitEveryAssumption

\* The initial states satisfy the invariant.
LEMMA InitIInv == Init => IInv
<1>. SUFFICES ASSUME Init PROVE IInv
  OBVIOUS
<1>1. TypeOK
  BY CommitEveryAssumption DEF Init, TypeOK, Control, NoMessage
<1>2. OneOwner /\ MembersAhead /\ WithinLog /\ InHand
  BY DEF Init, OneOwner, MembersAhead, WithinLog, InHand
<1>3. PolledIsAttempted /\ CommittedIsAttempted
  BY DEF Init, PolledIsAttempted, CommittedIsAttempted
<1>. QED  BY <1>1, <1>2, <1>3 DEF IInv

\* Every step keeps the types (InHand, because handlers record what they hold).
LEMMA TypeStep == TypeOK /\ InHand /\ [Next]_vars => TypeOK'
<1>. SUFFICES ASSUME TypeOK, InHand, [Next]_vars PROVE TypeOK'
  OBVIOUS
<1>. USE CommitEveryAssumption DEF TypeOK, broker, loop, effect
<1>1. ASSUME NEW p \in Partitions, Publish(p) PROVE TypeOK'
  BY <1>1 DEF Publish
<1>2. ASSUME NEW M \in SUBSET Running, NEW owner \in [Partitions -> M], Rebalance(M, owner)
      PROVE  TypeOK'
  BY <1>2 DEF Rebalance, Running
<1>3. ASSUME NEW c \in Consumers, Expire(c) PROVE TypeOK'
  BY <1>3 DEF Expire
<1>4. ASSUME NEW c \in Consumers, Start(c) PROVE TypeOK'
  BY <1>4 DEF Start, Control
<1>5. ASSUME NEW c \in Consumers, StartFails(c) PROVE TypeOK'
  BY <1>5 DEF StartFails
<1>6. ASSUME NEW c \in Consumers, Crash(c) PROVE TypeOK'
  BY <1>6 DEF Crash, Forget, Control
<1>7. ASSUME NEW c \in Consumers, Stop(c) PROVE TypeOK'
  BY <1>7 DEF Stop
<1>8. ASSUME NEW c \in Consumers, NEW p \in Partitions, Poll(c, p) PROVE TypeOK'
  BY <1>8 DEF Poll, Control, Messages
<1>9. ASSUME NEW c \in Consumers, HandlerSucceeds(c) PROVE TypeOK'
  <2>1. current[c] \in Messages
    BY <1>9, HandledIsMessage DEF HandlerSucceeds
  <2>2. (count[c] + 1) % CommitEvery \in 0 .. CommitEvery - 1
    BY CountInRange
  <2>. QED  BY <1>9, <2>1, <2>2 DEF HandlerSucceeds, Processed, Control
<1>10. ASSUME NEW c \in Consumers, HandlerFails(c) PROVE TypeOK'
  <2>1. current[c] \in Messages
    BY <1>10, HandledIsMessage DEF HandlerFails
  <2>2. (count[c] + 1) % CommitEvery \in 0 .. CommitEvery - 1
    BY CountInRange
  <2>3. CASE HandlerSwallows
    BY <1>10, <2>1, <2>2, <2>3 DEF HandlerFails, Processed, Control
  <2>4. CASE ~HandlerSwallows
    BY <1>10, <2>1, <2>4 DEF HandlerFails, Control
  <2>. QED  BY <2>3, <2>4
<1>11. ASSUME NEW c \in Consumers, Commit(c) PROVE TypeOK'
  BY <1>11 DEF Commit, CommitAccepted, CommitRejected, Control
<1>12. ASSUME NEW c \in Consumers, LeaveLoop(c) PROVE TypeOK'
  BY <1>12 DEF LeaveLoop, Control
<1>13. ASSUME NEW c \in Consumers, Close(c) PROVE TypeOK'
  BY <1>13 DEF Close, Forget, CommitAccepted, CommitRejected, Control
<1>14. CASE UNCHANGED vars
  BY <1>14 DEF vars
<1>. QED
  BY <1>1, <1>2, <1>3, <1>4, <1>5, <1>6, <1>7, <1>8, <1>9, <1>10, <1>11, <1>12,
     <1>13, <1>14 DEF Next, AnyRebalance, LoopStep

-----------------------------------------------------------------------------
(* What the handlers and the commits do to the history of attempts and to  *)
(* the group's offsets; each invariant below uses only this much of them.  *)

\* No step forgets an attempt.
LEMMA AttemptsGrow == [Next]_vars => Attempted \subseteq Attempted'
<1>. SUFFICES ASSUME [Next]_vars PROVE Attempted \subseteq Attempted'
  OBVIOUS
<1>. USE DEF Attempted, effect
<1>1. ASSUME NEW c \in Consumers, LoopStep(c) PROVE Attempted \subseteq Attempted'
  BY <1>1 DEF LoopStep, Poll, HandlerSucceeds, HandlerFails, Commit, LeaveLoop, Close
<1>2. ASSUME NEW c \in Consumers,
             Expire(c) \/ Start(c) \/ StartFails(c) \/ Crash(c) \/ Stop(c)
      PROVE  Attempted \subseteq Attempted'
  BY <1>2 DEF Expire, Start, StartFails, Crash, Stop
<1>3. ASSUME NEW p \in Partitions, Publish(p) PROVE Attempted \subseteq Attempted'
  BY <1>3 DEF Publish
<1>4. CASE AnyRebalance
  BY <1>4 DEF AnyRebalance, Rebalance
<1>5. CASE UNCHANGED vars
  BY <1>5 DEF vars
<1>. QED  BY <1>1, <1>2, <1>3, <1>4, <1>5 DEF Next

\* A handler that ends, well or badly, has attempted the message in hand.
LEMMA HandlerAttempts ==
  ASSUME NEW c \in Consumers, HandlerSucceeds(c) \/ HandlerFails(c)
  PROVE  current[c] \in Attempted'
  BY DEF HandlerSucceeds, HandlerFails, Attempted

\* An offset moves only when a member commits its own position.
LEMMA CommittedStep ==
  ASSUME TypeOK, [Next]_vars, NEW p \in Partitions
  PROVE  \/ committed'[p] = committed[p]
         \/ \E c \in members : /\ pc[c] \in {"commit", "final"}
                               /\ p \in assigned[c]
                               /\ committed'[p] = position[c][p]
<1>. DEFINE Moved == \/ committed'[p] = committed[p]
                     \/ \E c \in members : /\ pc[c] \in {"commit", "final"}
                                           /\ p \in assigned[c]
                                           /\ committed'[p] = position[c][p]
<1>. USE DEF broker
<1>1. ASSUME NEW c \in Consumers, Commit(c) \/ Close(c) PROVE Moved
  BY <1>1 DEF Commit, Close, CommitAccepted, CommitRejected, TypeOK
<1>2. ASSUME NEW c \in Consumers, LoopStep(c), ~Commit(c), ~Close(c) PROVE Moved
  BY <1>2 DEF LoopStep, Poll, HandlerSucceeds, HandlerFails, LeaveLoop
<1>3. ASSUME NEW c \in Consumers,
             Expire(c) \/ Start(c) \/ StartFails(c) \/ Crash(c) \/ Stop(c)
      PROVE  Moved
  BY <1>3 DEF Expire, Start, StartFails, Crash, Stop
<1>4. ASSUME NEW q \in Partitions, Publish(q) PROVE Moved
  BY <1>4 DEF Publish
<1>5. CASE AnyRebalance
  BY <1>5 DEF AnyRebalance, Rebalance
<1>6. CASE UNCHANGED vars
  BY <1>6 DEF vars
<1>. QED  BY <1>1, <1>2, <1>3, <1>4, <1>5, <1>6 DEF Next

-----------------------------------------------------------------------------
(* The parts of the invariant.                                             *)

\* A committed prefix stays attempted: a commit takes the position of a member
\* with nothing in hand.
LEMMA CommittedIsAttemptedStep == IInv /\ [Next]_vars => CommittedIsAttempted'
<1>. SUFFICES ASSUME IInv, [Next]_vars,
                     NEW p \in Partitions, NEW o \in 0 .. committed'[p] - 1
              PROVE  <<p, o>> \in Attempted'
  BY DEF CommittedIsAttempted
<1>. USE DEF IInv
<1>1. Attempted \subseteq Attempted'
  BY AttemptsGrow
<1>2. CASE committed'[p] = committed[p]
  BY <1>1, <1>2 DEF CommittedIsAttempted
<1>3. ASSUME NEW c \in members, pc[c] \in {"commit", "final"}, p \in assigned[c],
             committed'[p] = position[c][p]
      PROVE  <<p, o>> \in Attempted'
  <2>1. c \in Consumers /\ current[c] = NoMessage
    BY <1>3 DEF TypeOK, InHand
  <2>2. <<p, o>> \in Attempted \/ current[c] = <<p, o>>
    BY <1>3, <2>1 DEF PolledIsAttempted
  <2>3. <<p, o>> # NoMessage
    BY DEF NoMessage
  <2>. QED  BY <1>1, <2>1, <2>2, <2>3
<1>. QED  BY <1>2, <1>3, CommittedStep

\* The two conditions on ownership.
LEMMA OneOwnerStep == IInv /\ [Next]_vars => OneOwner'
<1>. SUFFICES ASSUME IInv, [Next]_vars PROVE OneOwner'
  OBVIOUS
<1>. USE DEF IInv, OneOwner, TypeOK
<1>1. ASSUME NEW c \in Consumers, LoopStep(c), ~Close(c) PROVE OneOwner'
  BY <1>1 DEF LoopStep, Poll, HandlerSucceeds, HandlerFails, Commit, LeaveLoop, broker
<1>2. ASSUME NEW c \in Consumers, Close(c) \/ Crash(c) PROVE OneOwner'
  BY <1>2 DEF Close, Crash, Forget
<1>3. ASSUME NEW c \in Consumers, Expire(c) \/ Start(c) \/ StartFails(c) \/ Stop(c)
      PROVE  OneOwner'
  BY <1>3 DEF Expire, Start, StartFails, Stop, broker, loop
<1>4. ASSUME NEW q \in Partitions, Publish(q) PROVE OneOwner'
  BY <1>4 DEF Publish, loop
<1>5. ASSUME NEW M \in SUBSET Running, NEW owner \in [Partitions -> M], Rebalance(M, owner)
      PROVE  OneOwner'
  BY <1>5 DEF Rebalance, Running
<1>6. CASE UNCHANGED vars
  BY <1>6 DEF vars, broker, loop
<1>. QED  BY <1>1, <1>2, <1>3, <1>4, <1>5, <1>6 DEF Next, AnyRebalance

\* A commit by one member cannot overtake another: they share no partition.
LEMMA MembersAheadStep == IInv /\ [Next]_vars => MembersAhead'
<1>. SUFFICES ASSUME IInv, [Next]_vars PROVE MembersAhead'
  OBVIOUS
<1>. USE DEF IInv, MembersAhead, TypeOK
<1>1. ASSUME NEW c \in Consumers, Commit(c) PROVE MembersAhead'
  BY <1>1 DEF Commit, CommitAccepted, CommitRejected, OneOwner
<1>2. ASSUME NEW c \in Consumers, Close(c) PROVE MembersAhead'
  BY <1>2 DEF Close, Forget, CommitAccepted, CommitRejected, OneOwner
<1>3. ASSUME NEW c \in Consumers, NEW p \in Partitions, Poll(c, p) PROVE MembersAhead'
  BY <1>3 DEF Poll, broker
<1>4. ASSUME NEW c \in Consumers, HandlerSucceeds(c) \/ HandlerFails(c) \/ LeaveLoop(c)
      PROVE  MembersAhead'
  BY <1>4 DEF HandlerSucceeds, HandlerFails, LeaveLoop, broker
<1>5. ASSUME NEW c \in Consumers,
             Expire(c) \/ Start(c) \/ StartFails(c) \/ Stop(c)
      PROVE  MembersAhead'
  BY <1>5 DEF Expire, Start, StartFails, Stop, broker, loop
<1>6. ASSUME NEW c \in Consumers, Crash(c) PROVE MembersAhead'
  BY <1>6 DEF Crash, Forget
<1>7. ASSUME NEW q \in Partitions, Publish(q) PROVE MembersAhead'
  BY <1>7 DEF Publish, loop
<1>8. ASSUME NEW M \in SUBSET Running, NEW owner \in [Partitions -> M], Rebalance(M, owner)
      PROVE  MembersAhead'
  BY <1>8 DEF Rebalance, Running
<1>9. CASE UNCHANGED vars
  BY <1>9 DEF vars, broker, loop
<1>. QED  BY <1>1, <1>2, <1>3, <1>4, <1>5, <1>6, <1>7, <1>8, <1>9
             DEF Next, AnyRebalance, LoopStep

\* Polling puts the one message it moves past into the handler's hands, and the
\* handler attempts it; a member that rejoins is back at the committed offsets.
LEMMA PolledIsAttemptedStep == IInv /\ [Next]_vars => PolledIsAttempted'
<1>. SUFFICES ASSUME IInv, [Next]_vars,
                     NEW c \in Consumers, NEW p \in assigned'[c],
                     NEW o \in 0 .. position'[c][p] - 1
              PROVE  <<p, o>> \in Attempted' \/ current'[c] = <<p, o>>
  BY DEF PolledIsAttempted
<1>. USE DEF IInv, TypeOK
<1>1. Attempted \subseteq Attempted'
  BY AttemptsGrow
<1>2. ASSUME p \in assigned[c], position'[c][p] = position[c][p], current'[c] = current[c]
      PROVE  <<p, o>> \in Attempted' \/ current'[c] = <<p, o>>
  BY <1>1, <1>2 DEF PolledIsAttempted
<1>3. ASSUME NEW d \in Consumers, NEW q \in Partitions, Poll(d, q)
      PROVE  <<p, o>> \in Attempted' \/ current'[c] = <<p, o>>
  <2>1. CASE d # c \/ q # p
    <3>1. p \in assigned[c] /\ position'[c][p] = position[c][p]
      BY <1>3, <2>1 DEF Poll
    <3>2. current[c] = current'[c] \/ current[c] = NoMessage
      BY <1>3 DEF Poll, InHand
    <3>3. <<p, o>> # NoMessage
      BY DEF NoMessage
    <3>. QED  BY <1>1, <3>1, <3>2, <3>3 DEF PolledIsAttempted
  <2>2. CASE d = c /\ q = p
    <3>1. /\ current[c] = NoMessage
          /\ current'[c] = <<p, position[c][p]>>
          /\ position'[c][p] = position[c][p] + 1
          /\ p \in assigned[c]
      BY <1>3, <2>2 DEF Poll, InHand
    <3>2. o \in 0 .. position[c][p] - 1 \/ o = position[c][p]
      BY <3>1, OneMore
    <3>3. <<p, o>> # NoMessage
      BY DEF NoMessage
    <3>. QED  BY <1>1, <3>1, <3>2, <3>3 DEF PolledIsAttempted
  <2>. QED  BY <2>1, <2>2
<1>4. ASSUME NEW d \in Consumers, HandlerSucceeds(d) \/ HandlerFails(d)
      PROVE  <<p, o>> \in Attempted' \/ current'[c] = <<p, o>>
  <2>1. p \in assigned[c] /\ position'[c][p] = position[c][p]
    BY <1>4 DEF HandlerSucceeds, HandlerFails
  <2>2. CASE d = c
    <3>1. current[c] \in Attempted'
      BY <1>4, <2>2, HandlerAttempts
    <3>. QED  BY <1>1, <2>1, <3>1 DEF PolledIsAttempted
  <2>3. CASE d # c
    BY <1>2, <1>4, <2>1, <2>3 DEF HandlerSucceeds, HandlerFails
  <2>. QED  BY <2>2, <2>3
<1>5. ASSUME NEW d \in Consumers, Crash(d) \/ Close(d)
      PROVE  <<p, o>> \in Attempted' \/ current'[c] = <<p, o>>
  BY <1>2, <1>5 DEF Crash, Close, Forget
<1>6. ASSUME NEW d \in Consumers,
             \/ Expire(d) \/ Start(d) \/ StartFails(d) \/ Stop(d)
             \/ Commit(d) \/ LeaveLoop(d)
      PROVE  <<p, o>> \in Attempted' \/ current'[c] = <<p, o>>
  BY <1>2, <1>6 DEF Expire, Start, StartFails, Stop, Commit, LeaveLoop, loop
<1>7. ASSUME NEW q \in Partitions, Publish(q)
      PROVE  <<p, o>> \in Attempted' \/ current'[c] = <<p, o>>
  BY <1>2, <1>7 DEF Publish, loop
<1>8. ASSUME NEW M \in SUBSET Running, NEW owner \in [Partitions -> M], Rebalance(M, owner)
      PROVE  <<p, o>> \in Attempted' \/ current'[c] = <<p, o>>
  <2>1. CASE c \in M
    <3>1. p \in Partitions /\ owner[p] = c
      BY <1>8, <2>1 DEF Rebalance, Running
    <3>2. position'[c] = [q \in Partitions |-> IF owner[q] = c THEN committed[q] ELSE 0]
      BY <1>8, <2>1 DEF Rebalance
    <3>3. position'[c][p] = committed[p]
      BY <3>1, <3>2
    <3>. QED  BY <1>1, <3>1, <3>3 DEF CommittedIsAttempted
  <2>2. CASE c \notin M
    BY <1>2, <1>8, <2>2 DEF Rebalance
  <2>. QED  BY <2>1, <2>2
<1>9. CASE UNCHANGED vars
  BY <1>2, <1>9 DEF vars, loop
<1>. QED  BY <1>3, <1>4, <1>5, <1>6, <1>7, <1>8, <1>9 DEF Next, AnyRebalance, LoopStep

\* Only a handler at work has a message, and it is one of the log.
LEMMA InHandStep == IInv /\ [Next]_vars => InHand'
<1>. SUFFICES ASSUME IInv, [Next]_vars, NEW c \in Consumers
              PROVE  IF pc'[c] = "handle"
                     THEN \E p \in Partitions : \E o \in 0 .. logEnd'[p] - 1 :
                            current'[c] = <<p, o>>
                     ELSE current'[c] = NoMessage
  BY DEF InHand
<1>. DEFINE Held == IF pc'[c] = "handle"
                    THEN \E p \in Partitions : \E o \in 0 .. logEnd'[p] - 1 :
                           current'[c] = <<p, o>>
                    ELSE current'[c] = NoMessage
<1>. USE DEF IInv, TypeOK
<1>1. ASSUME pc'[c] = pc[c], current'[c] = current[c],
             \A p \in Partitions : logEnd'[p] >= logEnd[p]
      PROVE  Held
  <2>1. CASE pc[c] = "handle"
    <3>1. PICK p \in Partitions : \E o \in 0 .. logEnd[p] - 1 : current[c] = <<p, o>>
      BY <2>1 DEF InHand
    <3>2. logEnd[p] \in Nat /\ logEnd'[p] \in Nat /\ logEnd'[p] >= logEnd[p]
      BY <1>1, TypeStep
    <3>. QED  BY <1>1, <2>1, <3>1, <3>2
  <2>2. CASE pc[c] # "handle"
    BY <1>1, <2>2 DEF InHand
  <2>. QED  BY <2>1, <2>2
<1>2. ASSUME NEW d \in Consumers, NEW q \in Partitions, Poll(d, q) PROVE Held
  <2>1. CASE d = c
    <3>1. /\ current'[c] = <<q, position[c][q]>>
          /\ pc'[c] = "handle"
          /\ position[c][q] \in 0 .. logEnd'[q] - 1
      BY <1>2, <2>1 DEF Poll, broker
    <3>. QED  BY <3>1
  <2>2. CASE d # c
    <3>1. pc'[c] = pc[c] /\ current'[c] = current[c] /\ logEnd' = logEnd
      BY <1>2, <2>2 DEF Poll, broker
    <3>. QED  BY <1>1, <3>1
  <2>. QED  BY <2>1, <2>2
<1>3. ASSUME NEW d \in Consumers, HandlerSucceeds(d) \/ HandlerFails(d) PROVE Held
  <2>1. CASE d = c
    BY <1>3, <2>1 DEF HandlerSucceeds, HandlerFails, Processed
  <2>2. CASE d # c
    BY <1>1, <1>3, <2>2 DEF HandlerSucceeds, HandlerFails, Processed, broker
  <2>. QED  BY <2>1, <2>2
<1>4. ASSUME NEW d \in Consumers, Crash(d) \/ Close(d) PROVE Held
  <2>1. logEnd' = logEnd
    BY <1>4 DEF Crash, Close, CommitAccepted, CommitRejected
  <2>. QED  BY <1>1, <1>4, <2>1 DEF Crash, Close, Forget
<1>5. ASSUME NEW d \in Consumers, Commit(d) \/ LeaveLoop(d) PROVE Held
  <2>1. logEnd' = logEnd /\ current' = current
    BY <1>5 DEF Commit, LeaveLoop, CommitAccepted, CommitRejected, broker
  <2>. QED  BY <1>1, <1>5, <2>1 DEF Commit, LeaveLoop, InHand
<1>6. ASSUME NEW d \in Consumers, Start(d) PROVE Held
  BY <1>1, <1>6 DEF Start, InHand, broker
<1>7. ASSUME NEW d \in Consumers, Expire(d) \/ StartFails(d) \/ Stop(d) PROVE Held
  BY <1>1, <1>7 DEF Expire, StartFails, Stop, broker, loop
<1>8. ASSUME NEW q \in Partitions, Publish(q) PROVE Held
  BY <1>1, <1>8 DEF Publish, loop
<1>9. CASE AnyRebalance
  BY <1>1, <1>9 DEF AnyRebalance, Rebalance
<1>10. CASE UNCHANGED vars
  BY <1>1, <1>10 DEF vars, broker, loop
<1>. QED  BY <1>2, <1>3, <1>4, <1>5, <1>6, <1>7, <1>8, <1>9, <1>10 DEF Next, LoopStep

\* Neither a position nor an offset passes the end of the log.
LEMMA WithinLogStep == IInv /\ [Next]_vars => WithinLog'
<1>. SUFFICES ASSUME IInv, [Next]_vars PROVE WithinLog'
  OBVIOUS
<1>. USE DEF IInv, WithinLog, TypeOK
<1>1. ASSUME NEW c \in Consumers, Commit(c) PROVE WithinLog'
  BY <1>1 DEF Commit, CommitAccepted, CommitRejected
<1>2. ASSUME NEW c \in Consumers, Close(c) PROVE WithinLog'
  <2>1. logEnd' = logEnd
    BY <1>2 DEF Close, CommitAccepted, CommitRejected
  <2>2. \A p \in Partitions : committed'[p] <= logEnd[p]
    BY <1>2 DEF Close, CommitAccepted, CommitRejected
  <2>3. position' = [position EXCEPT ![c] = [p \in Partitions |-> 0]]
    BY <1>2 DEF Close, Forget
  <2>4. ASSUME NEW d \in Consumers, NEW p \in Partitions PROVE position'[d][p] <= logEnd[p]
    BY <2>3
  <2>. QED  BY <2>1, <2>2, <2>4
<1>3. ASSUME NEW c \in Consumers, NEW p \in Partitions, Poll(c, p) PROVE WithinLog'
  BY <1>3 DEF Poll, broker
<1>4. ASSUME NEW c \in Consumers, HandlerSucceeds(c) \/ HandlerFails(c) \/ LeaveLoop(c)
      PROVE  WithinLog'
  BY <1>4 DEF HandlerSucceeds, HandlerFails, LeaveLoop, broker
<1>5. ASSUME NEW c \in Consumers, Expire(c) \/ Start(c) \/ StartFails(c) \/ Stop(c)
      PROVE  WithinLog'
  BY <1>5 DEF Expire, Start, StartFails, Stop, broker, loop
<1>6. ASSUME NEW c \in Consumers, Crash(c) PROVE WithinLog'
  BY <1>6 DEF Crash, Forget
<1>7. ASSUME NEW q \in Partitions, Publish(q) PROVE WithinLog'
  BY <1>7 DEF Publish, loop
<1>8. CASE AnyRebalance
  BY <1>8 DEF AnyRebalance, Rebalance
<1>9. CASE UNCHANGED vars
  BY <1>9 DEF vars, broker, loop
<1>. QED  BY <1>1, <1>2, <1>3, <1>4, <1>5, <1>6, <1>7, <1>8, <1>9 DEF Next, LoopStep

\* The invariant holds in every reachable state.
THEOREM Invariance == Spec => []IInv
<1>1. IInv /\ [Next]_vars => IInv'
  BY TypeStep, OneOwnerStep, MembersAheadStep, PolledIsAttemptedStep, InHandStep,
     WithinLogStep, CommittedIsAttemptedStep DEF IInv
<1>. QED  BY InitIInv, <1>1, PTL DEF Spec

-----------------------------------------------------------------------------
(* What the invariant gives.                                               *)

\* consumer.py: whatever crashes, rebalances, fenced commits and failures do,
\* the group's offset never passes a tick that no handler tried to store.
THEOREM NoTickSkipped == Spec => []CommittedIsAttempted
<1>1. IInv => CommittedIsAttempted
  BY DEF IInv
<1>. QED  BY Invariance, <1>1, PTL

\* A step moves no offset backwards.
LEMMA OffsetsStep ==
  ASSUME IInv, [Next]_vars, NEW p \in Partitions
  PROVE  committed[p] <= committed'[p]
<1>1. CASE committed'[p] = committed[p]
  BY <1>1 DEF IInv, TypeOK
<1>2. ASSUME NEW c \in members, p \in assigned[c], committed'[p] = position[c][p]
      PROVE  committed[p] <= committed'[p]
  BY <1>2 DEF IInv, MembersAhead
<1>. QED  BY <1>1, <1>2, CommittedStep DEF IInv

\* consumer.py: no commit, the late one of a fenced process included, moves the
\* group's offset backwards.
THEOREM OffsetsMonotone == Spec => OffsetsNeverGoBack
<1>1. IInv /\ [Next]_vars => [\A p \in Partitions : committed'[p] >= committed[p]]_vars
  <2>. SUFFICES ASSUME IInv, [Next]_vars, NEW p \in Partitions
                PROVE  committed'[p] >= committed[p]
    OBVIOUS
  <2>1. committed[p] \in Nat /\ committed'[p] \in Nat
    BY TypeStep DEF IInv, TypeOK
  <2>. QED  BY <2>1, OffsetsStep
<1>. QED  BY Invariance, <1>1, PTL DEF Spec, OffsetsNeverGoBack

-----------------------------------------------------------------------------
(* Refinement.                                                             *)

\* A handler's end is an abstract attempt of a produced tick.
LEMMA HandlerIsAttempt ==
  ASSUME IInv, NEW c \in Consumers, HandlerSucceeds(c) \/ HandlerFails(c)
  PROVE  \E m \in Delivery!Produced : Delivery!Attempt(m)
<1>1. PICK p \in Partitions : \E o \in 0 .. logEnd[p] - 1 : current[c] = <<p, o>>
  BY DEF IInv, InHand, HandlerSucceeds, HandlerFails
<1>2. current[c] \in {p} \X (0 .. logEnd[p] - 1)
  BY <1>1
<1>3. current[c] \in Delivery!Produced
  BY <1>2 DEF Delivery!Produced
<1>4. Delivery!Attempt(current[c])
  BY DEF HandlerSucceeds, HandlerFails, Processed, Delivery!Attempt, broker
<1>. QED  BY <1>3, <1>4

\* A commit, accepted or not, is an abstract acknowledgement.
LEMMA CommitIsAcknowledge ==
  ASSUME IInv, IInv', [Next]_vars, NEW c \in Consumers, Commit(c) \/ Close(c)
  PROVE  Delivery!Acknowledge
<1>1. UNCHANGED <<logEnd, stored, failed>>
  BY DEF Commit, Close, CommitAccepted, CommitRejected, effect
<1>2. committed' \in [Partitions -> Nat]
  BY DEF IInv, TypeOK
<1>3. ASSUME NEW p \in Partitions
      PROVE  /\ committed[p] <= committed'[p]
             /\ committed'[p] <= logEnd[p]
             /\ \A o \in 0 .. committed'[p] - 1 : <<p, o>> \in stored \cup failed
  BY <1>1, OffsetsStep DEF IInv, WithinLog, CommittedIsAttempted, Attempted
<1>. QED  BY <1>1, <1>2, <1>3 DEF Delivery!Acknowledge, Delivery!Attempted

\* Every step of the group is a step of the abstract delivery or changes none of
\* its variables.
LEMMA StepRefines ==
  ASSUME IInv, IInv', [Next]_vars
  PROVE  [Delivery!Next]_(Delivery!avars)
<1>. USE DEF Delivery!Next, Delivery!avars
<1>1. ASSUME NEW p \in Partitions, Publish(p) PROVE Delivery!Next
  BY <1>1 DEF Publish, Delivery!Publish, effect
<1>2. ASSUME NEW c \in Consumers, HandlerSucceeds(c) \/ HandlerFails(c) PROVE Delivery!Next
  BY <1>2, HandlerIsAttempt
<1>3. ASSUME NEW c \in Consumers, Commit(c) \/ Close(c) PROVE Delivery!Next
  BY <1>3, CommitIsAcknowledge
<1>4. ASSUME NEW c \in Consumers,
             \/ \E p \in Partitions : Poll(c, p)
             \/ LeaveLoop(c)
             \/ Start(c) \/ StartFails(c) \/ Stop(c) \/ Crash(c) \/ Expire(c)
      PROVE  UNCHANGED Delivery!avars
  BY <1>4 DEF Poll, LeaveLoop, Start, StartFails, Stop, Crash, Expire, broker, effect
<1>5. CASE AnyRebalance
  BY <1>5 DEF AnyRebalance, Rebalance, effect
<1>6. CASE UNCHANGED vars
  BY <1>6 DEF vars, broker, effect
<1>. QED  BY <1>1, <1>2, <1>3, <1>4, <1>5, <1>6 DEF Next, LoopStep

\* The consumer group, crashes and fencing included, implements at-least-one
\* attempt per acknowledged tick (TickDelivery).
THEOREM Refinement == Spec => ImplementsDelivery
<1>1. Init => Delivery!Init
  BY DEF Init, Delivery!Init
<1>2. IInv /\ IInv' /\ [Next]_vars => [Delivery!Next]_(Delivery!avars)
  BY StepRefines
<1>. QED  BY Invariance, <1>1, <1>2, PTL DEF Spec, ImplementsDelivery, Delivery!Spec

-----------------------------------------------------------------------------
(* The handler of cassandra_consumer.py, which catches its own exceptions. *)

\* To the loop a handler that swallows has processed whatever it attempted.
LEMMA AttemptedIsProcessedStep ==
  ASSUME HandlerSwallows, Attempted \subseteq processed, [Next]_vars
  PROVE  Attempted' \subseteq processed'
<1>. USE DEF Attempted, effect
<1>1. ASSUME NEW c \in Consumers, HandlerSucceeds(c) \/ HandlerFails(c)
      PROVE  Attempted' \subseteq processed'
  BY <1>1 DEF HandlerSucceeds, HandlerFails, Processed
<1>2. ASSUME NEW c \in Consumers, LoopStep(c), ~HandlerSucceeds(c), ~HandlerFails(c)
      PROVE  UNCHANGED effect
  BY <1>2 DEF LoopStep, Poll, Commit, LeaveLoop, Close
<1>3. ASSUME NEW c \in Consumers,
             Expire(c) \/ Start(c) \/ StartFails(c) \/ Crash(c) \/ Stop(c)
      PROVE  UNCHANGED effect
  BY <1>3 DEF Expire, Start, StartFails, Crash, Stop
<1>4. ASSUME NEW p \in Partitions, Publish(p) PROVE UNCHANGED effect
  BY <1>4 DEF Publish
<1>5. CASE AnyRebalance
  BY <1>5 DEF AnyRebalance, Rebalance
<1>6. CASE UNCHANGED vars
  BY <1>6 DEF vars
<1>. QED  BY <1>1, <1>2, <1>3, <1>4, <1>5, <1>6 DEF Next

\* "Offset commit after successful message processing" (consumer.py:1-8): it is
\* so for a handler that swallows its exceptions, as _message_handler does, and
\* only because to the loop every handling is then a success
\* (cassandra_consumer.py:60-75).
THEOREM SwallowingProcessesAll ==
  ASSUME HandlerSwallows
  PROVE  Spec => []CommittedIsProcessed
<1>1. Init => Attempted \subseteq processed
  BY DEF Init, Attempted
<1>2. Attempted \subseteq processed /\ [Next]_vars => (Attempted \subseteq processed)'
  BY AttemptedIsProcessedStep DEF Attempted
<1>3. IInv /\ Attempted \subseteq processed => CommittedIsProcessed
  BY DEF IInv, CommittedIsAttempted, CommittedIsProcessed
<1>. QED  BY <1>1, <1>2, <1>3, Invariance, PTL DEF Spec

-----------------------------------------------------------------------------
(* The bound on what a crash delivers again.                               *)

\* The parts of the bound that a step can disturb.
UncommittedCounted ==
  \A c \in members : /\ IsFiniteSet(Uncommitted(c))
                     /\ Cardinality(Uncommitted(c)) <= SinceCommit(c)

\* processed_count % commit_every is 0 exactly at a multiple.
LEMMA CountWraps ==
  ASSUME NEW n \in 0 .. CommitEvery - 1
  PROVE  (n + 1) % CommitEvery = IF n + 1 = CommitEvery THEN 0 ELSE n + 1
  BY CommitEveryAssumption

\* A member whose uncommitted messages and count stay keeps its bound.
LEMMA SameUncommitted ==
  ASSUME TypeOK, UncommittedCounted, NEW c \in members,
         assigned'[c] = assigned[c], position'[c] = position[c],
         \A p \in assigned[c] : committed'[p] = committed[p]
  PROVE  Uncommitted(c)' = Uncommitted(c)
<1>. DEFINE Old(p) == {p} \X (committed[p] .. position[c][p] - 1)
<1>. DEFINE New(p) == {p} \X (committed'[p] .. position'[c][p] - 1)
<1>1. \A p \in assigned[c] : New(p) = Old(p)
  OBVIOUS
<1>2. Uncommitted(c) = UNION {Old(p) : p \in assigned[c]}
  BY DEF Uncommitted
<1>3. Uncommitted(c)' = UNION {New(p) : p \in assigned[c]}
  BY DEF Uncommitted
<1>. QED  BY <1>1, <1>2, <1>3

\* A member at the group's offsets has nothing uncommitted.
LEMMA NothingUncommitted ==
  ASSUME NEW c \in Consumers, TypeOK',
         \A p \in assigned'[c] : position'[c][p] = committed'[p]
  PROVE  /\ Uncommitted(c)' = {}
         /\ IsFiniteSet(Uncommitted(c)') /\ Cardinality(Uncommitted(c)') = 0
<1>1. \A p \in assigned'[c] : committed'[p] .. position'[c][p] - 1 = {}
  BY DEF TypeOK
<1>2. Uncommitted(c)' = {}
  BY <1>1 DEF Uncommitted
<1>. QED  BY <1>2, FS_EmptySet

\* A poll adds the message it takes in hand.
LEMMA PollAddsOne ==
  ASSUME IInv, NEW c \in members, NEW p \in Partitions, Poll(c, p)
  PROVE  Uncommitted(c)' = Uncommitted(c) \cup {current'[c]}
<1>1. /\ c \in Consumers /\ p \in assigned[c]
      /\ current'[c] = <<p, position[c][p]>>
      /\ position'[c] = [position[c] EXCEPT ![p] = @ + 1]
      /\ position[c] \in [Partitions -> Nat]
      /\ assigned' = assigned /\ committed' = committed
      /\ assigned[c] \subseteq Partitions
      /\ committed[p] \in Nat /\ committed[p] <= position[c][p]
  BY DEF IInv, TypeOK, MembersAhead, Poll, broker
<1>2. committed[p] .. (position[c][p] + 1) - 1 =
        (committed[p] .. position[c][p] - 1) \cup {position[c][p]}
  BY <1>1
<1>3. ASSUME NEW m
      PROVE  m \in Uncommitted(c)' <=> m \in Uncommitted(c) \cup {current'[c]}
  <2>1. m \in Uncommitted(c)' <=>
          \E q \in assigned[c] : m \in {q} \X (committed[q] .. position'[c][q] - 1)
    BY <1>1 DEF Uncommitted
  <2>2. m \in Uncommitted(c) <=>
          \E q \in assigned[c] : m \in {q} \X (committed[q] .. position[c][q] - 1)
    BY DEF Uncommitted
  <2>3. \A q \in assigned[c] \ {p} : position'[c][q] = position[c][q]
    BY <1>1
  <2>4. m \in {p} \X (committed[p] .. position'[c][p] - 1) <=>
          \/ m \in {p} \X (committed[p] .. position[c][p] - 1)
          \/ m = current'[c]
    BY <1>1, <1>2
  <2>. QED  BY <1>1, <2>1, <2>2, <2>3, <2>4
<1>. QED  BY <1>3

\* Only the member that owns a partition moves its offset.
LEMMA OthersKeepOffsets ==
  ASSUME IInv, [Next]_vars, NEW c \in members,
         NEW d \in Consumers, d # c, Commit(d) \/ Close(d), NEW p \in assigned[c]
  PROVE  committed'[p] = committed[p]
<1>1. p \in Partitions
  BY DEF IInv, TypeOK
<1>2. CASE d \in members
  <2>1. p \notin assigned[d]
    BY <1>2 DEF IInv, OneOwner
  <2>. QED  BY <1>1, <2>1 DEF Commit, Close, CommitAccepted, CommitRejected
<1>3. CASE d \notin members
  BY <1>3 DEF Commit, Close, CommitAccepted, CommitRejected
<1>. QED  BY <1>2, <1>3

\* Every step keeps the bound: a poll adds what the handler then counts, and the
\* commit that a full count leads to is accepted and starts it again.
LEMMA UncommittedCountedStep ==
  ASSUME HandlerSwallows, ~CommitMayFail, IInv, IInv', UncommittedCounted, [Next]_vars
  PROVE  UncommittedCounted'
<1>. SUFFICES ASSUME NEW c \in members'
              PROVE  /\ IsFiniteSet(Uncommitted(c)')
                     /\ Cardinality(Uncommitted(c)') <= SinceCommit(c)'
  BY DEF UncommittedCounted
<1>. DEFINE Bound == /\ IsFiniteSet(Uncommitted(c)')
                     /\ Cardinality(Uncommitted(c)') <= SinceCommit(c)'
<1>1. /\ c \in Consumers
      /\ count[c] \in 0 .. CommitEvery - 1 /\ count'[c] \in 0 .. CommitEvery - 1
      /\ CommitEvery \in Nat \ {0}
  BY CommitEveryAssumption DEF IInv, TypeOK
<1>2. SinceCommit(c)' >= 0
  BY <1>1 DEF SinceCommit
<1>3. ASSUME c \in members
      PROVE  /\ IsFiniteSet(Uncommitted(c)) /\ Cardinality(Uncommitted(c)) \in Nat
             /\ Cardinality(Uncommitted(c)) <= SinceCommit(c)
  BY <1>3, FS_CardinalityType DEF UncommittedCounted
<1>4. ASSUME c \in members, Uncommitted(c)' = Uncommitted(c),
             SinceCommit(c) <= SinceCommit(c)'
      PROVE  Bound
  <2>1. SinceCommit(c) \in Int /\ SinceCommit(c)' \in Int
    BY <1>1 DEF SinceCommit
  <2>. QED  BY <1>3, <1>4, <2>1
<1>5. ASSUME c \in members, UNCHANGED <<committed, assigned, position>>
      PROVE  Uncommitted(c)' = Uncommitted(c)
  BY <1>5, SameUncommitted DEF IInv
<1>6. ASSUME \A p \in assigned'[c] : position'[c][p] = committed'[p] PROVE Bound
  BY <1>1, <1>2, <1>6, NothingUncommitted DEF IInv
<1>7. ASSUME NEW p \in Partitions, Poll(c, p) PROVE Bound
  <2>1. c \in members
    BY <1>7 DEF Poll, broker
  <2>2. Uncommitted(c)' = Uncommitted(c) \cup {current'[c]}
    BY <1>7, <2>1, PollAddsOne
  <2>3. SinceCommit(c) = count[c] /\ SinceCommit(c)' = count[c] + 1
    BY <1>1, <1>7 DEF Poll, SinceCommit, IInv, TypeOK
  <2>4. /\ IsFiniteSet(Uncommitted(c) \cup {current'[c]})
        /\ \/ Cardinality(Uncommitted(c) \cup {current'[c]}) = Cardinality(Uncommitted(c))
           \/ Cardinality(Uncommitted(c) \cup {current'[c]}) = Cardinality(Uncommitted(c)) + 1
    BY <1>3, <2>1, FS_AddElement
  <2>5. Cardinality(Uncommitted(c)) \in Nat /\ Cardinality(Uncommitted(c)) <= count[c]
    BY <1>3, <2>1, <2>3
  <2>6. Cardinality(Uncommitted(c) \cup {current'[c]}) <= count[c] + 1
    BY <1>1, <2>4, <2>5
  <2>. QED  BY <2>2, <2>3, <2>4, <2>6
<1>8. ASSUME HandlerSucceeds(c) \/ HandlerFails(c) PROVE Bound
  <2>1. /\ UNCHANGED <<committed, assigned, position, members>>
        /\ pc[c] = "handle" /\ Processed(c)
    BY <1>8 DEF HandlerSucceeds, HandlerFails, broker
  <2>2. count'[c] = (count[c] + 1) % CommitEvery
    BY <1>1, <2>1 DEF Processed, IInv, TypeOK
  <2>3. pc'[c] = IF count'[c] = 0 THEN "commit" ELSE "poll"
    BY <1>1, <2>1 DEF Processed, IInv, TypeOK
  <2>4. SinceCommit(c) = count[c] + 1
    BY <2>1 DEF SinceCommit
  <2>5. SinceCommit(c)' = count[c] + 1
    BY <1>1, <2>2, <2>3, CountWraps DEF SinceCommit
  <2>. QED  BY <1>1, <1>4, <1>5, <2>1, <2>4, <2>5
<1>9. ASSUME Commit(c) PROVE Bound
  <2>1. /\ c \in members /\ UNCHANGED <<assigned, position>>
        /\ CommitAccepted(c)
    BY <1>9 DEF Commit, CommitRejected
  <2>2. \A p \in assigned'[c] : position'[c][p] = committed'[p]
    BY <1>1, <2>1 DEF CommitAccepted, IInv, TypeOK
  <2>. QED  BY <1>6, <2>2
<1>10. ASSUME LeaveLoop(c) \/ Start(c) PROVE Bound
  <2>1. /\ UNCHANGED <<committed, assigned, position, members, count>>
        /\ pc[c] \in {"poll", "down"} /\ pc'[c] \in {"final", "poll"}
    BY <1>1, <1>10 DEF LeaveLoop, Start, broker, IInv, TypeOK
  <2>2. SinceCommit(c) = count[c] /\ SinceCommit(c)' = count[c]
    BY <2>1 DEF SinceCommit
  <2>. QED  BY <1>1, <1>4, <1>5, <2>1, <2>2
<1>11. ASSUME c \in members, UNCHANGED <<assigned, position>>, pc'[c] = pc[c],
              count'[c] = count[c], \A p \in assigned[c] : committed'[p] = committed[p]
       PROVE  Bound
  <2>1. Uncommitted(c)' = Uncommitted(c)
    BY <1>11, SameUncommitted DEF IInv
  <2>2. SinceCommit(c)' = SinceCommit(c)
    BY <1>11 DEF SinceCommit
  <2>3. SinceCommit(c) \in Int
    BY <1>1 DEF SinceCommit
  <2>. QED  BY <1>4, <1>11, <2>1, <2>2, <2>3
<1>12. ASSUME NEW d \in Consumers, d # c, LoopStep(d) PROVE Bound
  <2>1. CASE \E p \in Partitions : Poll(d, p)
    <3>1. /\ c \in members /\ assigned'[c] = assigned[c] /\ position'[c] = position[c]
          /\ committed' = committed /\ pc'[c] = pc[c] /\ count'[c] = count[c]
      BY <1>1, <1>12, <2>1 DEF Poll, broker, IInv, TypeOK
    <3>2. Uncommitted(c)' = Uncommitted(c)
      BY <3>1, SameUncommitted DEF IInv
    <3>3. SinceCommit(c)' = SinceCommit(c) /\ SinceCommit(c) \in Int
      BY <1>1, <3>1 DEF SinceCommit
    <3>. QED  BY <1>4, <3>1, <3>2, <3>3
  <2>2. CASE HandlerSucceeds(d) \/ HandlerFails(d)
    BY <1>1, <1>11, <1>12, <2>2
    DEF HandlerSucceeds, HandlerFails, Processed, broker, IInv, TypeOK
  <2>3. CASE Commit(d)
    <3>1. \A p \in assigned[c] : c \in members /\ committed'[p] = committed[p]
      BY <1>12, <2>3, OthersKeepOffsets DEF Commit
    <3>. QED  BY <1>1, <1>11, <1>12, <2>3, <3>1 DEF Commit, IInv, TypeOK
  <2>4. CASE LeaveLoop(d)
    BY <1>1, <1>11, <1>12, <2>4 DEF LeaveLoop, broker, IInv, TypeOK
  <2>5. CASE Close(d)
    <3>1. c \in members
      BY <2>5 DEF Close
    <3>2. \A p \in assigned[c] : committed'[p] = committed[p]
      BY <1>12, <2>5, <3>1, OthersKeepOffsets
    <3>3. /\ assigned'[c] = assigned[c] /\ position'[c] = position[c]
          /\ pc'[c] = pc[c] /\ count'[c] = count[c]
      BY <1>1, <1>12, <2>5 DEF Close, Forget, IInv, TypeOK
    <3>4. Uncommitted(c)' = Uncommitted(c)
      BY <3>1, <3>2, <3>3, SameUncommitted DEF IInv
    <3>5. SinceCommit(c)' = SinceCommit(c) /\ SinceCommit(c) \in Int
      BY <1>1, <3>3 DEF SinceCommit
    <3>. QED  BY <1>4, <3>1, <3>4, <3>5
  <2>. QED  BY <1>12, <2>1, <2>2, <2>3, <2>4, <2>5 DEF LoopStep
<1>13. ASSUME LoopStep(c) PROVE Bound
  BY <1>7, <1>8, <1>9, <1>10, <1>13 DEF LoopStep, Close
<1>14. ASSUME NEW d \in Consumers,
              \/ Expire(d) \/ StartFails(d) \/ Stop(d)
              \/ d # c /\ Start(d)
       PROVE  Bound
  BY <1>1, <1>11, <1>14 DEF Expire, StartFails, Stop, Start, broker, loop, IInv, TypeOK
<1>15. ASSUME NEW d \in Consumers, Crash(d) PROVE Bound
  <2>1. c \in members /\ c # d /\ committed' = committed
    BY <1>15 DEF Crash
  <2>2. /\ assigned'[c] = assigned[c] /\ position'[c] = position[c]
        /\ pc'[c] = pc[c] /\ count'[c] = count[c]
    BY <1>1, <1>15, <2>1 DEF Crash, Forget, IInv, TypeOK
  <2>3. Uncommitted(c)' = Uncommitted(c)
    BY <2>1, <2>2, SameUncommitted DEF IInv
  <2>4. SinceCommit(c)' = SinceCommit(c) /\ SinceCommit(c) \in Int
    BY <1>1, <2>2 DEF SinceCommit
  <2>. QED  BY <1>4, <2>1, <2>3, <2>4
<1>16. ASSUME NEW p \in Partitions, Publish(p) PROVE Bound
  BY <1>11, <1>16 DEF Publish, loop
<1>17. ASSUME NEW M \in SUBSET Running, NEW owner \in [Partitions -> M], Rebalance(M, owner)
       PROVE  Bound
  <2>1. /\ c \in M /\ committed' = committed
        /\ assigned'[c] = {p \in Partitions : owner[p] = c}
        /\ position'[c] = [p \in Partitions |-> IF owner[p] = c THEN committed[p] ELSE 0]
    BY <1>1, <1>17 DEF Rebalance
  <2>. QED  BY <1>6, <2>1
<1>18. CASE UNCHANGED vars
  BY <1>11, <1>18 DEF vars, broker, loop
<1>. QED
  BY <1>10, <1>12, <1>13, <1>14, <1>15, <1>16, <1>17, <1>18 DEF Next, AnyRebalance

\* consumer.py, commit_every: with the handler of cassandra_consumer.py and a broker
\* that accepts a member's commits, a crash delivers again at most commit_every
\* messages of a member, whatever rebalances and expiries came before.
THEOREM RedeliveryIsBounded ==
  ASSUME HandlerSwallows, ~CommitMayFail
  PROVE  Spec => []RedeliveryBounded
<1>1. Init => UncommittedCounted
  BY DEF Init, UncommittedCounted
<1>2. IInv /\ IInv' /\ UncommittedCounted /\ [Next]_vars => UncommittedCounted'
  BY UncommittedCountedStep
<1>3. IInv /\ UncommittedCounted => RedeliveryBounded
  <2>1. IInv => \A c \in members : SinceCommit(c) <= CommitEvery
    BY CommitEveryAssumption DEF IInv, TypeOK, SinceCommit
  <2>. QED  BY <2>1 DEF UncommittedCounted, RedeliveryBounded
<1>. QED  BY <1>1, <1>2, <1>3, Invariance, PTL DEF Spec

=============================================================================
