---------------------------- MODULE TickConsumer ----------------------------
(***************************************************************************)
(* FinFlowConsumer.consume (ingestion/kafka/consumer.py) running in the    *)
(* processes of one consumer group, with the Cassandra handler and the     *)
(* start-up and stop of generation/cassandra_consumer.py around it.        *)
(*                                                                         *)
(* Kafka's side of the contract (group membership, positions, the broker's *)
(* fencing of commits) is external: it is what the code's use of           *)
(* confluent_kafka.Consumer relies on.                                     *)
(***************************************************************************)
EXTENDS Integers, FiniteSets

CONSTANTS
  Consumers,        \* processes that run the consume loop in the group
  Partitions,       \* partitions of stock-ticks
  CommitEvery,      \* consume(commit_every=...)
  HandlerSwallows,  \* TRUE: the handler catches its own exceptions, as
                    \* _message_handler does; FALSE: it lets them out
  CommitMayFail,    \* FALSE: the broker accepts every commit of a member
  MaxOffset,        \* bound: ticks per partition
  MaxStarts,        \* bound: starts of each process
  MaxExpiries       \* bound: sessions that time out in a live process

ASSUME CommitEveryAssumption == CommitEvery \in Nat \ {0}
ASSUME FlagsAssumption == HandlerSwallows \in BOOLEAN /\ CommitMayFail \in BOOLEAN
ASSUME BoundsAssumption ==
  MaxOffset \in Nat /\ MaxStarts \in Nat /\ MaxExpiries \in Nat

VARIABLES
  \* the broker
  logEnd,     \* [Partitions -> Nat]: messages in each partition
  committed,  \* [Partitions -> Nat]: the group's offsets; 0 is "none yet",
              \* which auto.offset.reset=earliest resolves to 0
  members,    \* the consumers whose generation the coordinator accepts
  expiries,   \* sessions timed out so far
  \* the processes
  pc,         \* [Consumers -> Control]: where the loop is
  assigned,   \* [Consumers -> SUBSET Partitions]: the client's assignment
  position,   \* [Consumers -> [Partitions -> Nat]]: next offset to poll
  current,    \* [Consumers -> Messages]: the message in hand
  count,      \* [Consumers -> Nat]: processed_count % commit_every
  stopping,   \* [Consumers -> BOOLEAN]: the _shutdown event
  starts,     \* [Consumers -> Nat]: times the process was started
  \* Cassandra, and what became of each message
  stored,     \* messages that are rows of tick_data
  processed,  \* messages for which the handler returned to the loop
  failed      \* messages of which some handling failed

broker == <<logEnd, committed, members, expiries>>
loop   == <<pc, assigned, position, current, count, stopping, starts>>
effect == <<stored, processed, failed>>
vars   == <<broker, loop, effect>>

Control == {"down", "poll", "handle", "commit", "final"}

Messages == Partitions \X Nat
NoMessage == <<>>

Running == {c \in Consumers : pc[c] # "down"}

Orphaned == {p \in Partitions : \A c \in members : p \notin assigned[c]}

Init ==
  /\ logEnd = [p \in Partitions |-> 0]
  /\ committed = [p \in Partitions |-> 0]
  /\ members = {}
  /\ expiries = 0
  /\ pc = [c \in Consumers |-> "down"]
  /\ assigned = [c \in Consumers |-> {}]
  /\ position = [c \in Consumers |-> [p \in Partitions |-> 0]]
  /\ current = [c \in Consumers |-> NoMessage]
  /\ count = [c \in Consumers |-> 0]
  /\ stopping = [c \in Consumers |-> FALSE]
  /\ starts = [c \in Consumers |-> 0]
  /\ stored = {}
  /\ processed = {}
  /\ failed = {}

-----------------------------------------------------------------------------
(* The broker                                                              *)

\* A producer appends a tick.
Publish(p) ==
  /\ logEnd[p] < MaxOffset
  /\ logEnd' = [logEnd EXCEPT ![p] = @ + 1]
  /\ UNCHANGED <<committed, members, expiries, loop, effect>>

\* The coordinator gives up on a member that is alive but silent (a handler
\* longer than max.poll.interval.ms, a pause longer than session.timeout.ms).
\* The process does not know: it keeps its assignment and its position.
Expire(c) ==
  /\ c \in members
  /\ expiries < MaxExpiries
  /\ expiries' = expiries + 1
  /\ members' = members \ {c}
  /\ UNCHANGED <<logEnd, committed, loop, effect>>

\* The group takes in running processes, or redistributes the partitions of
\* one it lost.  Every member drops what it had (no rebalance callback is
\* registered) and resumes from the committed offsets.
Rebalance(M, owner) ==
  /\ M # members \/ Orphaned # {}
  /\ members' = M
  /\ assigned' = [c \in Consumers |->
                    IF c \in M THEN {p \in Partitions : owner[p] = c} ELSE assigned[c]]
  /\ position' = [c \in Consumers |->
                    IF c \in M
                    THEN [p \in Partitions |-> IF owner[p] = c THEN committed[p] ELSE 0]
                    ELSE position[c]]
  /\ UNCHANGED <<logEnd, committed, expiries, pc, current, count, stopping, starts, effect>>

-----------------------------------------------------------------------------
(* The life of a process                                                   *)

\* run_consumer connected to Cassandra, subscribed, and entered the loop.
Start(c) ==
  /\ pc[c] = "down"
  /\ starts[c] < MaxStarts
  /\ starts' = [starts EXCEPT ![c] = @ + 1]
  /\ pc' = [pc EXCEPT ![c] = "poll"]
  /\ UNCHANGED <<broker, assigned, position, current, count, stopping, effect>>

\* connect() or the consumer's constructor raised: run_consumer returns and
\* nothing in the process tries again.
StartFails(c) ==
  /\ pc[c] = "down"
  /\ starts[c] < MaxStarts
  /\ starts' = [starts EXCEPT ![c] = @ + 1]
  /\ UNCHANGED <<broker, pc, assigned, position, current, count, stopping, effect>>

\* The memory of the process is gone.
Forget(c) ==
  /\ pc' = [pc EXCEPT ![c] = "down"]
  /\ assigned' = [assigned EXCEPT ![c] = {}]
  /\ position' = [position EXCEPT ![c] = [p \in Partitions |-> 0]]
  /\ current' = [current EXCEPT ![c] = NoMessage]
  /\ count' = [count EXCEPT ![c] = 0]
  /\ stopping' = [stopping EXCEPT ![c] = FALSE]
  /\ UNCHANGED starts

\* The process dies at any point of the loop; generation/main.py does this to
\* the consumer's daemon thread when it returns.
Crash(c) ==
  /\ pc[c] # "down"
  /\ Forget(c)
  /\ members' = members \ {c}
  /\ UNCHANGED <<logEnd, committed, expiries, effect>>

\* stop(), called by the monitor thread.
Stop(c) ==
  /\ pc[c] # "down"
  /\ ~stopping[c]
  /\ stopping' = [stopping EXCEPT ![c] = TRUE]
  /\ UNCHANGED <<broker, pc, assigned, position, current, count, starts, effect>>

-----------------------------------------------------------------------------
(* The consume loop                                                        *)

\* Mutant of Poll: enable.auto.commit stays on.
PollAutoCommits(c, p) ==
  /\ pc[c] = "poll"
  /\ ~stopping[c]
  /\ p \in assigned[c]
  /\ position[c][p] < logEnd[p]
  /\ current' = [current EXCEPT ![c] = <<p, position[c][p]>>]
  /\ position' = [position EXCEPT ![c][p] = @ + 1]
  /\ committed' = IF c \in members THEN [committed EXCEPT ![p] = position'[c][p]] ELSE committed
  /\ pc' = [pc EXCEPT ![c] = "handle"]
  /\ UNCHANGED <<logEnd, members, expiries, assigned, count, stopping, starts, effect>>

\* poll() returns the next message of an assigned partition, and the client's
\* position moves past it.  (None and error events change nothing.)
Poll(c, p) ==
  /\ pc[c] = "poll"
  /\ ~stopping[c]
  /\ p \in assigned[c]
  /\ position[c][p] < logEnd[p]
  /\ current' = [current EXCEPT ![c] = <<p, position[c][p]>>]
  /\ position' = [position EXCEPT ![c][p] = @ + 1]
  /\ pc' = [pc EXCEPT ![c] = "handle"]
  /\ UNCHANGED <<broker, assigned, count, stopping, starts, effect>>

\* Mutant of Processed: commits one message late.
ProcessedOneLate(c) ==
  /\ processed' = processed \cup {current[c]}
  /\ count' = [count EXCEPT ![c] = (@ + 1) % (CommitEvery + 1)]
  /\ pc' = [pc EXCEPT ![c] = IF count'[c] = 0 THEN "commit" ELSE "poll"]

\* The handler returned: processed_count grows, and a multiple of commit_every
\* leads to a commit.
Processed(c) ==
  /\ processed' = processed \cup {current[c]}
  /\ count' = [count EXCEPT ![c] = (@ + 1) % CommitEvery]
  /\ pc' = [pc EXCEPT ![c] = IF count'[c] = 0 THEN "commit" ELSE "poll"]

\* insert_tick wrote the row.
HandlerSucceeds(c) ==
  /\ pc[c] = "handle"
  /\ stored' = stored \cup {current[c]}
  /\ Processed(c)
  /\ current' = [current EXCEPT ![c] = NoMessage]
  /\ UNCHANGED <<broker, assigned, position, stopping, starts, failed>>

\* Mutant of HandlerFails: seeks back to the message to try it again.
HandlerFailsSeeksBack(c) ==
  /\ pc[c] = "handle"
  /\ failed' = failed \cup {current[c]}
  /\ position' = [position EXCEPT ![c][current[c][1]] = current[c][2]]
  /\ current' = [current EXCEPT ![c] = NoMessage]
  /\ pc' = [pc EXCEPT ![c] = "poll"]
  /\ UNCHANGED <<broker, assigned, count, stopping, starts, stored, processed>>

\* Parsing or the insert raised.  A write that times out may have been applied.
\* A handler that swallows the exception looks like success to the loop; one
\* that does not makes the loop log the error and poll on.
HandlerFails(c) ==
  /\ pc[c] = "handle"
  /\ stored' \in {stored, stored \cup {current[c]}}
  /\ failed' = failed \cup {current[c]}
  /\ IF HandlerSwallows
     THEN Processed(c)
     ELSE /\ pc' = [pc EXCEPT ![c] = "poll"]
          /\ UNCHANGED <<processed, count>>
  /\ current' = [current EXCEPT ![c] = NoMessage]
  /\ UNCHANGED <<broker, assigned, position, stopping, starts>>

\* commit() with no argument: the position of every assigned partition, which
\* the coordinator takes from current members only.
CommitAccepted(c) ==
  /\ c \in members
  /\ committed' = [p \in Partitions |->
                     IF p \in assigned[c] THEN position[c][p] ELSE committed[p]]
  /\ UNCHANGED <<logEnd, expiries>>

\* commit() raised: a fenced member, no broker, a timeout.
CommitRejected(c) ==
  /\ CommitMayFail \/ c \notin members
  /\ UNCHANGED <<logEnd, committed, expiries>>

\* The commit in the loop; its exception is caught as if the handler had failed.
Commit(c) ==
  /\ pc[c] = "commit"
  /\ CommitAccepted(c) \/ CommitRejected(c)
  /\ pc' = [pc EXCEPT ![c] = "poll"]
  /\ UNCHANGED <<members, assigned, position, current, count, stopping, starts, effect>>

\* Mutant of LeaveLoop: a stop request interrupts the handler.
LeaveLoopAtOnce(c) ==
  /\ pc[c] \in {"poll", "handle"}
  /\ stopping[c]
  /\ pc' = [pc EXCEPT ![c] = "final"]
  /\ current' = [current EXCEPT ![c] = NoMessage]
  /\ UNCHANGED <<broker, assigned, position, count, stopping, starts, effect>>

\* Mutant of LeaveLoop: the loop only ends after a commit.
LeaveLoopAfterCommit(c) ==
  /\ pc[c] = "poll"
  /\ stopping[c]
  /\ count[c] = 0
  /\ pc' = [pc EXCEPT ![c] = "final"]
  /\ UNCHANGED <<broker, assigned, position, current, count, stopping, starts, effect>>

\* The loop condition sees the event.
LeaveLoop(c) ==
  /\ pc[c] = "poll"
  /\ stopping[c]
  /\ pc' = [pc EXCEPT ![c] = "final"]
  /\ UNCHANGED <<broker, assigned, position, current, count, stopping, starts, effect>>

\* Mutant of Close: commits the offset of the last message, not the one after it.
CloseOffByOne(c) ==
  /\ pc[c] = "final"
  /\ committed' = [p \in Partitions |->
                     IF c \in members /\ p \in assigned[c] /\ position[c][p] > 0
                     THEN position[c][p] - 1 ELSE committed[p]]
  /\ members' = members \ {c}
  /\ Forget(c)
  /\ UNCHANGED <<logEnd, expiries, effect>>

\* finally: the last commit, whose failure is ignored, then close(), which
\* leaves the group.
Close(c) ==
  /\ pc[c] = "final"
  /\ CommitAccepted(c) \/ CommitRejected(c)
  /\ members' = members \ {c}
  /\ Forget(c)
  /\ UNCHANGED effect

-----------------------------------------------------------------------------

AnyRebalance ==
  \E M \in SUBSET Running :
    /\ members \subseteq M
    /\ \E owner \in [Partitions -> M] : Rebalance(M, owner)

LoopStep(c) ==
  \/ \E p \in Partitions : Poll(c, p)
  \/ HandlerSucceeds(c)
  \/ HandlerFails(c)
  \/ Commit(c)
  \/ LeaveLoop(c)
  \/ Close(c)

Next ==
  \/ \E p \in Partitions : Publish(p)
  \/ AnyRebalance
  \/ \E c \in Consumers :
       \/ Expire(c)
       \/ Start(c)
       \/ StartFails(c)
       \/ Crash(c)
       \/ Stop(c)
       \/ LoopStep(c)

Spec == Init /\ [][Next]_vars

\* A running process keeps running, polls every assigned partition that has
\* messages, and the coordinator eventually completes a rebalance that takes
\* in every running process.  Nothing restarts a process that ended.
Fairness ==
  /\ \A c \in Consumers :
       /\ WF_vars(LoopStep(c))
       /\ \A p \in Partitions : SF_vars(Poll(c, p))
  /\ WF_vars(\E owner \in [Partitions -> Running] : Rebalance(Running, owner))

FairSpec == Spec /\ Fairness

-----------------------------------------------------------------------------
(* Properties                                                              *)

TypeOK ==
  /\ logEnd \in [Partitions -> Nat]
  /\ committed \in [Partitions -> Nat]
  /\ members \subseteq Consumers
  /\ expiries \in Nat
  /\ pc \in [Consumers -> Control]
  /\ assigned \in [Consumers -> SUBSET Partitions]
  /\ position \in [Consumers -> [Partitions -> Nat]]
  /\ current \in [Consumers -> Messages \cup {NoMessage}]
  /\ count \in [Consumers -> 0 .. CommitEvery - 1]
  /\ stopping \in [Consumers -> BOOLEAN]
  /\ starts \in [Consumers -> Nat]
  /\ stored \subseteq Messages
  /\ processed \subseteq Messages
  /\ failed \subseteq Messages

Attempted == stored \cup failed

\* No tick is skipped in silence: the committed offset of a partition only
\* covers messages a handler really took, through every crash, rebalance,
\* zombie and failed commit.
CommittedIsAttempted ==
  \A p \in Partitions : \A o \in 0 .. committed[p] - 1 : <<p, o>> \in Attempted

\* Two members never own the same partition (positions and commits of one
\* would otherwise undo the other's).
OneOwner ==
  \A c, d \in members : c # d => assigned[c] \cap assigned[d] = {}

\* The group never moves back: whatever process commits, a fenced one
\* included, no committed offset decreases.
OffsetsNeverGoBack ==
  [][\A p \in Partitions : committed'[p] >= committed[p]]_vars

\* The parts that make CommittedIsAttempted inductive.  Members are never
\* behind the group's offsets; what a client polled was attempted or is in its
\* handler's hands; and nothing is polled or committed that is not in the log.
MembersAhead ==
  \A c \in members : \A p \in assigned[c] : committed[p] <= position[c][p]

PolledIsAttempted ==
  \A c \in Consumers : \A p \in assigned[c] : \A o \in 0 .. position[c][p] - 1 :
    <<p, o>> \in Attempted \/ current[c] = <<p, o>>

InHand ==
  \A c \in Consumers :
    IF pc[c] = "handle"
    THEN \E p \in Partitions : \E o \in 0 .. logEnd[p] - 1 : current[c] = <<p, o>>
    ELSE current[c] = NoMessage

WithinLog ==
  \A p \in Partitions :
    /\ committed[p] <= logEnd[p]
    /\ \A c \in Consumers : position[c][p] <= logEnd[p]

IInv ==
  /\ TypeOK
  /\ OneOwner
  /\ MembersAhead
  /\ PolledIsAttempted
  /\ InHand
  /\ WithinLog
  /\ CommittedIsAttempted

\* What a crash of c would have delivered again: polled and not committed.
Uncommitted(c) ==
  UNION {{p} \X (committed[p] .. position[c][p] - 1) : p \in assigned[c]}

\* What the loop has counted since it last committed, with the one in hand.
SinceCommit(c) == CASE pc[c] = "handle" -> count[c] + 1
                    [] pc[c] = "commit" -> CommitEvery
                    [] OTHER            -> count[c]

\* "Commit offsets after this many successful messages": with a handler that
\* always returns and commits that are accepted, a crash makes the group repeat
\* what the member counted since its last commit, at most commit_every messages,
\* however its partitions moved.
RedeliveryBounded ==
  \A c \in members : /\ Cardinality(Uncommitted(c)) <= SinceCommit(c)
                     /\ SinceCommit(c) <= CommitEvery

\* "Offset commit after successful message processing" (consumer.py): a
\* committed offset only covers messages for which the handler returned.
CommittedIsProcessed ==
  \A p \in Partitions : \A o \in 0 .. committed[p] - 1 : <<p, o>> \in processed

\* The group implements the abstract delivery of TickDelivery.
Delivery == INSTANCE TickDelivery
ImplementsDelivery == Delivery!Spec

\* While some process is up, every tick is attempted in the end.
EveryTickAttempted ==
  \A p \in Partitions : \A o \in 0 .. MaxOffset - 1 :
    o < logEnd[p] ~> (<<p, o>> \in Attempted \/ Running = {})

\* A stop request ends the loop.
StopEndsLoop == \A c \in Consumers : stopping[c] ~> pc[c] = "down"
=============================================================================
