---------------------------- MODULE TickProducer ----------------------------
(***************************************************************************)
(* The stock producer process: one thread per ticker (generation/          *)
(* stock_producer.py) publishing through one FinFlowProducer               *)
(* (ingestion/kafka/producer.py), and the main thread that waits for the   *)
(* shutdown event, flushes, closes and joins.  generation/main.py runs the *)
(* same code on a daemon thread (Supervised).  trade_simulator.py has the  *)
(* same shape with one thread.                                             *)
(*                                                                         *)
(* librdkafka's local queue is external: a message stays in it until its   *)
(* delivery report has been served by poll() or flush().                   *)
(***************************************************************************)
EXTENDS Integers, FiniteSets

CONSTANTS
  Tickers,          \* one producer thread each
  QueueMax,         \* queue.buffering.max.messages
  Supervised,       \* TRUE: main() is itself a daemon thread of generation/main.py
  FlushMayTimeOut,  \* FALSE: every flush ends within its 15 seconds
  JoinMayTimeOut,   \* FALSE: every thread ends within its 5 seconds
  MaxTicks          \* bound: ticks each thread makes

ASSUME QueueMaxAssumption == QueueMax \in Nat
ASSUME MaxTicksAssumption == MaxTicks \in Nat
ASSUME ModesAssumption ==
  {Supervised, FlushMayTimeOut, JoinMayTimeOut} \subseteq BOOLEAN

VARIABLES
  tpc,        \* [Tickers -> ThreadControl]: the producer threads
  made,       \* [Tickers -> Nat]: ticks fetched; the last one is being published
  attempt,    \* [Tickers -> 0..2]: failed attempts of the current publish()
  shutdown,   \* the _shutdown event
  mpc,        \* MainControl: the main thread
  status,     \* [Messages -> Status]: each tick on its way through the client
  late,       \* history: ticks enqueued when close() had already returned
  timedOut    \* history: some flush gave up with messages in the queue

vars == <<tpc, made, attempt, shutdown, mpc, status, late, timedOut>>

ThreadControl == {"loop", "publish", "stopped", "dead"}
MainControl   == {"wait", "flush", "close", "join", "exited", "killed"}

Messages == Tickers \X (1 .. MaxTicks)

\* "new": not enqueued.  "queued": the broker has not answered.  "acked" and
\* "failed": it has, and the report waits.  "delivered" and "error": the
\* callback ran; an error is appended to _delivery_errors and goes no further.
Status == {"new", "queued", "acked", "failed", "delivered", "error"}

Outstanding == {m \in Messages : status[m] \in {"queued", "acked", "failed"}}

MaxAttempts == 3

Tick(t) == <<t, made[t]>>

Init ==
  /\ tpc = [t \in Tickers |-> "loop"]
  /\ made = [t \in Tickers |-> 0]
  /\ attempt = [t \in Tickers |-> 0]
  /\ shutdown = FALSE
  /\ mpc = "wait"
  /\ status = [m \in Messages |-> "new"]
  /\ late = {}
  /\ timedOut = FALSE

\* Daemon threads end with the process: main() returned, or the supervisor did.
Ended == mpc \in {"exited", "killed"}
Alive == ~Ended

-----------------------------------------------------------------------------
(* The producer threads                                                    *)

\* The loop condition, then a fetch: live or simulated, it yields a tick.
Fetch(t) ==
  /\ Alive /\ tpc[t] = "loop" /\ ~shutdown
  /\ made[t] < MaxTicks
  /\ made' = [made EXCEPT ![t] = @ + 1]
  /\ attempt' = [attempt EXCEPT ![t] = 0]
  /\ tpc' = [tpc EXCEPT ![t] = "publish"]
  /\ UNCHANGED <<shutdown, mpc, status, late, timedOut>>

\* The simulated tick fails its own validation (a cached price that rounds to
\* 0.00): the exception leaves the handler of _fetch_tick and ends the thread.
FetchRaises(t) ==
  /\ Alive /\ tpc[t] = "loop" /\ ~shutdown
  /\ made[t] < MaxTicks
  /\ tpc' = [tpc EXCEPT ![t] = "dead"]
  /\ UNCHANGED <<made, attempt, shutdown, mpc, status, late, timedOut>>

LeaveLoop(t) ==
  /\ Alive /\ tpc[t] = "loop" /\ shutdown
  /\ tpc' = [tpc EXCEPT ![t] = "stopped"]
  /\ UNCHANGED <<made, attempt, shutdown, mpc, status, late, timedOut>>

\* The reports that poll() or flush() hand to _delivery_callback.
Served(s) == [m \in Messages |-> CASE s[m] = "acked"  -> "delivered"
                                   [] s[m] = "failed" -> "error"
                                   [] OTHER -> s[m]]

\* produce() takes the message, poll(0) serves the reports that are there.
Publish(t) ==
  /\ Alive /\ tpc[t] = "publish"
  /\ Cardinality(Outstanding) < QueueMax
  /\ status' = Served([status EXCEPT ![Tick(t)] = "queued"])
  /\ late' = IF mpc = "join" THEN late \cup {Tick(t)} ELSE late
  /\ tpc' = [tpc EXCEPT ![t] = "loop"]
  /\ UNCHANGED <<made, attempt, shutdown, mpc, timedOut>>

\* produce() raises KafkaException: two more attempts, then it is the caller's,
\* and _producer_loop has no handler.
PublishRaises(t) ==
  /\ Alive /\ tpc[t] = "publish"
  /\ IF attempt[t] + 1 < MaxAttempts
     THEN attempt' = [attempt EXCEPT ![t] = @ + 1] /\ UNCHANGED tpc
     ELSE tpc' = [tpc EXCEPT ![t] = "dead"] /\ UNCHANGED attempt
  /\ UNCHANGED <<made, shutdown, mpc, status, late, timedOut>>

\* Mutant of PublishFull: logs the full queue and drops the tick.
PublishFullDrops(t) ==
  /\ Alive /\ tpc[t] = "publish"
  /\ Cardinality(Outstanding) >= QueueMax
  /\ tpc' = [tpc EXCEPT ![t] = "loop"]
  /\ UNCHANGED <<made, attempt, shutdown, mpc, status, late, timedOut>>

\* The queue is full: BufferError is not a KafkaException, so no retry and no
\* poll() that would make room.
PublishFull(t) ==
  /\ Alive /\ tpc[t] = "publish"
  /\ Cardinality(Outstanding) >= QueueMax
  /\ tpc' = [tpc EXCEPT ![t] = "dead"]
  /\ UNCHANGED <<made, attempt, shutdown, mpc, status, late, timedOut>>

-----------------------------------------------------------------------------
(* The client's background thread and the broker                           *)

\* Acknowledged by all in-sync replicas, or given up after delivery.timeout.ms.
Answer(m) ==
  /\ Alive /\ status[m] = "queued"
  /\ \E answer \in {"acked", "failed"} : status' = [status EXCEPT ![m] = answer]
  /\ UNCHANGED <<tpc, made, attempt, shutdown, mpc, late, timedOut>>

-----------------------------------------------------------------------------
(* The main thread                                                         *)

\* SIGINT or SIGTERM.
Signal ==
  /\ Alive /\ ~shutdown
  /\ shutdown' = TRUE
  /\ UNCHANGED <<tpc, made, attempt, mpc, status, late, timedOut>>

Wake ==
  /\ mpc = "wait" /\ shutdown
  /\ mpc' = "flush"
  /\ UNCHANGED <<tpc, made, attempt, shutdown, status, late, timedOut>>

Flushing == mpc \in {"flush", "close"}

\* While it waits, flush() serves reports.
FlushServes ==
  /\ Flushing
  /\ status' = Served(status)
  /\ status' # status
  /\ UNCHANGED <<tpc, made, attempt, shutdown, mpc, late, timedOut>>

\* Mutant of FlushReturns: poll() where flush() is meant.
FlushReturnsAtOnce ==
  /\ Flushing
  /\ mpc' = IF mpc = "flush" THEN "close" ELSE "join"
  /\ UNCHANGED <<tpc, made, attempt, shutdown, status, late, timedOut>>

\* flush() returns on an empty queue, or after its timeout with what remains,
\* which neither main() nor close() looks at.  main() calls it twice: by itself
\* and in close().
FlushReturns ==
  /\ Flushing
  /\ FlushMayTimeOut \/ Outstanding = {}
  /\ timedOut' = (timedOut \/ Outstanding # {})
  /\ mpc' = IF mpc = "flush" THEN "close" ELSE "join"
  /\ UNCHANGED <<tpc, made, attempt, shutdown, status, late>>

\* Mutant of JoinReturns: join() without a timeout.
JoinWaits ==
  /\ mpc = "join"
  /\ \A t \in Tickers : tpc[t] \in {"stopped", "dead"}
  /\ mpc' = "exited"
  /\ UNCHANGED <<tpc, made, attempt, shutdown, status, late, timedOut>>

\* Every join returned: the thread ended, or its 5 seconds were over.
JoinReturns ==
  /\ mpc = "join"
  /\ JoinMayTimeOut \/ \A t \in Tickers : tpc[t] \in {"stopped", "dead"}
  /\ mpc' = "exited"
  /\ UNCHANGED <<tpc, made, attempt, shutdown, status, late, timedOut>>

\* The signal handler of generation/main.py also wakes its own main thread,
\* which returns without joining anything.
SupervisorReturns ==
  /\ Supervised
  /\ Alive /\ shutdown
  /\ mpc' = "killed"
  /\ UNCHANGED <<tpc, made, attempt, shutdown, status, late, timedOut>>

-----------------------------------------------------------------------------

Thread(t) ==
  \/ Fetch(t)
  \/ FetchRaises(t)
  \/ LeaveLoop(t)
  \/ Publish(t)
  \/ PublishRaises(t)
  \/ PublishFull(t)

MainStep ==
  \/ Wake
  \/ FlushServes
  \/ FlushReturns
  \/ JoinReturns
  \/ SupervisorReturns

Next ==
  \/ \E t \in Tickers : Thread(t)
  \/ \E m \in Messages : Answer(m)
  \/ Signal
  \/ MainStep

Spec == Init /\ [][Next]_vars

\* The main thread is scheduled, and flush and join have timeouts.  A thread
\* may hang in its fetch: nothing is assumed of it.
FairSpec == Spec /\ WF_vars(Wake) /\ WF_vars(FlushReturns) /\ WF_vars(JoinReturns)

-----------------------------------------------------------------------------
(* Properties                                                              *)

TypeOK ==
  /\ tpc \in [Tickers -> ThreadControl]
  /\ made \in [Tickers -> 0 .. MaxTicks]
  /\ attempt \in [Tickers -> 0 .. MaxAttempts - 1]
  /\ shutdown \in BOOLEAN
  /\ mpc \in MainControl
  /\ status \in [Messages -> Status]
  /\ late \subseteq Messages
  /\ timedOut \in BOOLEAN

\* The two flushes of an orderly stop settle every tick that was enqueued before
\* they ended: what is left when the process exits was enqueued afterwards, by a
\* thread that had passed its loop condition before the signal.
LeftIsLate ==
  mpc \in {"join", "exited"} /\ ~timedOut => Outstanding \subseteq late

\* A thread never goes on past a tick it failed to hand over: publish() has
\* enqueued every tick but the current one, and the current one too when the
\* thread is back at the top of its loop.
NoGaps ==
  \A t \in Tickers : \A n \in 1 .. made[t] :
    status[<<t, n>>] = "new" => n = made[t] /\ tpc[t] \in {"publish", "dead"}

\* A thread that publishes has a tick in hand; with NoGaps, what makes the two
\* properties above inductive.
TickInHand == \A t \in Tickers : tpc[t] = "publish" => made[t] > 0

ProducerInv == TypeOK /\ TickInHand /\ LeftIsLate /\ NoGaps

\* A signal ends the process, whatever the threads and the broker do.
ShutdownExits == shutdown ~> Ended
=============================================================================
