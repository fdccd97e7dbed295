---------------------------- MODULE TickDelivery ----------------------------
(***************************************************************************)
(* What the stock-ticks consumer group promises, with no consumer in it:   *)
(* ticks are appended to partitions, each is attempted (written to         *)
(* Cassandra or found to fail) any number of times, and the group's offset *)
(* only ever moves forward over ticks that were attempted.  TickConsumer   *)
(* implements it.                                                          *)
(***************************************************************************)
EXTENDS Integers

CONSTANT Partitions     \* partitions of the topic

VARIABLES
  logEnd,     \* [Partitions -> Nat]: ticks appended so far
  committed,  \* [Partitions -> Nat]: offset the group would resume from
  stored,     \* ticks that are rows of tick_data
  failed      \* ticks of which some attempt failed

avars == <<logEnd, committed, stored, failed>>

Produced == UNION {{p} \X (0 .. logEnd[p] - 1) : p \in Partitions}

Attempted == stored \cup failed

Init ==
  /\ logEnd = [p \in Partitions |-> 0]
  /\ committed = [p \in Partitions |-> 0]
  /\ stored = {}
  /\ failed = {}

Publish(p) ==
  /\ logEnd' = [logEnd EXCEPT ![p] = @ + 1]
  /\ UNCHANGED <<committed, stored, failed>>

\* An attempt may fail and still have written its row: a Cassandra write
\* that times out may have been applied.
Attempt(m) ==
  /\ stored' \in {stored, stored \cup {m}}
  /\ failed' \in {failed, failed \cup {m}}
  /\ m \in stored' \cup failed'
  /\ UNCHANGED <<logEnd, committed>>

\* The group acknowledges a longer prefix of some partitions.
Acknowledge ==
  /\ committed' \in [Partitions -> Nat]
  /\ \A p \in Partitions :
       /\ committed[p] <= committed'[p]
       /\ committed'[p] <= logEnd[p]
       /\ \A o \in 0 .. committed'[p] - 1 : <<p, o>> \in Attempted
  /\ UNCHANGED <<logEnd, stored, failed>>

Next ==
  \/ \E p \in Partitions : Publish(p)
  \/ \E m \in Produced : Attempt(m)
  \/ Acknowledge

Spec == Init /\ [][Next]_avars
=============================================================================
