--------------------------- MODULE MCTickConsumer ---------------------------
EXTENDS TickConsumer, TLC

ConsumerSymmetry == Permutations(Consumers)
=============================================================================
