------------------------------ MODULE MCWarmup ------------------------------
EXTENDS Warmup

\* A profile with the auto-chain, and one with two times of which the hours exclude the first.
TriggerSets == {[schedule |-> {}, auto_chain |-> TRUE], [schedule |-> {3, 6}, auto_chain |-> FALSE]}
Hours == {1, 2, 4}
=============================================================================
