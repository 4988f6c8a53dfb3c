------------------------- MODULE MCClosableMailbox -------------------------
(* Instances of ClosableMailbox for TLC. *)
EXTENDS ClosableMailbox, TLC

ThreadSymmetry == Permutations(Producers) \cup Permutations(Consumers)
                    \cup Permutations(Closers) \cup Permutations(Payloads)
============================================================================
