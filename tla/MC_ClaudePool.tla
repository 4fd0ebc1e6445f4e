---------------------------- MODULE MC_ClaudePool ----------------------------
(* Small instances of ClaudePool for TLC.                                  *)
EXTENDS ClaudePool, TLC

CONSTANTS t1, t2, A, B, s1, s2, d1

OneCwd  == [s \in Sigs |-> d1]

\* Turns, threads and signatures are interchangeable when nothing names one.
Symmetry == Permutations(Turns) \cup Permutations(Threads)

\* The background work of one behaviour is of one kind; where a standby is
\* kept there is none, and one thread at a time.
OneConcern ==
  LET threads == ({turn[t].thread : t \in Turns} \cup {proc[p].thread : p \in Pids}) \ {None}
      idle(kind) == /\ \A p \in Pids : kind \notin proc[p].work
                    /\ kind = "wake" => \A p \in Pids : ~proc[p].wake
                    /\ kind = "task" => \A p \in Pids : ~proc[p].tasks
  IN  IF prewarm.proto = None THEN idle("wake") \/ idle("task")
      ELSE idle("wake") /\ idle("task") /\ Cardinality(threads) <= 1

\* Without a standby or background work a resumed session runs like a new one.
NewOrFresh == \A t \in Turns : turn[t].kind # "resume"
=============================================================================
