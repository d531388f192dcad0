----------------------------- MODULE MCTwoFifos -----------------------------
(* Instances of TwoFifos for TLC: each fault on its own and together with  *)
(* a late process, both commands, and a product that does not fit.         *)
EXTENDS TwoFifos

Scenario(cmd, a, stale, faults) ==
  [command |-> cmd, array |-> a, stale |-> stale, faults |-> faults]
MCScenarios ==
  {Scenario(cmd, a, {}, {}) :
     cmd \in {"sum", "multiply"}, a \in {<<3>>, <<2, 5>>, <<4, 0, 7>>}}
  \cup {Scenario("multiply", <<9, 8, 7>>, {}, {})}
  \cup {Scenario("multiply", <<2, 5>>, stale, faults) :
          stale \in {{}, {"fifo2"}},
          faults \in {{"late"}, {"mkfifo"}, {"fork child2"}, {"fork child1"},
                      {"kill"}, {"int"}, {"late", "int"}, {"late", "kill"},
                      {"kill", "int"}}}
=============================================================================
