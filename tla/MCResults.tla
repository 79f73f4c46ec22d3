------------------------------ MODULE MCResults ------------------------------
(***************************************************************************)
(* Results for TLC: every tree of up to three nodes, and every timestamp   *)
(* and duration around the bounds; or chains of maps of any length around  *)
(* the limit of the code.                                                  *)
(***************************************************************************)
EXTENDS Results

Kind == Leaves \cup {"list", "map"}
Nested == {"list", "map"}

MCTrees ==
    {<<Node(0, k)>> : k \in Kind}
        \cup {<<Node(0, j), Node(1, k)>> : j \in Nested, k \in Kind}
        \cup {<<Node(0, i), Node(1, j), Node(1, k)>> : i \in Nested, j, k \in Kind}
        \cup {<<Node(0, i), Node(1, j), Node(2, k)>> : i, j \in Nested, k \in Kind}

MCTimes ==
    {<<[parent |-> 0, kind |-> k, seconds |-> s, nanos |-> n]>> :
        k \in {"timestamp", "duration"}, s \in -3..3, n \in -3..3}

MCSmallValues == MCTrees \cup MCTimes

Chain(d) == [n \in 1..(d + 1) |-> Node(n - 1, IF n <= d THEN "map" ELSE "scalar")]

MCChains == {Chain(d) : d \in 0..(MAXIMUM_VALUE_DEPTH + 1)}

\* A bound below zero, which a configuration file cannot write.
MCMinTimestamp == -2
=============================================================================
