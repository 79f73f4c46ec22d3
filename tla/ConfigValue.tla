----------------------------- MODULE ConfigValue -----------------------------
(***************************************************************************)
(* Configuration values (runtime/value.rs).  A value is a tree, given as   *)
(* the sequence of its nodes: the first is the root, and every other one   *)
(* names its parent, which comes before it.  The children of a list are in *)
(* order; those of a map come in any order, as from a hash map.            *)
(***************************************************************************)
EXTENDS Integers, Sequences, FiniteSetsExt

CONSTANTS
    MAXIMUM_VALUE_DEPTH,
    MinTimestampSeconds, MaxTimestampSeconds,  \* PROTOBUF_TIMESTAMP_MIN/MAX_SECONDS
    MaxDurationSeconds,                        \* PROTOBUF_DURATION_MAX_SECONDS
    MaxNanoseconds,                            \* PROTOBUF_MAX_NANOSECONDS
    RecursionLimit                             \* prost: nested messages it decodes

ASSUME DepthAssumption == MAXIMUM_VALUE_DEPTH \in Nat /\ RecursionLimit \in Nat
ASSUME DomainAssumption ==
    /\ MinTimestampSeconds \in Int /\ MaxTimestampSeconds \in Int
    /\ MaxDurationSeconds \in Nat /\ MaxNanoseconds \in Nat

\* "malformed": no kind, an unknown null, a number that is not finite.  "own" is
\* a function of the active session, "unnamed" one of it without an ID, and
\* "foreign" one of another session.
Leaves == {"scalar", "malformed", "own", "unnamed", "foreign"}

\* The node of parent p that is neither a timestamp nor a duration.
Node(p, k) == [parent |-> p, kind |-> k, seconds |-> 0, nanos |-> 0]

Nodes == [parent : Nat, kind : Leaves \cup {"list", "map", "timestamp", "duration"},
          seconds : Int, nanos : Int]

IsTree(v) ==
    /\ v \in Seq(Nodes) /\ Len(v) > 0
    /\ v[1].parent = 0
    /\ \A n \in 2..Len(v) :
          v[n].parent \in 1..(n - 1) /\ v[v[n].parent].kind \in {"list", "map"}

-----------------------------------------------------------------------------
(* Validation.                                                             *)

valid_timestamp(t) ==
    /\ t.seconds \in MinTimestampSeconds..MaxTimestampSeconds
    /\ t.nanos \in 0..MaxNanoseconds

valid_duration(t) ==
    /\ t.seconds \in -MaxDurationSeconds..MaxDurationSeconds
    /\ t.nanos \in -MaxNanoseconds..MaxNanoseconds
    /\ ~(t.seconds > 0 /\ t.nanos < 0)
    /\ ~(t.seconds < 0 /\ t.nanos > 0)

\* The errors of a node that is no list or map; `bound` says that functions of
\* the active session are allowed.
LeafErrors(n, bound) ==
    CASE n.kind = "scalar" -> {}
      [] n.kind = "own" /\ bound -> {}
      [] n.kind = "foreign" /\ bound -> {"Protocol"}
      [] n.kind = "timestamp" /\ valid_timestamp(n) -> {}
      [] n.kind = "duration" /\ valid_duration(n) -> {}
      [] OTHER -> {"InvalidArgument"}

Children(v, n) == {c \in 1..Len(v) : v[c].parent = n}

\* validate does not count the entries of a map as a level.
ValidateMapsFlat(v, bound) ==
    LET at[d \in 0..MAXIMUM_VALUE_DEPTH + 1] == [n \in 1..Len(v) |->
            LET below == IF v[n].kind = "list" THEN d + 1 ELSE d
                failing == {c \in Children(v, n) : at[below][c] # {}}
            IN  IF d > MAXIMUM_VALUE_DEPTH THEN {"InvalidArgument"}
                ELSE IF v[n].kind \in {"list", "map"} THEN UNION {at[below][c] : c \in failing}
                ELSE LeafErrors(v[n], bound)]
    IN  at[0][1]

\* validate: the errors it may return for a node at a depth, none for a valid
\* value.
Validate(v, bound) ==
    LET at[d \in 0..MAXIMUM_VALUE_DEPTH + 1] == [n \in 1..Len(v) |->
            LET failing == {c \in Children(v, n) : at[d + 1][c] # {}}
            IN  IF d > MAXIMUM_VALUE_DEPTH THEN {"InvalidArgument"}
                ELSE CASE v[n].kind = "list" ->
                            IF failing = {} THEN {} ELSE at[d + 1][Min(failing)]
                       [] v[n].kind = "map" -> UNION {at[d + 1][c] : c \in failing}
                       [] OTHER -> LeafErrors(v[n], bound)]
    IN  at[0][1]

\* The nested messages prost meets on the way to the deepest one, when the root
\* is `base` messages deep in its envelope: a list adds its own message and that
\* of the element, a map one more for the entry.
Levels(v, base) ==
    LET at[n \in 1..Len(v)] ==
            IF n = 1 THEN base
            ELSE at[v[n].parent] + (IF v[v[n].parent].kind = "map" THEN 3 ELSE 2)
        own(n) == IF v[n].kind \in {"scalar", "malformed"} THEN 0 ELSE 1
    IN  Max({at[n] + own(n) : n \in 1..Len(v)})

Decodable(v, base) == Levels(v, base) <= RecursionLimit

-----------------------------------------------------------------------------
(* What a valid value is, without recursion over its children.             *)

\* A duration is the truncated quotient and remainder of the nanoseconds it
\* stands for, a timestamp the rounded down ones.
Canonical(n) ==
    LET unit == MaxNanoseconds + 1
        total == n.seconds * unit + n.nanos
    IN  IF n.kind = "timestamp"
        THEN /\ n.seconds = total \div unit
             /\ MinTimestampSeconds * unit <= total
             /\ total < (MaxTimestampSeconds + 1) * unit
        ELSE /\ n.seconds = IF total >= 0 THEN total \div unit ELSE -((-total) \div unit)
             /\ -(MaxDurationSeconds + 1) * unit < total
             /\ total < (MaxDurationSeconds + 1) * unit

Sound(v, bound) ==
    LET depth[n \in 1..Len(v)] == IF n = 1 THEN 0 ELSE depth[v[n].parent] + 1
    IN  \A n \in 1..Len(v) :
            /\ depth[n] <= MAXIMUM_VALUE_DEPTH
            /\ v[n].kind \notin {"malformed", "unnamed", "foreign"}
            /\ v[n].kind = "own" => bound
            /\ v[n].kind \in {"timestamp", "duration"} => Canonical(v[n])
=============================================================================
