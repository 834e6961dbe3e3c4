----------------------------- MODULE BoundedSet -----------------------------
(***************************************************************************)
(* What a shard of the fingerprint set is: a set that answers "already     *)
(* there" exactly for its members, as long as it has room; from Limit      *)
(* members on it may refuse a new one, and then it answers "new" and       *)
(* forgets it.  Its comments promise more, a table that grows and holds    *)
(* all it was given: FingerprintShard!InsertedIsStored, which fails.       *)
(***************************************************************************)
EXTENDS Naturals, FiniteSets

CONSTANTS Elements, Room, Limit, NoAnswer

VARIABLES members, answer

Init == members = {} /\ answer = NoAnswer

Known(f) ==
  /\ f \in members
  /\ answer' = [of |-> f, exists |-> TRUE]
  /\ UNCHANGED members

Added(f) ==
  /\ f \notin members
  /\ Cardinality(members) < Room
  /\ answer' = [of |-> f, exists |-> FALSE]
  /\ members' = members \cup {f}

Refused(f) ==
  /\ f \notin members
  /\ Cardinality(members) >= Limit
  /\ answer' = [of |-> f, exists |-> FALSE]
  /\ UNCHANGED members

Insert(f) == Known(f) \/ Added(f) \/ Refused(f)

Next == \E f \in Elements : Insert(f)

Spec == Init /\ [][Next]_<<members, answer>>
=============================================================================
