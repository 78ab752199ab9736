------------------------------ MODULE RangeSet ------------------------------
(***************************************************************************)
(* What the range tree promises: a set of address ranges no two of which   *)
(* overlap.  An insertion is refused when, and only when, the range would  *)
(* overlap another, or when memory runs out; a refused insertion leaves    *)
(* the set as it is.                                                       *)
(***************************************************************************)
EXTENDS Integers

CONSTANT Ranges   \* records [start, len]

VARIABLES
  ranges,   \* the set
  reply     \* the last operation and how it ended

Overlap(a, b) == a.start < b.start + b.len /\ b.start < a.start + a.len

Reply(call, range, status) == [call |-> call, range |-> range, status |-> status]

NoReply == [call |-> "none"]

Init == ranges = {} /\ reply = NoReply

Fits(r) == \A other \in ranges : ~ Overlap(r, other)

Insert(r) ==
  \/ /\ reply' = Reply("insert", r, "OK")
     /\ Fits(r)
     /\ ranges' = ranges \cup {r}
  \/ /\ reply' = Reply("insert", r, "OOM")
     /\ Fits(r)
     /\ UNCHANGED ranges
  \/ /\ reply' = Reply("insert", r, "OVERLAP")
     /\ ~ Fits(r)
     /\ UNCHANGED ranges

Delete(r) == reply' = Reply("delete", r, "OK") /\ ranges' = ranges \ {r}

\* The whole set is dropped.
Clear == reply' = NoReply /\ ranges' = {}

Next == Clear \/ \E r \in Ranges : Insert(r) \/ Delete(r)

Spec == Init /\ [][Next]_<<ranges, reply>>

=============================================================================
