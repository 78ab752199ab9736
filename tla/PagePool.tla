------------------------------ MODULE PagePool ------------------------------
(***************************************************************************)
(* What a physical page allocator promises its callers, whatever its data  *)
(* structures: a page is either free or held by exactly one caller, and a  *)
(* page only changes hands by being taken while free or given back while   *)
(* held.  A page that holds the allocator's own data is neither.  Pages    *)
(* are named by their physical address.                                    *)
(***************************************************************************)

VARIABLES
  free,      \* addresses of the pages that may be handed out
  held,      \* addresses of the pages that callers own
  reserved   \* addresses of the pages that the allocator keeps for itself

Init == held = {} /\ free \cap reserved = {}

\* A region of memory is put under management: its pages become free, except for
\* those that are reserved for its metadata.
Grow ==
  /\ free \subseteq free' /\ reserved \subseteq reserved'
  /\ (free' \ free) \cap held = {}
  /\ reserved' \cap (free' \cup held) = {}
  /\ UNCHANGED held

Take ==
  \E page \in free :
    /\ free' = free \ {page}
    /\ held' = held \cup {page}
    /\ UNCHANGED reserved

Give ==
  \E page \in held :
    /\ held' = held \ {page}
    /\ free' = free \cup {page}
    /\ UNCHANGED reserved

Next == Grow \/ Take \/ Give

Spec == Init /\ [][Next]_<<free, held, reserved>>

=============================================================================
