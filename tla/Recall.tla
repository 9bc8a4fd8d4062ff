------------------------------- MODULE Recall -------------------------------
(***************************************************************************)
(* What a session file promises of a conversation.  The messages that are  *)
(* still there in full follow a summary that tells of the earlier ones.  A *)
(* message joins at the end, and the earliest ones are folded into the     *)
(* summary: none leaves in another way, no summary forgets what it told    *)
(* of, and nothing else is ever shown.  Only the file as a whole can be    *)
(* lost, for good.                                                         *)
(***************************************************************************)
EXTENDS Naturals

CONSTANT Ids       \* the messages, numbered as they were said

VARIABLES
    shown,     \* the messages that are there in full
    told,      \* the messages the summary tells of
    lost       \* the file can never be loaded again

vars == <<shown, told, lost>>

Init == shown = {} /\ told = {} /\ lost = FALSE

Say(e) ==
    /\ ~lost
    /\ \A d \in shown \cup told : d < e
    /\ shown' = shown \cup {e}
    /\ UNCHANGED <<told, lost>>

\* The messages before `kept' are folded into the summary.
Fold(kept) ==
    /\ ~lost
    /\ shown' = {e \in shown : e >= kept}
    /\ told' = told \cup {e \in shown : e < kept}
    /\ lost' = lost

Lose == lost' = TRUE /\ shown' = {} /\ told' = {}

Next ==
    \/ \E e \in Ids : Say(e) \/ Fold(e)
    \/ Lose

Spec == Init /\ [][Next]_vars
=============================================================================
