----------------------------- MODULE AckedStore -----------------------------
(***************************************************************************)
(* What the write queue promises its callers: an item is kept as a whole or *)
(* not at all, it is answered once, and the answer says which of the two.   *)
(* Keeping comes before answering, so an item answered "ok" is kept and one *)
(* answered "err" will never be.                                            *)
(***************************************************************************)
CONSTANT Items

VARIABLES
    told,   \* the answer each caller has: "none" yet, "ok" or "err"
    kept    \* the items that are durable

Init ==
    /\ told = [i \in Items |-> "none"]
    /\ kept = {}

\* Some items still without an answer become durable together.
Keep(S) ==
    /\ \A i \in S : told[i] = "none"
    /\ kept' = kept \cup S
    /\ UNCHANGED told

\* Some items are answered together, each according to its fate.
Answer(S) ==
    /\ \A i \in S : told[i] = "none"
    /\ told' = [i \in Items |-> IF i \in S
                                THEN IF i \in kept THEN "ok" ELSE "err"
                                ELSE told[i]]
    /\ UNCHANGED kept

Next == \E S \in SUBSET Items : Keep(S) \/ Answer(S)

Spec == Init /\ [][Next]_<<told, kept>>
=============================================================================
