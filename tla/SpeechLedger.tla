---------------------------- MODULE SpeechLedger ----------------------------
(***************************************************************************)
(* What the archive owes to those who spoke.  Speech is unheard until it is *)
(* registered; from then on it waits, then it is told by some text, and it  *)
(* is told for good.  Nothing goes back or gets lost on the way.            *)
(***************************************************************************)
CONSTANT Speech    \* the pieces of speech

VARIABLE stage     \* of each piece: "unheard", "waiting" or "told"

Init == stage = [s \in Speech |-> "unheard"]

Move(S, to) == stage' = [s \in Speech |-> IF s \in S THEN to ELSE stage[s]]

\* A piece is registered, to be told later.
Hear(s) == stage[s] = "unheard" /\ Move({s}, "waiting")

\* Some pieces are told together, whether they waited or were told on the spot.
Tell(S) ==
    /\ \A s \in S : stage[s] \in {"unheard", "waiting"}
    /\ Move(S, "told")

Next ==
    \/ \E s \in Speech : Hear(s)
    \/ \E S \in SUBSET Speech : Tell(S)

Spec == Init /\ [][Next]_stage
=============================================================================
