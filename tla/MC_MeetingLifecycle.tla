------------------------ MODULE MC_MeetingLifecycle ------------------------
(* Bounds for the runs of MeetingLifecycle.                                 *)
EXTENDS MeetingLifecycle

CONSTANTS MaxCalls, MaxDetects, MaxAutoEnds, MaxRestarts, MaxFaults

RunLimit == [calls |-> MaxCalls, detects |-> MaxDetects, autoEnds |-> MaxAutoEnds,
             restarts |-> MaxRestarts, faults |-> MaxFaults]

=============================================================================
