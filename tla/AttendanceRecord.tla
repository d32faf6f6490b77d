---------------------------- MODULE AttendanceRecord ----------------------------
(***************************************************************************)
(* What hr.attendance promises of an employee whose punches are stored:    *)
(* an attendance begins at a stored punch and ends at a later one, and it  *)
(* neither goes nor changes once it has ended.  Attendance implements it   *)
(* with concurrent transactions, repeated batches and roll-backs.          *)
(***************************************************************************)
EXTENDS Naturals

CONSTANTS Times,  \* instants
          Open    \* an attendance without an end

VARIABLES stored,  \* instants of the stored punches
          atts     \* attendances: begin -> end, or Open

vars == <<stored, atts>>

Init == stored = {} /\ atts = <<>>

\* Attendances between punches of S.
Between(A, S) ==
    \A i \in DOMAIN A : i \in S /\ (A[i] = Open \/ (A[i] \in S /\ i < A[i]))

\* Punches are stored, and attendances begin and end.
Store ==
    /\ stored \subseteq stored' /\ stored' \subseteq Times
    /\ DOMAIN atts \subseteq DOMAIN atts'
    /\ \A i \in DOMAIN atts : atts[i] # Open => atts'[i] = atts[i]
    /\ Between(atts', stored')

Spec == Init /\ [][Store]_vars

================================================================================
