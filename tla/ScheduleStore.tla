----------------------------- MODULE ScheduleStore -----------------------------
(***************************************************************************)
(* What the server promises about the schedule of one switch: an edit      *)
(* leaves the switch dirty, and the only way to become clean is to send    *)
(* the schedule as it is at that moment.  Whether the schedules of a group *)
(* count at that moment is not promised, so that several tables may do.    *)
(* ScheduleSync implements it with database transactions, a retrying cron  *)
(* job and a message broker.                                               *)
(***************************************************************************)
CONSTANTS Tables,   \* schedules a switch may have
          Cleared   \* the empty one, sent to a released switch

VARIABLES want,      \* the tables that do for the schedules stored for the switch
          released,  \* the switch belongs to no company
          sent,      \* the schedule of the last push believed successful
          dirty      \* does the stored schedule still have to be sent?

vars == <<want, released, sent, dirty>>

Wanted == (SUBSET Tables) \ {{}}

Init == want = {Cleared} /\ released = TRUE /\ sent = Cleared /\ dirty = TRUE

Edit ==
    /\ want' \in Wanted
    /\ released' \in BOOLEAN
    /\ dirty' = TRUE
    /\ sent' = sent \/ sent' \in want' \cup {Cleared}

\* A push, together with the edit that asked for it, if any.
Push ==
    /\ want' \in Wanted
    /\ released' \in BOOLEAN
    /\ dirty' = FALSE
    /\ sent' \in want' \/ (released' /\ sent' = Cleared)

Next == Edit \/ Push

Spec == Init /\ [][Next]_vars

================================================================================
