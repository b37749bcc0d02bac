---------------------------- MODULE MCEnrollment ----------------------------
(***************************************************************************)
(* Instance of Enrollment for TLC.  The sites are alike, so it starts in   *)
(* one of them, and a ticket in the environment is for the other.  It is   *)
(* the first launch; a later one is like the first after its mint.         *)
(***************************************************************************)
EXTENDS Enrollment

MCInit == /\ EnrollmentInit
          /\ site = "release"
          /\ \/ identity = "absent" /\ override = NoTicket
             \/ identity = Existing /\ override = TicketOf("dev")

MCSpec == MCInit /\ [][EnrollmentNext]_enrollmentVars /\ Fairness
==============================================================================
