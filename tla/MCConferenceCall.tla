-------------------------- MODULE MCConferenceCall --------------------------
(* Instances of ConferenceCall for TLC: a teacher, a student and up to two *)
(* POST /start requests.                                                   *)
EXTENDS ConferenceCall

CONSTANTS t, s, r1, r2

Dials(m, n) == [p \in {t, s} |-> IF p = t THEN m ELSE n]
OneEach     == Dials(1, 1)
StudentTwo  == Dials(1, 2)
TeacherTwo  == Dials(2, 0)
=============================================================================
