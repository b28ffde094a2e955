----------------------------- MODULE MCRoutines -----------------------------
(* Routines with one routine, two good cron expressions and one bad one. *)
EXTENDS Routines, TLC
CONSTANTS a, hourly, daily, bad
OneName  == {a}
Good     == {hourly, daily}
AllCrons == Good \cup {bad}

(* A file removed by hand, or a failure.                                    *)
OneMishap == edits + faults <= 1

Symmetry == Permutations(Clients) \cup Permutations(Good)
=============================================================================
