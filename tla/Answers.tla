------------------------------ MODULE Answers ------------------------------
(* What one visitor may be answered of another: by the visits to a site,   *)
(* or by the cached fragments of its templates.                            *)
EXTENDS Visits

CONSTANTS Key, Value, Policy, MaxTime,           \* of the store
          Fragment, Locale, Scalar, List, Visit, \* of the fragments
          Goroutine

VARIABLES about, fragments, now, visit, pc, bytes

fragmentVars == <<fragments, now, visit, pc, bytes>>

F == INSTANCE FragmentCache WITH Request <- Goroutine, entries <- fragments, answer <- bytes

ASSUME FragmentsAssumption == F!SiteHasFragments

(* The half a run is not about stands still.                               *)
AnswersInit ==
  /\ Init /\ F!Init
  /\ \/ about = "visits" /\ visit = [g \in Goroutine |-> CHOOSE v \in Visit : TRUE]
     \/ about = "fragments"

OfVisits(Action) == about = "visits" /\ Action /\ UNCHANGED <<about, fragmentVars>>
OfFragments(Action) == about = "fragments" /\ Action /\ UNCHANGED <<about, vars>>

AnswersSpec ==
  /\ AnswersInit
  /\ [][OfVisits(Next) \/ OfFragments(F!Next)]_<<about, vars, fragmentVars>>

(* The properties of FragmentCache.                                        *)
ServesTheAlike == F!ServesTheAlike
PrivateBytesStayOnes == F!PrivateBytesStayOnes
=============================================================================
