----------------------------- MODULE GapDetector -----------------------------
(***************************************************************************)
(* Class GapDetector of src/recovery/gap_detector.{h,cpp}: per stock       *)
(* locate, the next sequence number expected.  Its state, expected_, is a  *)
(* function from the locates seen to that number; sequence numbers are     *)
(* 64-bit in the code and natural numbers here.                            *)
(***************************************************************************)
EXTENDS Integers

Assign(exp, loc, next) ==
  [l \in DOMAIN exp \cup {loc} |-> IF l = loc THEN next ELSE exp[l]]

NoStreams == [l \in {} |-> 0]

set_expected(exp, loc, next) == Assign(exp, loc, next)

\* 0 for a locate never seen
expected(exp, loc) == IF loc \in DOMAIN exp THEN exp[loc] ELSE 0

\* a detector that lets the message before the expected one in again
MutantLetsDuplicateIn(exp, loc, seq) ==
  LET verdict == CASE loc \notin DOMAIN exp -> "ok"
                   [] loc \in DOMAIN exp /\ seq \in {exp[loc] - 1, exp[loc]} -> "ok"
                   [] loc \in DOMAIN exp /\ seq < exp[loc] - 1 -> "stale"
                   [] loc \in DOMAIN exp /\ seq > exp[loc] -> "gap"
  IN  [verdict  |-> verdict,
       expected |-> IF verdict = "ok" THEN Assign(exp, loc, seq + 1) ELSE exp]

\* a detector for which a locate never seen expects number 0
MutantUnseenExpectsZero(exp, loc, seq) ==
  LET next == expected(exp, loc)
      verdict == CASE seq = next -> "ok"
                   [] seq < next -> "stale"
                   [] seq > next -> "gap"
  IN  [verdict  |-> verdict,
       expected |-> IF verdict = "ok" THEN Assign(exp, loc, seq + 1) ELSE exp]

\* The first message of a locate is taken as it comes, whatever its number.
\* A gap leaves the expected number alone: recovery has to move it.
observe(exp, loc, seq) ==
  LET verdict == CASE loc \notin DOMAIN exp -> "ok"
                   [] loc \in DOMAIN exp /\ seq = exp[loc] -> "ok"
                   [] loc \in DOMAIN exp /\ seq < exp[loc] -> "stale"
                   [] loc \in DOMAIN exp /\ seq > exp[loc] -> "gap"
  IN  [verdict  |-> verdict,
       expected |-> IF verdict = "ok" THEN Assign(exp, loc, seq + 1) ELSE exp]
=============================================================================
