---------------------------- MODULE StopConditions ---------------------------
(***************************************************************************)
(* Util/socket: how a Socket evaluates the tree of its                     *)
(* StopListeningCondition, the KeepListening of Socket.                    *)
(***************************************************************************)
EXTENDS Socket

\* ShouldKeepListening: the answer and *return_code, to which the leaves add.
RECURSIVE ShouldKeepListening(_, _, _, _)
ShouldKeepListening(s, aborted, condition, codes) ==
  IF aborted # {} THEN [keep |-> FALSE, codes |-> aborted]
  ELSE IF condition.op = "NONE" THEN [keep |-> TRUE, codes |-> codes]
  ELSE IF condition.op = "IDENTITY" THEN LeafKeeps(s, condition.limits, codes)
  ELSE LET first == ShouldKeepListening(s, aborted, condition.left, codes)
           second == ShouldKeepListening(s, aborted, condition.right, first.codes)
       IN  CASE condition.op = "NOT" -> [first EXCEPT !.keep = ~first.keep]
             [] condition.op = "AND" -> IF first.keep THEN first ELSE second
             [] condition.op = "OR"  -> IF first.keep THEN second ELSE first
             [] condition.op = "XOR" -> [second EXCEPT !.keep = first.keep # second.keep]

-----------------------------------------------------------------------------
\* A leaf's limit as the header states it: a counter meets its limit, the number
\* of connections "at any time", and a limit of no connections is met when there
\* are none (leaf D of the example).
Meets(counter, limit) ==
  CASE counter = "current" /\ limit = 0 -> stats["current"] = 0
    [] counter = "current" /\ limit # 0 -> stats["current"] >= limit \/ stats["peak"] >= limit
    [] OTHER -> stats[counter] >= limit

\* The formula a condition stands for.
RECURSIVE Holds(_)
Holds(condition) ==
  CASE condition.op = "NONE" -> FALSE
    [] condition.op = "IDENTITY" ->
         \E c \in DOMAIN condition.limits : Meets(c, condition.limits[c])
    [] condition.op = "NOT" -> ~Holds(condition.left)
    [] condition.op = "AND" -> Holds(condition.left) /\ Holds(condition.right)
    [] condition.op = "OR"  -> Holds(condition.left) \/ Holds(condition.right)
    [] condition.op = "XOR" -> Holds(condition.left) # Holds(condition.right)

\* Conditions "may be chained together to form arbitrary expressions" (the
\* comment above StopListeningCondition): unless a handler has asked for it,
\* ThreadListen's loop ends exactly when its condition holds.
\* ShouldKeepListening breaks this: it answers keep, not stop, and dualises AND
\* and OR but not XOR, and it compares the number of connections with >=, so
\* that the limit of none is always reached.
StopsOnItsCondition ==
  pc = "select" /\ abort = {} =>
    (Keeps.keep <=> ~Holds(IF "USE_STOP_CONDITION" \in params.now.type
                           THEN params.now.stop ELSE DefaultCondition))
==============================================================================
