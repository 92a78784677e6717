---------------------------- MODULE MCAlgorithms ----------------------------
(***************************************************************************)
(* The computations, one at a time: the arithmetic and the representations *)
(* of GenericValue, the parsing of formulas, the packing of a regression   *)
(* row, and the sharing of lists.  Integers of 2, 3, 5, 10, 15 and 20 bits *)
(* stand for those of 2, 4, 8, 16, 32 and 64, bytes have 5 bits: TLC's own *)
(* integers hold every product below the widest.                           *)
(***************************************************************************)
EXTENDS GenericValues, Expressions, RegressionPayload, ListSharing

VARIABLE subject   \* the computation that runs

MCWidth == [n \in {2, 4, 8, 16, 32, 64} |->
  CASE n = 2 -> 2 [] n = 4 -> 3 [] n = 8 -> 5 [] n = 16 -> 10 [] n = 32 -> 15 [] n = 64 -> 20]
MCCapacity ==
  [t \in StringTypes |->
     CASE t = "STRING8" -> 1 [] t = "STRING16" -> 2 [] t = "STRING24" -> 3
       [] t = "STRING32" -> 4 [] t = "STRING64" -> 5 [] t = "STRING128" -> 6]
Edges(t) ==
  {Value(t, x) : x \in {MinOf(t), MinOf(t) + 1, -1, 0, 1, 3, MaxOf(t) - 1, MaxOf(t)}
                         \cap (MinOf(t) .. MaxOf(t))}
MCSample ==
  UNION {Edges(t) : t \in SignedTypes \cup UnsignedTypes}
  \cup {Value("STRING8", << 7 >>), Value("STRING16", << 1, 30 >>), Value("STRING24", << 9 >>)}
  \cup {Value("DOUBLE", x) : x \in {-3, 2}}
  \cup {Value("VECTOR", << Value("INT8", 5), Flag(TRUE) >>),
        Value("VECTOR", << Value("INT8", -2), Flag(FALSE), Flag(TRUE) >>),
        Value("VECTOR", << Value("INT8", 3) >>)}

Unary == {"LOG", "EXP", "FACTORIAL", "GAMMA_FN", "PHI_FN", "SIN", "COS", "TAN", "INDICATOR", "ABS", "SQRT"}
Binary == {"ADD", "SUB", "MULT", "DIV", "POW", "EQ", "FLOAT_EQ", "GT", "GTE", "LT", "LTE", "NEQ",
           "INC_GAMMA_FN", "REG_INC_GAMMA_FN"}
Grow(S, T) ==
  {Node(op, << a >>) : op \in Unary, a \in S} \cup {Node(op, << a, b >>) : op \in Binary, a \in S, b \in T}
Small == Grow({Leaf(<< "x" >>)}, {Leaf(<< "2" >>)})
MCTrees == {Leaf(<< "x" >>), Leaf(<< "2" >>)} \cup Small \cup Grow(Small, Small)
MCVarNames == << "u", "v", "w", "x", "y", "z" >>

\* Chains of up to five terms, with and without a sign in front; terms with a
\* coefficient, with parentheses, and without.
Terms == << << "u" >>, << "2", "v" >>, << "(", "w", "-", "x", ")" >>, << "y" >>, << "z" >> >>
Chain(sign, infixes) ==
  sign \o Terms[1] \o FlattenSeq([k \in DOMAIN infixes |-> << infixes[k] >> \o Terms[k + 1]])
MCFormulas ==
  {Chain(sign, infixes) : sign \in {<< >>, << "-" >>},
     infixes \in UNION {[1 .. n -> kind] : n \in 0 .. 4, kind \in {{"+", "-"}, {"*", "/"}}}}
\* Expressions D and B of the example above the class.
DocumentedFormulas ==
  {<< "2", "x", "^", "2" >>, << "2", "x", "^", "2", "+", "3", "x" >>}

\* Two dataowners of the data vertical around one of the other; a file that is too
\* short and one that is too long for the list; startModulus above keyModulus.
MCOwners == << "a1", "b1", "a2" >>
MCVerticalOf == [p \in Range(MCOwners) |-> IF p = "b1" THEN 0 ELSE 1]
FileRow(key, value) == [key |-> key, value |-> value]
MCFiles == {<< FileRow(4, 3) >>, << FileRow(1, 6), FileRow(2, 2), FileRow(3, 1) >>}
MCDraw(s, n) == s * n * n + n + s

IdleValues == one = Flag(FALSE) /\ two = Flag(TRUE) /\ errno = FALSE /\ out = Nothing
IdleExpressions == tree = NoTree /\ formula = << >> /\ parsed = NotParsed
IdleLists ==
  /\ query = "none" /\ seed = << >> /\ file = << >> /\ ownList = << >> /\ sharedLists = << >>
  /\ sharesAwaited = << >> /\ shares = {} /\ sorts = [p \in OwnerSet |-> {}]
IdlePayload ==
  /\ d_1 = 0 /\ d_2 = 0 /\ vec1 = <<>> /\ vec2 = <<>>
  /\ multiplyResults = <<>> /\ output = <<>> /\ stage = "packing"

AlgorithmsInit ==
  \/ subject = "values" /\ ValuesInit /\ IdleExpressions /\ IdlePayload /\ IdleLists
  \/ subject = "formulas" /\ ExpressionsInit /\ IdleValues /\ IdlePayload /\ IdleLists
  \/ subject = "payload" /\ PayloadInit /\ IdleValues /\ IdleExpressions /\ IdleLists
  \/ subject = "lists" /\ SharingInit /\ IdleValues /\ IdleExpressions /\ IdlePayload
formulaVars == << tree, formula, parsed >>
AlgorithmsNext ==
  /\ UNCHANGED subject
  /\ \/ subject = "values" /\ ValuesNext /\ UNCHANGED << formulaVars, payloadVars, sharingVars >>
     \/ subject = "formulas" /\ ExpressionsNext /\ UNCHANGED << valueVars, payloadVars, sharingVars >>
     \/ subject = "payload" /\ PayloadNext /\ UNCHANGED << valueVars, formulaVars, sharingVars >>
     \/ subject = "lists" /\ SharingNext /\ UNCHANGED << valueVars, formulaVars, payloadVars >>
AlgorithmsSpec ==
  AlgorithmsInit /\ [][AlgorithmsNext]_<< subject, valueVars, formulaVars, payloadVars, sharingVars >>
=============================================================================
