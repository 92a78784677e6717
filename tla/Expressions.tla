----------------------------- MODULE Expressions -----------------------------
(***************************************************************************)
(* Util/data_structures: ParseExpression, which turns a formula into a     *)
(* tree of MathOperations, and GetExpressionString, which prints a tree.   *)
(* A formula is the sequence of its tokens after clean_input: operators,   *)
(* grouping symbols, function names (one token for the three spellings),   *)
(* variables and numbers.  A tree is a leaf (IDENTITY with its text) or an *)
(* operation on one or two trees.  Overlapping CASE arms are read in       *)
(* order, as the code's if-else chains.                                    *)
(***************************************************************************)
EXTENDS Integers, Sequences, SequencesExt

CONSTANTS
  VarNames,   \* var_names, in the set's order
  Numbers,    \* the tokens that Stod reads
  Trees,      \* the trees that are printed
  Formulas    \* the formulas that are parsed as they are

VARIABLES
  tree,      \* the tree to print, or NoTree
  formula,   \* the tokens, << >> until they are printed
  parsed     \* NotParsed, Failed, or the tree ParseExpression returned

Leaf(text) == [op |-> "IDENTITY", text |-> text, terms |-> << >>]
NotParsed == Leaf(<< "?" >>)
NoTree == Leaf(<< >>)
Failed == [op |-> "FAILED", text |-> << >>, terms |-> << >>]
\* A subterm that does not parse makes the whole expression fail.
Node(op, terms) ==
  IF \E i \in DOMAIN terms : terms[i] = Failed THEN Failed
  ELSE [op |-> op, text |-> << >>, terms |-> terms]

GroupingSymbols == {"(", "{", "[", "|"}
Closes(open) == CASE open = "(" -> ")" [] open = "{" -> "}" [] open = "[" -> "]" [] open = "|" -> "|"

Has(s, i, token) == i \in DOMAIN s /\ s[i] = token
Before(s, i) == SubSeq(s, 1, i - 1)
After(s, i) == SubSeq(s, i + 1, Len(s))
\* find() of any of the tokens: npos is one past the end.
Find(s, tokens) ==
  LET at == {i \in DOMAIN s : s[i] \in tokens}
  IN  IF at = {} THEN Len(s) + 1 ELSE CHOOSE i \in at : \A j \in at : i <= j

\* Mutant: the first closing symbol ends the group.
FirstClosingSymbol(s, i) ==
  LET ends == {j \in i + 1 .. Len(s) : s[j] = Closes(s[i])}
  IN  IF ends = {} THEN 0 ELSE CHOOSE j \in ends : \A k \in ends : j <= k
\* The position that closes the group s[i] opens, or 0.
GetClosingSymbol(s, i) ==
  LET close == Closes(s[i])
      count(j, token) == Len(SelectSeq(SubSeq(s, i, j), LAMBDA x : x = token))
      ends == {j \in i + 1 .. Len(s) :
                 IF s[i] = close THEN s[j] = close ELSE count(j, s[i]) = count(j, close)}
  IN  IF ends = {} THEN 0 ELSE CHOOSE j \in ends : \A k \in ends : j <= k

(* GetTerms: splits around the separators that are in no group; once stops *)
(* after the first.  A trailing separator adds no empty term, except once. *)
RECURSIVE GetTerms(_, _, _, _)
GetTerms(once, suffix, current, seps) ==
  LET split == Find(suffix, seps)
      group == Find(suffix, GroupingSymbols)
      closing == GetClosingSymbol(suffix, group)
      first == [text |-> current \o Before(suffix, split), sep |-> suffix[split]]
      rest == GetTerms(once, After(suffix, split), << >>, seps)
      last(text) == [ok |-> TRUE, terms |-> << [text |-> text, sep |-> ""] >>]
  IN  CASE suffix = << >> -> IF current = << >> THEN [ok |-> TRUE, terms |-> << >>] ELSE last(current)
        [] split > Len(suffix) -> last(current \o suffix)
        [] group < split ->
             IF closing = 0 THEN [ok |-> FALSE, terms |-> << >>]
             ELSE GetTerms(once, After(suffix, closing), current \o SubSeq(suffix, 1, closing), seps)
        [] once -> [ok |-> TRUE, terms |-> << first, [text |-> After(suffix, split), sep |-> ""] >>]
        [] OTHER -> [ok |-> rest.ok, terms |-> << first >> \o rest.terms]

\* A leading minus sign is not a separator.
GetAdditiveTerms(s) ==
  IF Has(s, 1, "-") THEN GetTerms(FALSE, Tail(s), << "-" >>, {"+", "-"})
  ELSE GetTerms(FALSE, s, << >>, {"+", "-"})
GetMultiplicativeTerms(s) == GetTerms(FALSE, s, << >>, {"*", "/"})
GetExponentTerms(s) == GetTerms(FALSE, s, << >>, {"^"})

(* GetComparisonTerms tries the operators in turn; the first one found     *)
(* outside the groups splits the formula.                                  *)
ComparisonTokens == << "==", "!=", ">=", "<=", ">", "<", "~=" >>
ComparisonOp(token) ==
  CASE token = "==" -> "EQ" [] token = "!=" -> "NEQ" [] token = ">=" -> "GTE" [] token = "<=" -> "LTE"
    [] token = ">" -> "GT" [] token = "<" -> "LT" [] token = "~=" -> "FLOAT_EQ"
RECURSIVE GetComparisonTerms(_, _)
GetComparisonTerms(s, k) ==
  LET split == GetTerms(TRUE, s, << >>, {ComparisonTokens[k]})
  IN  CASE ~split.ok \/ split.terms = << >> -> [ok |-> FALSE, terms |-> << >>]
        [] Len(split.terms) = 2 \/ k = Len(ComparisonTokens) -> split
        [] OTHER -> GetComparisonTerms(s, k + 1)

\* The first comma outside parentheses; without one the second term is empty.
RECURSIVE GetCommaTerms(_, _)
GetCommaTerms(s, first) ==
  LET comma == Find(s, {","})
      open == Find(s, {"("})
      closing == GetClosingSymbol(s, open)
  IN  CASE comma > Len(s) -> [ok |-> TRUE, one |-> first \o s, two |-> << >>]
        [] open < comma ->
             IF closing = 0 THEN [ok |-> FALSE, one |-> << >>, two |-> << >>]
             ELSE GetCommaTerms(After(s, closing), first \o SubSeq(s, 1, closing))
        [] OTHER -> [ok |-> TRUE, one |-> first \o Before(s, comma), two |-> After(s, comma)]

\* Strips while the ends are parentheses, whether or not they match.
RECURSIVE StripExtraneousParentheses(_)
StripExtraneousParentheses(s) ==
  IF Has(s, 1, "(") /\ Has(s, Len(s), ")") THEN StripExtraneousParentheses(SubSeq(s, 2, Len(s) - 1)) ELSE s

OneTerm == [log |-> "LOG", ln |-> "LOG", exp |-> "EXP", abs |-> "ABS", sqrt |-> "SQRT", sin |-> "SIN",
            cos |-> "COS", tan |-> "TAN", I |-> "INDICATOR", Phi |-> "PHI_FN", Gamma |-> "GAMMA_FN"]
TwoTerm == [IncGamma |-> "INC_GAMMA_FN", RegIncGamma |-> "REG_INC_GAMMA_FN", pow |-> "POW"]
IsCall(s, functions) == s # << >> /\ s[1] \in DOMAIN functions /\ Has(s, 2, "(")

-----------------------------------------------------------------------------
\* Mutant: the operations after a minus sign stay as they are written.
ChainOpAsWritten(terms, k, plain, direct, inverse) ==
  IF terms[k].sep = plain THEN direct ELSE inverse
(* The operation after the k-th term of a chain of sums (or products),    *)
(* which is nested to the right: an inverse operation flips the ones that  *)
(* follow it, and the next inverse operation flips them back.              *)
ChainOp(terms, k, plain, direct, inverse) ==
  LET flips == Cardinality({i \in 1 .. k - 1 : terms[i].sep # plain})
  IN  IF (terms[k].sep = plain) = (flips % 2 = 0) THEN direct ELSE inverse

RECURSIVE ParseExpression(_, _)
ParseChain(enforce, terms, plain, direct, inverse) ==
  LET build[k \in DOMAIN terms] ==
        IF k = Len(terms) THEN ParseExpression(enforce, terms[k].text)
        ELSE Node(ChainOp(terms, k, plain, direct, inverse),
                  << ParseExpression(enforce, terms[k].text), build[k + 1] >>)
  IN  build[1]
ParseBoth(enforce, op, a, b) == Node(op, << ParseExpression(enforce, a), ParseExpression(enforce, b) >>)

ParseComparison(enforce, s, split) ==
  LET op == ComparisonOp(split.terms[1].sep)
  IN  IF \E i \in 1 .. 2 : split.terms[i].text = << >> THEN Failed
      ELSE ParseBoth(enforce, op, split.terms[1].text, split.terms[2].text)

ParseCall(enforce, s) ==
  LET inner == SubSeq(s, 3, Len(s) - 1)
      comma == GetCommaTerms(StripExtraneousParentheses(inner), << >>)
  IN  CASE ~Has(s, Len(s), ")") -> Failed
        [] s[1] \in DOMAIN OneTerm -> Node(OneTerm[s[1]], << ParseExpression(enforce, inner) >>)
        [] ~comma.ok -> Failed
        [] OTHER -> ParseBoth(enforce, TwoTerm[s[1]], comma.one, comma.two)

ParseFactorial(enforce, s) ==
  LET n == Len(s)
  IN  CASE n < 2 -> Failed
        [] s[n - 1] = ")" -> IF s[1] # "(" THEN Failed
                             ELSE Node("FACTORIAL", << ParseExpression(enforce, SubSeq(s, 2, n - 2)) >>)
        [] OTHER -> Node("FACTORIAL", << ParseExpression(enforce, Before(s, n)) >>)

\* A variable, a coefficient and a variable, a number, or any text if names are not enforced.
ParseAtom(enforce, s) ==
  LET occurs == {i \in DOMAIN VarNames : Find(s, {VarNames[i]}) <= Len(s)}
      v == Find(s, {VarNames[CHOOSE i \in occurs : \A j \in occurs : i <= j]})
  IN  CASE \E i \in DOMAIN VarNames : s = << VarNames[i] >> -> Leaf(s)
        [] occurs # {} ->
             IF v = 2 /\ s[1] \in Numbers
             THEN ParseBoth(enforce, "MULT", << s[1] >>, After(s, 1)) ELSE Failed
        [] Len(s) = 1 /\ s[1] \in Numbers -> Leaf(s)
        [] OTHER -> IF enforce THEN Failed ELSE Leaf(s)

ParsePrimary(enforce, s) ==
  CASE Has(s, Len(s), "!") -> ParseFactorial(enforce, s)
    [] Has(s, 1, "(") -> IF Has(s, Len(s), ")") THEN ParseExpression(enforce, SubSeq(s, 2, Len(s) - 1))
                         ELSE Failed
    [] Has(s, 1, "-") -> Node("MULT", << Leaf(<< "-", "1" >>), ParseExpression(enforce, Tail(s)) >>)
    [] OTHER -> ParseAtom(enforce, s)

ParseExpression(enforce, s) ==
  LET sum == GetAdditiveTerms(s)
      product == GetMultiplicativeTerms(s)
      power == GetExponentTerms(s)
      comparison == GetComparisonTerms(s, 1)
  IN  CASE ~sum.ok -> Failed
        [] Len(sum.terms) > 1 -> ParseChain(enforce, sum.terms, "+", "ADD", "SUB")
        [] ~product.ok -> Failed
        [] Len(product.terms) > 1 -> ParseChain(enforce, product.terms, "*", "MULT", "DIV")
        [] ~power.ok \/ Len(power.terms) > 2 -> Failed
        [] Len(power.terms) = 2 -> ParseBoth(enforce, "POW", power.terms[1].text, power.terms[2].text)
        [] ~comparison.ok -> Failed
        [] Len(comparison.terms) = 2 -> ParseComparison(enforce, s, comparison)
        [] IsCall(s, OneTerm) \/ IsCall(s, TwoTerm) -> ParseCall(enforce, s)
        [] OTHER -> ParsePrimary(enforce, s)

-----------------------------------------------------------------------------
(* GetExpressionString.  NEQ and SQRT have no text, and neither the text   *)
(* of ABS (bars) nor that of MODULUS can be parsed back.                   *)

Infix == [ADD |-> "+", SUB |-> "-", MULT |-> "*", DIV |-> "/"]
Grouped == [POW |-> "^", EQ |-> "==", FLOAT_EQ |-> "~=", GT |-> ">", GTE |-> ">=", LT |-> "<",
            LTE |-> "<=", MODULUS |-> "%"]
NameOf == [TAN |-> "tan", SIN |-> "sin", COS |-> "cos", LOG |-> "log", EXP |-> "exp", GAMMA_FN |-> "Gamma",
           PHI_FN |-> "Phi", INDICATOR |-> "I", INC_GAMMA_FN |-> "IncGamma", REG_INC_GAMMA_FN |-> "RegIncGamma"]
RECURSIVE GetExpressionString(_)
GetExpressionString(e) ==
  LET text(i) == GetExpressionString(e.terms[i])
  IN  CASE e.op = "IDENTITY" -> e.text
        [] e.op \in DOMAIN Infix -> << "(" >> \o text(1) \o << Infix[e.op] >> \o text(2) \o << ")" >>
        [] e.op \in DOMAIN Grouped ->
             << "(" >> \o text(1) \o << ")", Grouped[e.op], "(" >> \o text(2) \o << ")" >>
        [] e.op = "FACTORIAL" -> << "(" >> \o text(1) \o << ")", "!" >>
        [] e.op = "ABS" -> << "|" >> \o text(1) \o << "|" >>
        [] e.op \in DOMAIN NameOf ->
             << NameOf[e.op], "(" >> \o text(1)
             \o (IF Len(e.terms) = 2 THEN << "," >> \o text(2) ELSE << >>) \o << ")" >>
        [] OTHER -> << "ERROR" >>

-----------------------------------------------------------------------------
ExpressionsInit ==
  /\ parsed = NotParsed
  /\ \/ tree \in Trees /\ formula = << >>
     \/ tree = NoTree /\ formula \in Formulas

Show ==
  /\ formula = << >> /\ tree # NoTree
  /\ formula' = GetExpressionString(tree)
  /\ UNCHANGED << tree, parsed >>
Read(enforce) ==
  /\ formula # << >> /\ parsed = NotParsed
  /\ parsed' = ParseExpression(enforce, formula)
  /\ UNCHANGED << tree, formula >>

ExpressionsNext == Show \/ \E enforce \in BOOLEAN : Read(enforce)

-----------------------------------------------------------------------------
(* Properties.                                                             *)

RECURSIVE Prints(_)
\* Does the text of e name every operation in a form that can be read?
Prints(e) ==
  \/ e.op = "IDENTITY" /\ e.text # << "-", "1" >>
  \/ /\ e.op \notin {"IDENTITY", "ABS", "NEQ", "SQRT", "MODULUS"}
     /\ \A i \in DOMAIN e.terms : Prints(e.terms[i])
     \* IncGamma((a),(b)): the parentheses that do not match are stripped.
     /\ Len(e.terms) = 2 /\ e.op \in DOMAIN NameOf =>
          ~(/\ GetExpressionString(e.terms[1])[1] = "("
            /\ Last(GetExpressionString(e.terms[2])) = ")")

(* What GetExpressionString prints, ParseExpression reads back as the same *)
(* tree: the parentheses printed around sums, powers and comparisons are   *)
(* the ones the splitting at separators outside groups needs.              *)
ParsesWhatItPrints ==
  tree # NoTree /\ parsed # NotParsed /\ Prints(tree) => parsed = tree

(* The value of a tree and of a formula in the integers modulo 7, where    *)
(* every division by a non-zero number is exact; a power stands for an     *)
(* arbitrary operation.  The value of a formula is the reference: of the   *)
(* operators outside parentheses the last one that binds least is applied  *)
(* last, and a sign or a number in front binds less than a power.          *)
Power(a, b) == (a * a + 3 * b + 1) % 7
Quotient(a, b) == (a * b * b * b * b * b) % 7
Combine(op, a, b) ==
  CASE op \in {"ADD", "+"} -> (a + b) % 7 [] op \in {"SUB", "-"} -> (a - b) % 7
    [] op \in {"MULT", "*"} -> (a * b) % 7 [] op \in {"DIV", "/"} -> Quotient(a, b)
    [] op \in {"POW", "^"} -> Power(a, b)
RECURSIVE ValueOf(_, _)
ValueOf(e, env) ==
  IF e.op = "IDENTITY" THEN IF e.text = << "-", "1" >> THEN 6 ELSE env[e.text[1]]
  ELSE Combine(e.op, ValueOf(e.terms[1], env), ValueOf(e.terms[2], env))

Outside(s, i) ==
  Len(SelectSeq(Before(s, i), LAMBDA x : x = "(")) = Len(SelectSeq(Before(s, i), LAMBDA x : x = ")"))
LastOutside(s, tokens) ==
  LET at == {i \in 2 .. Len(s) : s[i] \in tokens /\ Outside(s, i)}
  IN  IF at = {} THEN 0 ELSE Max(at)
RECURSIVE Denotes(_, _)
Denotes(s, env) ==
  LET sum == LastOutside(s, {"+", "-"})
      product == LastOutside(s, {"*", "/"})
      power == LastOutside(s, {"^"})
      at == IF sum # 0 THEN sum ELSE product
  IN  CASE at # 0 -> Combine(s[at], Denotes(Before(s, at), env), Denotes(After(s, at), env))
        [] s[1] = "-" -> (- Denotes(Tail(s), env)) % 7
        [] s[1] \in Numbers /\ Len(s) > 1 /\ s[2] # "^" -> (env[s[1]] * Denotes(Tail(s), env)) % 7
        [] power # 0 -> Combine("^", Denotes(Before(s, power), env), Denotes(After(s, power), env))
        [] s[1] = "(" -> Denotes(SubSeq(s, 2, Len(s) - 1), env)
        [] OTHER -> env[s[1]]
Environments ==
  {[t \in Numbers \cup Range(VarNames) |->
      CASE t = "1" -> 1 [] t = "2" -> 2 [] t = "3" -> 3 [] OTHER -> v[t]] :
     v \in [Range(VarNames) -> {3, 6}]}
ReadAsWritten == parsed # Failed /\ \A env \in Environments : ValueOf(parsed, env) = Denotes(formula, env)

\* The operators of a formula outside parentheses, without a leading sign.
Operators(s) ==
  LET at == {i \in 2 .. Len(s) : s[i] \in {"+", "-", "*", "/", "^"} /\ Outside(s, i)}
  IN  [k \in 1 .. Cardinality(at) |-> s[SetToSortSeq(at, <)[k]]]

(* Which chains of sums, and which of products, are read as they are       *)
(* written.  ParseExpression nests a chain to the right and keeps one flag *)
(* that flips every operation after a minus (or a division) until the      *)
(* next: that undoes the nesting for the last two operators only, so that  *)
(* a chain is read right exactly when every operator before these is a     *)
(* plain one; a-b-c-d is read as a-(b+(c-d)).                              *)
ChainsReadRightIfInverseLast ==
  tree = NoTree /\ parsed # NotParsed =>
    LET ops == Operators(formula)
    IN  ToSet(ops) \subseteq {"+", "-"} \/ ToSet(ops) \subseteq {"*", "/"} =>
          (ReadAsWritten <=> \A k \in 1 .. Len(ops) - 2 : ops[k] \in {"+", "*"})

(* The example above Expression reads 2x^2 as 2 times x^2, and 2x^2 + 3x   *)
(* as their sum.  ParseExpression breaks this: it splits at ^ before it    *)
(* looks for a coefficient, and reads (2x)^2.                              *)
FormulasMeanWhatTheySay ==
  tree = NoTree /\ parsed # NotParsed => ReadAsWritten
=============================================================================
