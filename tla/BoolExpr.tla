------------------------------ MODULE BoolExpr ------------------------------
(***************************************************************************)
(* app/boolexpr.py: an ST expression is parsed, its negations are pushed to *)
(* the leaves, and the result is multiplied out to a sum of products, the   *)
(* form conditions have in the other modules.                               *)
(*                                                                         *)
(* An expression is the sequence of its nodes in the order in which they    *)
(* can be made: a node refers to its operands, which stand before it, by    *)
(* their positions, and the last one is the whole expression.  Tokens are   *)
(* what _tokenize makes of the text; keywords are upper case.               *)
(***************************************************************************)
EXTENDS Integers, Sequences, FiniteSets

CONSTANTS Trees,        \* the expressions meant
          Texts,        \* further token sequences, well formed or not
          Idents,       \* identifiers
          Members,      \* those with a dot in them (T1.Q)
          NumberOf,     \* numeral token -> number
          Worlds,       \* [on |-> names that are TRUE, level |-> analog values]
          MaxTerms,     \* _MAX_DNF_TERMS
          Raised        \* stands for the node, or the terms, when a ValueError is raised

VARIABLES tree,         \* the expression meant, or Raised when only a text is given
          text,         \* its tokens
          node,         \* what parse and _to_nnf have made of them so far
          terms,        \* to_dnf
          stage         \* "text", "parsed", "nnf", "dnf"

vars == <<tree, text, node, terms, stage>>

CmpOps == {"<", ">", "<=", ">=", "=", "<>"}
Keywords == {"NOT", "AND", "OR", "TRUE", "FALSE"}
Tokens == Idents \cup Keywords \cup CmpOps \cup {"(", ")"} \cup DOMAIN NumberOf

Var(n) == [kind |-> "var", name |-> n]
Const(b) == [kind |-> "const", value |-> b]
Neg(x) == [kind |-> "not", of |-> x]
Nary(kind, xs) == [kind |-> kind, of |-> xs]
Cmp(v, op, n) == [kind |-> "cmp", name |-> v, op |-> op, number |-> n]

Nodes ==
  [kind: {"var"}, name: Tokens] \cup [kind: {"const"}, value: BOOLEAN]
    \cup [kind: {"cmp"}, name: Tokens, op: CmpOps, number: Int]
    \cup [kind: {"not"}, of: Nat] \cup [kind: {"and", "or"}, of: Seq(Nat)]

IsNary(n) == n.kind \in {"and", "or"}
Operands(n) ==
  CASE n.kind = "not" -> {n.of}
    [] IsNary(n)      -> {n.of[i] : i \in DOMAIN n.of}
    [] OTHER          -> {}

(* Mutation: the opposite of < is >. *)
CmpNegStrict == [o \in CmpOps |->
  CASE o = "<" -> ">" [] o = ">" -> "<" [] o = "<=" -> ">=" [] o = ">=" -> "<="
    [] o = "=" -> "<>" [] OTHER -> "="]

CmpNeg == [o \in CmpOps |->
  CASE o = "<" -> ">=" [] o = ">" -> "<=" [] o = "<=" -> ">" [] o = ">=" -> "<"
    [] o = "=" -> "<>" [] OTHER -> "="]

Mirror == [o \in CmpOps |->
  CASE o = "<" -> ">" [] o = ">" -> "<" [] o = "<=" -> ">=" [] o = ">=" -> "<=" [] OTHER -> o]

-----------------------------------------------------------------------------
(* The parser.  What parse_not (level 1), parse_and (2) and parse_or (3) make of the tokens    *)
(* from position i on depends on nothing else; node Ref(level, i) is what they return there.   *)
Ref(toks, level, i) == 3 * (Len(toks) - i) + level

(* The node, the operands it lists, and the position of the next token. *)
Result(n, list, i) == [node |-> n, list |-> list, next |-> i]
Fail == Result(Raised, <<>>, 0)

Peek(toks, i) == IF i \in 1..Len(toks) THEN toks[i] ELSE Raised
Made(toks, level, i, made) == IF i \in 1..Len(toks) THEN made[Ref(toks, level, i)] ELSE Fail

IsNumber(tok) == tok \in DOMAIN NumberOf
IsName(tok) == tok \in (Idents \ Members) \cup Keywords

(* a comparison whose left side is at i and operator at i + 1 *)
ParseCmp(toks, i) ==
  LET left == toks[i] op == toks[i + 1] right == Peek(toks, i + 2)
  IN  CASE IsNumber(left) /\ IsName(right) -> Result(Cmp(right, Mirror[op], NumberOf[left]), <<>>, i + 3)
        [] ~IsNumber(left) /\ IsNumber(right) -> Result(Cmp(left, op, NumberOf[right]), <<>>, i + 3)
        [] OTHER -> Fail

ParseNotOf(toks, i, made) ==
  LET inner == Made(toks, 1, i + 1, made)
  IN  IF inner.node = Raised THEN Fail ELSE Result(Neg(Ref(toks, 1, i + 1)), <<>>, inner.next)

ParseGroup(toks, i, made) ==
  LET inner == Made(toks, 3, i + 1, made)
  IN  IF inner.node = Raised \/ Peek(toks, inner.next) # ")" THEN Fail
      ELSE Result(inner.node, <<>>, inner.next + 1)

(* an operand is any token that is left: the parser does not look for keywords here *)
ParseNot(toks, i, made) ==
  CASE toks[i] = "NOT"   -> ParseNotOf(toks, i, made)
    [] toks[i] = "("     -> ParseGroup(toks, i, made)
    [] toks[i] = "TRUE"  -> Result(Const(TRUE), <<>>, i + 1)
    [] toks[i] = "FALSE" -> Result(Const(FALSE), <<>>, i + 1)
    [] OTHER             -> IF Peek(toks, i + 1) \in CmpOps THEN ParseCmp(toks, i)
                            ELSE IF IsNumber(toks[i]) THEN Fail
                            ELSE Result(Var(toks[i]), <<>>, i + 1)

(* parse_and and parse_or: an operand of the level below and, after the word, those that follow *)
ParseList(toks, level, i, made) ==
  LET first == Ref(toks, level - 1, i)
      one == made[first]
      word == IF level = 2 THEN "AND" ELSE "OR"
      more == Made(toks, level, one.next + 1, made)
      list == <<first>> \o more.list
  IN  IF one.node = Raised THEN Fail
      ELSE IF Peek(toks, one.next) # word THEN Result(one.node, <<first>>, one.next)
      ELSE IF more.node = Raised THEN Fail
      ELSE Result(Nary(IF level = 2 THEN "and" ELSE "or", list), list, more.next)

ParseAt(toks, level, i, made) ==
  IF level = 1 THEN ParseNot(toks, i, made) ELSE ParseList(toks, level, i, made)

Parsed(toks) ==
  LET made[k \in 0..3 * Len(toks)] ==
        LET before == made[k - 1]
        IN  IF k = 0 THEN <<>>
            ELSE Append(before, ParseAt(toks, ((k - 1) % 3) + 1, Len(toks) - ((k - 1) \div 3), before))
  IN  made[3 * Len(toks)]

Parse(toks) ==
  LET all == Parsed(toks)
      root == all[Len(all)]
  IN  IF all = <<>> THEN Raised
      ELSE IF root.node = Raised \/ root.next # Len(toks) + 1 THEN Raised
      ELSE [k \in 1..Len(all) |-> all[k].node]

-----------------------------------------------------------------------------
(* _to_nnf: of each node what it becomes, and what it becomes negated. *)
As(k, negate) == IF negate THEN 2 * k ELSE 2 * k - 1

NnfNode(n, k, negate, done) ==
  CASE n.kind = "var"   -> IF negate THEN Neg(As(k, FALSE)) ELSE n
    [] n.kind = "const" -> Const(n.value # negate)
    [] n.kind = "not"   -> done[As(n.of, ~negate)]
    [] n.kind = "cmp"   -> IF negate THEN [n EXCEPT !.op = CmpNeg[@]] ELSE n
    [] OTHER            -> Nary(IF (n.kind = "and") # negate THEN "and" ELSE "or",
                                [i \in DOMAIN n.of |-> As(n.of[i], negate)])

ToNnf(e) ==
  LET done[m \in 1..2 * Len(e) - 1] ==
        LET k == (m + 1) \div 2
        IN  IF e[k] = Raised THEN Raised ELSE NnfNode(e[k], k, m % 2 = 0, done)
  IN  done

Literal(n, neg) == [name |-> n, neg |-> neg]
CmpName(n) == <<n.name, n.op, n.number>>

(* dist: the products of a node.  The code has them in a list until the end; the guard counts *)
(* that list, duplicates included.                                                            *)
Products(ts, count) == [terms |-> ts, count |-> count]
One(x) == Products({{x}}, 1)
Nothing == Products({}, 0)
Everything == Products({{}}, 1)

Added(a, b) ==
  IF a = Raised \/ b = Raised THEN Raised
  ELSE Products(a.terms \cup b.terms, a.count + b.count)

(* no operand is looked at after the product is empty, none may make it too large *)
Multiplied(a, b) ==
  IF a = Raised THEN Raised
  ELSE IF a.count = 0 THEN a
  ELSE IF b = Raised THEN Raised
  ELSE IF a.count * b.count > MaxTerms THEN Raised
  ELSE Products({s \cup t : s \in a.terms, t \in b.terms}, a.count * b.count)

Combined(kind, parts) ==
  LET acc[i \in 0..Len(parts)] ==
        IF i = 0 THEN IF kind = "or" THEN Nothing ELSE Everything
        ELSE IF kind = "or" THEN Added(acc[i - 1], parts[i])
        ELSE Multiplied(acc[i - 1], parts[i])
  IN  acc[Len(parts)]

DistNode(e, n, done) ==
  CASE n.kind = "var"   -> One(Literal(<<n.name>>, FALSE))
    [] n.kind = "not"   -> One(Literal(<<e[n.of].name>>, TRUE))
    [] n.kind = "const" -> IF n.value THEN Everything ELSE Nothing
    [] n.kind = "cmp"   -> One(Literal(CmpName(n), FALSE))
    [] OTHER            -> Combined(n.kind, [i \in DOMAIN n.of |-> done[n.of[i]]])

Dist(e) ==
  LET done[k \in 1..Len(e)] == IF e[k] = Raised THEN Raised ELSE DistNode(e, e[k], done)
  IN  done[Len(e)]

Contradictory(term) == \E x \in term : Literal(x.name, ~x.neg) \in term

ToDnf(e) ==
  LET raw == Dist(e)
  IN  IF raw = Raised THEN Raised ELSE {t \in raw.terms : ~Contradictory(t)}

-----------------------------------------------------------------------------
(* The text of an expression, with the parentheses the priorities need: a product needs none   *)
(* below an OR.  What the generators and recipes write is a text of this kind.                 *)
Numeral(k) == CHOOSE s \in DOMAIN NumberOf : NumberOf[s] = k
Within(n, t) == IF IsNary(n) THEN <<"(">> \o t \o <<")">> ELSE t
Operand(n, x, t) == IF n.kind = "or" /\ x.kind = "and" THEN t ELSE Within(x, t)

Joined(word, parts) ==
  LET joined[j \in 1..Len(parts)] ==  \* the last j
        LET part == parts[Len(parts) + 1 - j]
        IN  IF j = 1 THEN part ELSE part \o <<word>> \o joined[j - 1]
  IN  joined[Len(parts)]

UnparseNode(e, n, done) ==
  CASE n.kind = "var"   -> <<n.name>>
    [] n.kind = "const" -> IF n.value THEN <<"TRUE">> ELSE <<"FALSE">>
    [] n.kind = "cmp"   -> <<n.name, n.op, Numeral(n.number)>>
    [] n.kind = "not"   -> <<"NOT">> \o Within(e[n.of], done[n.of])
    [] OTHER            -> Joined(IF n.kind = "and" THEN "AND" ELSE "OR",
                                  [i \in DOMAIN n.of |-> Operand(n, e[n.of[i]], done[n.of[i]])])

Unparse(e) ==
  LET done[k \in 1..Len(e)] == UnparseNode(e, e[k], done)
  IN  done[Len(e)]

-----------------------------------------------------------------------------
(* Expressions that can be written: names are identifiers, numbers have numerals. *)
Writable(n) ==
  /\ n \in Nodes
  /\ n.kind \in {"var", "cmp"} => n.name \in Idents
  /\ n.kind = "cmp" => \E s \in DOMAIN NumberOf : NumberOf[s] = n.number
  /\ IsNary(n) => n.of # <<>>

ExprAssumption ==
  /\ Idents \cap (Keywords \cup CmpOps \cup {"(", ")"} \cup DOMAIN NumberOf) = {}
  /\ (Keywords \cup CmpOps \cup {"(", ")"}) \cap DOMAIN NumberOf = {}
  /\ \A s \in DOMAIN NumberOf : NumberOf[s] \in Int
  /\ MaxTerms \in Nat
  /\ Texts \subseteq Seq(Tokens)
  /\ \A e \in Trees : /\ e \in Seq(Nodes) /\ e # <<>>
                      /\ \A k \in DOMAIN e : Writable(e[k]) /\ Operands(e[k]) \subseteq 1..k-1
  /\ \A w \in Worlds : w.on \subseteq Tokens /\ w.level \in [Tokens -> Int]
  /\ Raised \notin Tokens \cup Nodes \cup Seq(Nodes \cup {Raised})

ASSUME ExprAssumption

Init ==
  /\ stage = "text" /\ node = Raised /\ terms = {}
  /\ \/ tree \in Trees /\ text = Unparse(tree)
     \/ tree = Raised /\ text \in Texts

ParseText ==
  /\ stage = "text"
  /\ node' = Parse(text) /\ stage' = "parsed"
  /\ UNCHANGED <<tree, text, terms>>

Normalise ==
  /\ stage = "parsed" /\ node # Raised
  /\ node' = ToNnf(node) /\ stage' = "nnf"
  /\ UNCHANGED <<tree, text, terms>>

MultiplyOut ==
  /\ stage = "nnf"
  /\ terms' = ToDnf(node) /\ stage' = "dnf"
  /\ UNCHANGED <<tree, text, node>>

Next == ParseText \/ Normalise \/ MultiplyOut
Spec == Init /\ [][Next]_vars

-----------------------------------------------------------------------------
(* The value of an expression in a world; the parser leaves no node where it raised. *)
Compare(l, op, r) ==
  \/ op = "<" /\ l < r
  \/ op = ">" /\ l > r
  \/ op = "<=" /\ l <= r
  \/ op = ">=" /\ l >= r
  \/ op = "=" /\ l = r
  \/ op = "<>" /\ l # r

NodeTrue(n, value, w) ==
  \/ n.kind = "var" /\ n.name \in w.on
  \/ n.kind = "const" /\ n.value
  \/ n.kind = "cmp" /\ Compare(w.level[n.name], n.op, n.number)
  \/ n.kind = "not" /\ ~value[n.of]
  \/ n.kind = "and" /\ \A i \in DOMAIN n.of : value[n.of[i]]
  \/ n.kind = "or" /\ \E i \in DOMAIN n.of : value[n.of[i]]

True(e, w) ==
  LET value[k \in 1..Len(e)] == e[k] # Raised /\ NodeTrue(e[k], value, w)
  IN  value[Len(e)]

LiteralTrue(x, w) ==
  IF Len(x.name) = 1 THEN (x.name[1] \in w.on) # x.neg
  ELSE Compare(w.level[x.name[1]], x.name[2], x.name[3]) # x.neg

DnfTrue(ts, w) == \E t \in ts : \A x \in t : LiteralTrue(x, w)

(* Precedence and grouping: the text of an expression is parsed to an expression of the same   *)
(* value in every world.                                                                       *)
ParsedMeansTheSame ==
  stage = "parsed" /\ tree # Raised =>
    node # Raised /\ \A w \in Worlds : True(node, w) <=> True(tree, w)

(* So is the negation normal form of whatever was parsed.                                      *)
NormalFormMeansTheSame ==
  stage = "nnf" =>
    LET parsed == Parse(text)
    IN  \A w \in Worlds : True(node, w) <=> True(parsed, w)

(* The sum of products has the value of the text that was parsed, contradictions and constants *)
(* included, unless the guard against too many products raised.                                *)
DnfMeansTheSame ==
  stage = "dnf" /\ terms # Raised =>
    LET parsed == Parse(text)
    IN  \A w \in Worlds : DnfTrue(terms, w) <=> True(parsed, w)

(* What the ladder draws of it: no rung has a contact together with its opposite, and a        *)
(* comparison contact is never negated (boolexpr.py:201), because the emitters have no         *)
(* instruction for one.                                                                        *)
ProductsCanBeDrawn ==
  stage = "dnf" /\ terms # Raised =>
    \A t \in terms : \A x \in t :
      Literal(x.name, ~x.neg) \notin t /\ (Len(x.name) = 3 => ~x.neg)

(* A condition means the same in every form it takes on its way to the ladder: text, tree,     *)
(* negation normal form and products, which the ladder can draw.                               *)
FormsKeepTheMeaning ==
  ParsedMeansTheSame /\ NormalFormMeansTheSame /\ DnfMeansTheSame /\ ProductsCanBeDrawn
=============================================================================
