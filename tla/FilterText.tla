----------------------------- MODULE FilterText -----------------------------
(***************************************************************************)
(* The filter of the log explorer, as an expression, as the text that      *)
(* stands for it in the URL and in the query bar, and as the small form    *)
(* that builds one term of it (lib/filter-text.ts, filter-actions.ts and   *)
(* features/explorer/filter-builder-logic.ts).                             *)
(*                                                                         *)
(* A text is the sequence of its tokens.  What lies below that, the        *)
(* characters of a word and the escapes inside quotes, is left out: a      *)
(* value that cannot stand bare is a member of Unsafe.                     *)
(***************************************************************************)
EXTENDS Naturals, Sequences, SequencesExt

CONSTANTS
    Samples,          \* the kinds of logs: functions from a field to its value, "" if it has none
    Matching(_, _),   \* the values of a field that the store finds for an operator and a value
    Unsafe,           \* values that BARE_RE refuses
    Numbers,          \* values that are numbers
    BadRegexes,       \* values that RegExp refuses
    CIDRs             \* values of the shape of an address with a prefix length

\* Expressions; Everything is null, the filter that was never given.
Everything == [op |-> "none"]
Term(op, f, v) == [op |-> op, field |-> f, value |-> v]
Listed(op, f, vs) == [op |-> op, field |-> f, values |-> vs]
Present(op, f) == [op |-> op, field |-> f]
FreeText(v) == [op |-> "text", value |-> v]
Not(e) == [op |-> "not", arg |-> e]
Joined(op, es) == [op |-> op, args |-> es]

\* Tokens.
Bare(v) == [kind |-> "bare", value |-> v]
Quoted(v) == [kind |-> "quoted", value |-> v]
Op(v) == [kind |-> "op", value |-> v]
Mark(k) == [kind |-> k, value |-> k]

KEYWORDS == {"and", "or", "not", "in", "cidr"}
AST_TO_OP == [eq |-> "=", ne |-> "!=", contains |-> "~", starts_with |-> "^=", regex |-> "=~",
              gt |-> ">", gte |-> ">=", lt |-> "<", lte |-> "<="]
VALUE_OPS == DOMAIN AST_TO_OP
COMPARISONS == {"gt", "gte", "lt", "lte"}
MATCH_OPS == COMPARISONS \cup {"contains", "starts_with", "regex", "cidr"}

-----------------------------------------------------------------------------
(***************************************************************************)
(* What a filter selects: the storage backend, over the kinds of logs.     *)
(***************************************************************************)

RECURSIVE Selects(_, _)
Selects(e, s) ==
    CASE e.op = "none"        -> TRUE
      [] e.op = "eq"          -> s[e.field] = e.value
      [] e.op = "ne"          -> s[e.field] # e.value
      [] e.op = "in"          -> s[e.field] \in ToSet(e.values)
      [] e.op = "not_in"      -> s[e.field] \notin ToSet(e.values)
      [] e.op = "exists"      -> s[e.field] # ""
      [] e.op = "not_exists"  -> s[e.field] = ""
      [] e.op \in MATCH_OPS  -> s[e.field] \in Matching(e.op, e.value)
      [] e.op = "text"        -> s["message"] = e.value
      [] e.op = "not"         -> ~Selects(e.arg, s)
      [] e.op = "and"         -> \A i \in DOMAIN e.args : Selects(e.args[i], s)
      [] e.op = "or"          -> \E i \in DOMAIN e.args : Selects(e.args[i], s)

Meaning(e) == {s \in Samples : Selects(e, s)}

-----------------------------------------------------------------------------
(***************************************************************************)
(* Expressions.                                                            *)
(***************************************************************************)

Flatten(op, es) ==
    Joined(op, FoldLeft(LAMBDA out, e : IF e.op = op THEN out \o e.args ELSE Append(out, e), <<>>, es))

AndTerms(e) == IF e = Everything THEN <<>> ELSE IF e.op = "and" THEN e.args ELSE <<e>>

CombineAnd(terms) == CASE terms = <<>> -> Everything
                       [] Len(terms) = 1 -> terms[1]
                       [] OTHER -> Flatten("and", terms)

Opposite == [eq |-> "ne", ne |-> "eq", in |-> "not_in", not_in |-> "in",
             exists |-> "not_exists", not_exists |-> "exists"]

Negate(e) == IF e.op = "not" THEN e.arg
             ELSE IF e.op \in DOMAIN Opposite THEN [e EXCEPT !.op = Opposite[e.op]]
             ELSE Not(e)

\* addValueFilter: a term that already speaks of this value is replaced.
AddValueFilter(e, f, v, exclude) ==
    CombineAnd(Append(SelectSeq(AndTerms(e), LAMBDA t : t \notin {Term("eq", f, v), Term("ne", f, v)}),
                      Term(IF exclude THEN "ne" ELSE "eq", f, v)))

-----------------------------------------------------------------------------
(***************************************************************************)
(* From an expression to its text.  Precedence in halves: an argument of   *)
(* OR is asked for at 1.5, of AND at 2.5, of NOT at 3.                     *)
(***************************************************************************)

Quote(v) == IF v = "" \/ v \in Unsafe \/ v \in KEYWORDS THEN Quoted(v) ELSE Bare(v)

Between(parts, sep) ==
    FoldLeft(LAMBDA out, p : IF out = <<>> THEN p ELSE out \o sep \o p, <<>>, parts)

ParenthesizeNever(tokens, prec, outer) ==        \* mutant: precedence is forgotten
    tokens

Parenthesize(tokens, prec, outer) ==
    IF prec < outer THEN <<Mark("lparen")>> \o tokens \o <<Mark("rparen")>> ELSE tokens

RECURSIVE Fmt(_, _)
Fmt(e, outer) ==
    CASE e.op \in {"or", "and"} ->
            LET prec == IF e.op = "or" THEN 2 ELSE 4
            IN  Parenthesize(Between([i \in DOMAIN e.args |-> Fmt(e.args[i], prec + 1)], <<Bare(e.op)>>),
                             prec, outer)
      [] e.op = "not" -> <<Bare("not")>> \o Fmt(e.arg, 6)
      [] e.op = "text" -> <<Quoted(e.value)>>
      [] e.op = "exists" -> <<Quote(e.field), Mark("exists")>>
      [] e.op = "not_exists" -> <<Mark("bang"), Quote(e.field), Mark("exists")>>
      [] e.op \in {"in", "not_in"} ->
            <<Quote(e.field)>> \o (IF e.op = "in" THEN <<Bare("in")>> ELSE <<Bare("not"), Bare("in")>>)
            \o <<Mark("lparen")>>
            \o Between([i \in DOMAIN e.values |-> <<Quote(e.values[i])>>], <<Mark("comma")>>)
            \o <<Mark("rparen")>>
      [] e.op = "cidr" -> <<Quote(e.field), Bare("cidr"), Quote(e.value)>>
      [] e.op = "regex" -> <<Quote(e.field), Op(AST_TO_OP[e.op]), Quoted(e.value)>>
      [] e.op \in VALUE_OPS \ {"regex"} -> <<Quote(e.field), Op(AST_TO_OP[e.op]), Quote(e.value)>>

FormatFilter(e) == IF e = Everything THEN <<>> ELSE Fmt(e, 0)

-----------------------------------------------------------------------------
(***************************************************************************)
(* From a text to its expression: the Parser.  A result says whether it    *)
(* was refused, the expression, and the index of the token after it.       *)
(***************************************************************************)

Refused == [ok |-> FALSE, expr |-> Everything, next |-> 0]
Result(e, n) == [ok |-> TRUE, expr |-> e, next |-> n]

Kind(t, i) == IF i \in DOMAIN t THEN t[i].kind ELSE "end"
IsWord(t, i) == Kind(t, i) \in {"bare", "quoted"}
IsKeyword(t, i, kw) == Kind(t, i) = "bare" /\ t[i].value = kw

\* The values of a list up to its closing parenthesis.
RECURSIVE Values(_, _, _)
Values(t, i, vs) ==
    CASE ~IsWord(t, i) -> [ok |-> FALSE, values |-> vs, next |-> 0]
      [] IsWord(t, i) /\ Kind(t, i + 1) = "rparen" -> [ok |-> TRUE, values |-> Append(vs, t[i].value), next |-> i + 2]
      [] IsWord(t, i) /\ Kind(t, i + 1) = "comma" -> Values(t, i + 2, Append(vs, t[i].value))
      [] OTHER -> [ok |-> FALSE, values |-> vs, next |-> 0]

ListTerm(op, field, list) == IF list.ok THEN Result(Listed(op, field, list.values), list.next) ELSE Refused

\* The one value after an operator or cidr.
ValueTerm(op, field, t, i) == IF IsWord(t, i) THEN Result(Term(op, field, t[i].value), i + 1) ELSE Refused

ParseTerm(t, i) ==
    LET field == t[i].value
        op == CHOOSE o \in VALUE_OPS : AST_TO_OP[o] = t[i + 1].value
        not == IsKeyword(t, i + 1, "not")
        named == /\ IsWord(t, i)
                 /\ \/ Kind(t, i + 1) \in {"op", "exists"}
                    \/ IsKeyword(t, i + 1, "in") \/ IsKeyword(t, i + 1, "cidr")
                    \/ not /\ IsKeyword(t, i + 2, "in")
    IN  IF ~IsWord(t, i) \/ (named /\ field = "") \/ (~named /\ \E kw \in KEYWORDS : IsKeyword(t, i, kw))
        THEN Refused
        ELSE IF ~named THEN Result(FreeText(field), i + 1)
        ELSE CASE Kind(t, i + 1) = "exists" -> Result(Present("exists", field), i + 2)
             [] Kind(t, i + 1) = "op" -> ValueTerm(op, field, t, i + 2)
             [] IsKeyword(t, i + 1, "cidr") -> ValueTerm("cidr", field, t, i + 2)
             [] OTHER ->
                   IF Kind(t, i + (IF not THEN 3 ELSE 2)) # "lparen" THEN Refused
                   ELSE ListTerm(IF not THEN "not_in" ELSE "in", field, Values(t, i + (IF not THEN 4 ELSE 3), <<>>))

\* NOT stands before one unary.
NotScope(t, i, inner) == IF inner.ok THEN Result(Not(inner.expr), inner.next) ELSE Refused

Together(op, args) == IF Len(args) = 1 THEN args[1] ELSE Flatten(op, args)

RECURSIVE OrExpr(_, _, _), OrRest(_, _, _), AndExpr(_, _, _), AndRest(_, _, _), Unary(_, _)

\* args are what was read before i, and r is what was read next.
OrExpr(t, i, args) == OrRest(t, AndExpr(t, i, <<>>), args)

OrRest(t, r, args) ==
    CASE ~r.ok -> Refused
      [] r.ok /\ IsKeyword(t, r.next, "or") -> OrExpr(t, r.next + 1, Append(args, r.expr))
      [] OTHER -> Result(Together("or", Append(args, r.expr)), r.next)

AndExpr(t, i, args) == AndRest(t, Unary(t, i), args)

AndRest(t, r, args) ==
    CASE ~r.ok -> Refused
      [] r.ok /\ (Kind(t, r.next) \in {"end", "rparen"} \/ IsKeyword(t, r.next, "or")) ->
            Result(Together("and", Append(args, r.expr)), r.next)
      [] OTHER -> AndExpr(t, IF IsKeyword(t, r.next, "and") THEN r.next + 1 ELSE r.next, Append(args, r.expr))

Closed(t, r) == IF r.ok /\ Kind(t, r.next) = "rparen" THEN Result(r.expr, r.next + 1) ELSE Refused

Unary(t, i) ==
    CASE Kind(t, i) = "end" -> Refused
      [] IsKeyword(t, i, "not") -> NotScope(t, i, Unary(t, i + 1))
      [] Kind(t, i) = "bang" ->
            IF IsWord(t, i + 1) /\ Kind(t, i + 2) = "exists"
            THEN Result(Present("not_exists", t[i + 1].value), i + 3) ELSE Refused
      [] Kind(t, i) = "lparen" -> Closed(t, OrExpr(t, i + 1, <<>>))
      [] OTHER -> ParseTerm(t, i)

WholeText(t, r) == IF r.ok /\ r.next = Len(t) + 1 THEN r ELSE Refused

\* parseFilter: all of the text, or nothing of it.
ParseFilter(t) == IF t = <<>> THEN Result(Everything, 1) ELSE WholeText(t, OrExpr(t, 1, <<>>))

-----------------------------------------------------------------------------
(***************************************************************************)
(* The form of one term.  Its value is the sequence of what lies between   *)
(* the commas.                                                             *)
(***************************************************************************)

NO_VALUE == {"exists", "not_exists"}
LIST_OPS == {"in", "not_in"}
IsSimpleTerm(e) == e.op \notin {"none", "and", "or", "not", "text"}

EmptyForm == [field |-> "", op |-> "eq", value |-> <<>>]

\* initialState.
FormOf(e) ==
    IF ~IsSimpleTerm(e) THEN EmptyForm
    ELSE [field |-> e.field, op |-> e.op,
          value |-> IF e.op \in NO_VALUE THEN <<>>
                    ELSE IF e.op \in LIST_OPS THEN e.values
                    ELSE IF e.value = "" THEN <<>> ELSE <<e.value>>]

\* The text of the value box, when it is one value.
OneValue(form) == IF form.value = <<>> THEN "" ELSE form.value[1]

BuildExpr(form) ==
    LET values == SelectSeq(form.value, LAMBDA v : v # "")
    IN  IF form.field = "" THEN Refused
        ELSE CASE form.op \in NO_VALUE -> Result(Present(form.op, form.field), 0)
             [] form.op \in LIST_OPS -> IF values = <<>> THEN Refused
                                        ELSE Result(Listed(form.op, form.field, values), 0)
             [] \/ form.op \in COMPARISONS /\ OneValue(form) \notin Numbers
                \/ form.op = "regex" /\ OneValue(form) \in BadRegexes
                \/ form.op = "cidr" /\ OneValue(form) \notin CIDRs -> Refused
             [] OTHER -> Result(Term(form.op, form.field, OneValue(form)), 0)
=============================================================================
