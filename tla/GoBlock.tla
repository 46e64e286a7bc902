------------------------------ MODULE GoBlock ------------------------------
(***************************************************************************)
(* The blocks of code that the preprocessor is given, and what they are in *)
(* Go: what preproc.go is measured by.                                     *)
(*                                                                         *)
(* A block is its tokens, as go/scanner reports them, and what is behind   *)
(* the := of its lines, as go/parser sees it.                              *)
(***************************************************************************)
EXTENDS Integers, Sequences, FiniteSets, SequencesExt

\* The text behind the := of a line, cut at its commas, is
\*   a literal of some kind, T{} or &T{} of a type without braces, the call of a function
\*   of the session, or of one of a package with a single result, of a type that can be
\*   written as types.Type.String does ("" if the package cannot be loaded),
\*   likeCall: not a call, but with the text of one at its start and a ) at its end,
\*   mistaken: another expression, in whose text some type is seen that it has not,
\*   untyped: another expression, or garbage: no expression at all.
Forms == {"literal", "composite", "pointer", "call", "packageCall",
          "likeCall", "mistaken", "untyped", "garbage"}
LiteralKinds == {"INT", "FLOAT", "IMAG", "CHAR", "STRING"}

Garbled(s, n) == \E i \in DOMAIN s.tails[n] : s.tails[n][i].form = "garbage"

\* A content has physical lines; for those that are not blank, defines is how many := are in
\* the text, in strings and comments too, and tails is what is behind one that is alone.
\* The line of a token is the one that the scanner reports: the physical line, unless a
\* //line directive has said another.
SourceTyped(s) ==
    /\ s.tokens \in Seq([tok : STRING, lit : STRING, line : Nat \ {0}])
    /\ DOMAIN s.tails \subseteq 1 .. s.lines
    /\ \A n \in DOMAIN s.tails : s.tails[n] \in Seq([form : Forms, of : STRING])
    /\ s.defines \in [DOMAIN s.tails -> Nat]
    /\ s.lines \in Nat /\ s.directive \in BOOLEAN

\* Without a directive the tokens are on the lines in their order, and two := are two.  If
\* what is behind a := is expressions, the line does not go on in the next: the scanner
\* puts a semicolon behind them.
InOrder(s) ==
    /\ \A i \in DOMAIN s.tokens : s.tokens[i].line \in DOMAIN s.tails
    /\ \A i, j \in DOMAIN s.tokens : i <= j => s.tokens[i].line <= s.tokens[j].line
    /\ \A i, j \in DOMAIN s.tokens :
        /\ i < j /\ s.tokens[i].line = s.tokens[j].line /\ s.tokens[i].tok = ":="
        /\ s.defines[s.tokens[i].line] = 1
        => /\ s.tokens[j].tok # ":="
           /\ s.tokens[j].tok = "ident" /\ ~Garbled(s, s.tokens[i].line)
                => \E k \in DOMAIN s.tokens :
                    j < k /\ s.tokens[k].tok = ";" /\ s.tokens[k].line = s.tokens[i].line

\* No line has its only := in a string or in a comment.
Overt(s) ==
    \A n \in DOMAIN s.tails : s.defines[n] = 1 =>
        \E i \in DOMAIN s.tokens : s.tokens[i].tok = ":=" /\ s.tokens[i].line = n

-----------------------------------------------------------------------------
(* Statements and functions. *)

Count(s, i, j, toks) == Cardinality({k \in i .. j : s.tokens[k].tok \in toks})

\* How many of the braces opened since i are open behind j.
Depth(s, i, j) == Count(s, i, j, {"{"}) - Count(s, i, j, {"}"})

\* The braces of struct and interface types.
TypeBrace(s, j) == s.tokens[j].tok = "{" /\ s.tokens[j - 1].lit \in {"struct", "interface"}

\* The header of the func at i goes up to the { at j: it may have such types in it.
IsHeader(s, i, j) ==
    /\ i < j /\ s.tokens[i].tok = "func" /\ s.tokens[j].tok = "{" /\ ~TypeBrace(s, j)
    /\ Count(s, i + 1, j - 1, {"("}) = Count(s, i + 1, j - 1, {")"})
    /\ Depth(s, i + 1, j - 1) = 0
    /\ \A l \in (i + 1) .. (j - 1) :
        /\ s.tokens[l].tok = "{" => TypeBrace(s, l)
        /\ s.tokens[l].tok = ";" => Depth(s, i + 1, l) > 0

\* The bodies of functions: the func, where the body opens, and where it is closed.
IsBody(s, i, j, k) ==
    /\ IsHeader(s, i, j) /\ j < k
    /\ Depth(s, j, k) = 0
    /\ \A l \in j .. (k - 1) : Depth(s, j, l) > 0
Bodies(s) ==
    {body \in (DOMAIN s.tokens) \X (DOMAIN s.tokens) \X (DOMAIN s.tokens) :
        IsBody(s, body[1], body[2], body[3])}

\* The declarations of functions, at the func.
IsDeclared(s, i) ==
    /\ i < Len(s.tokens) /\ s.tokens[i].tok = "func" /\ s.tokens[i + 1].tok = "ident"
    /\ Depth(s, 1, i) = 0

\* The n names of a statement in front of its :=, with commas between them.
IsList(s, i, n) ==
    LET first == i + 1 - 2 * n
    IN  /\ first = 1 \/ (first > 1 /\ s.tokens[first - 1].tok = ";")
        /\ \A k \in 1 .. n : s.tokens[i + 1 - 2 * k].tok = "ident"
        /\ \A k \in 1 .. (n - 1) : s.tokens[i - 2 * k].tok = ","
        /\ \A j \in first .. i : s.tokens[j].line = s.tokens[i].line
Declared(s, i) ==
    LET n == CHOOSE n \in 1 .. i : IsList(s, i, n)
    IN  [k \in 1 .. n |-> s.tokens[i - 1 - 2 * (n - k)].lit]

\* A block of statements, with one := on a line and nothing but names before it.
Plain(s) ==
    /\ ~s.directive
    /\ \A i \in DOMAIN s.tokens : s.tokens[i].tok \notin {"func", "type", "var"}
    /\ \A i \in DOMAIN s.tokens : s.tokens[i].tok = ":=" =>
        s.defines[s.tokens[i].line] = 1 /\ \E n \in 1 .. i : IsList(s, i, n)

\* Where a block declares a name with :=.
Places(s, v) ==
    {p \in (DOMAIN s.tokens) \X (DOMAIN s.tokens) :
        /\ s.tokens[p[1]].tok = ":="
        /\ p[2] \in DOMAIN Declared(s, p[1]) /\ Declared(s, p[1])[p[2]] = v}

-----------------------------------------------------------------------------
(* Types. *)

\* The types whose names the preprocessor reads in signatures.
knownTypes ==
    {"bool", "string", "byte", "rune", "int64", "int32", "int", "float32", "float64"}

\* The type of a variable that is declared with a literal.
GoLiteral(kind) == CASE kind = "INT" -> "int"
                     [] kind = "FLOAT" -> "float64"
                     [] kind = "IMAG" -> "complex128"
                     [] kind = "CHAR" -> "rune"
                     [] OTHER -> "string"

\* The known types of up to two parameters, or of the results of a function, and how
\* these are written behind the parameters.
TypeLists == {<<>>} \cup {<<t>> : t \in knownTypes} \cup (knownTypes \X knownTypes)
Written(ts) ==
    CASE Len(ts) = 0 -> {<<>>}
      [] Len(ts) = 1 -> {ts, <<"(", ts[1], ")">>}
      [] Len(ts) = 2 -> {<<"(", ts[1], ",", ts[2], ")">>}
ResultTexts == UNION {Written(ts) : ts \in TypeLists}

\* The func at i has parameters ts, each a name and a known type, and results as written.
IsSigned(s, i, ts, results) ==
    LET n == Len(ts)
        close == i + 3 + (IF n = 0 THEN 0 ELSE 3 * n - 1)
        brace == close + Len(results) + 1
    IN  /\ brace <= Len(s.tokens)
        /\ s.tokens[i + 2].tok = "(" /\ s.tokens[close].tok = ")" /\ s.tokens[brace].tok = "{"
        /\ \A k \in 1 .. n :
            /\ s.tokens[i + 3 * k].tok = "ident" /\ s.tokens[i + 3 * k].lit \notin knownTypes
            /\ s.tokens[i + 3 * k + 1].lit = ts[k]
            /\ k < n => s.tokens[i + 3 * k + 2].tok = ","
        /\ \A k \in 1 .. Len(results) : s.tokens[close + k].lit = results[k]
Joined(ts) == FlattenSeq([k \in DOMAIN ts |-> IF k = 1 THEN <<ts[k]>> ELSE <<",", ts[k]>>])

\* The text shows the type of a function if one func declares it and has such a header,
\* and every func of the block has a name, as every type has.
SpeltFunc(s, f) ==
    /\ \A i \in DOMAIN s.tokens : s.tokens[i].tok \in {"func", "type"} =>
        i < Len(s.tokens) /\ s.tokens[i + 1].tok = "ident"
    /\ \E i \in DOMAIN s.tokens :
        /\ {j \in DOMAIN s.tokens : s.tokens[j].tok = "func" /\ s.tokens[j + 1].lit = f} = {i}
        /\ \E ts \in TypeLists, results \in ResultTexts : IsSigned(s, i, ts, results)
FuncType(s, f) ==
    LET i == CHOOSE i \in DOMAIN s.tokens : s.tokens[i].tok = "func" /\ s.tokens[i + 1].lit = f
        ts == CHOOSE ts \in TypeLists :
            \E results \in ResultTexts : IsSigned(s, i, ts, results)
        results == CHOOSE results \in ResultTexts : IsSigned(s, i, ts, results)
    IN  <<"func", "(">> \o Joined(ts) \o <<")">> \o results

=============================================================================
