------------------------- MODULE PreprocTextProofs -------------------------
(***************************************************************************)
(* Proofs about Preproc that relate what Parse keeps to the text it has    *)
(* scanned: the lines, the bodies, and the statements of a block.          *)
(***************************************************************************)
EXTENDS PreprocProofs, FiniteSetTheorems

-----------------------------------------------------------------------------
(* The text of a block, in terms that are expanded only where they have to be. *)

Size(s) == Len(s.tokens)
TokOf(s, i) == s.tokens[i].tok
LitOf(s, i) == s.tokens[i].lit
LineOf(s, i) == s.tokens[i].line

\* The tokens that have no letter in them.
Semi == ";"
Comma == ","
LeftBrace == "{"
RightBrace == "}"
LEMMA TokensDiffer ==
  /\ Semi # ":=" /\ Semi # "ident" /\ Semi # "func" /\ Semi # Comma
  /\ Semi # LeftBrace /\ Semi # RightBrace
  /\ Comma # ":=" /\ Comma # "ident" /\ Comma # "func" /\ Comma # LeftBrace /\ Comma # RightBrace
  /\ LeftBrace # ":=" /\ LeftBrace # "ident" /\ LeftBrace # "func" /\ LeftBrace # RightBrace
  /\ RightBrace # ":=" /\ RightBrace # "ident" /\ RightBrace # "func"
  BY Zenon DEF Semi, Comma, LeftBrace, RightBrace

NameIn(candidates, c) == candidates[c].name
LineIn(candidates, c) == candidates[c].line

\* A content that has a token is one of Sources.
LEMMA SourceKnown ==
  ASSUME TypeInv, NEW i \in DOMAIN source.tokens
  PROVE  source \in Sources
<1>1. NoSource.tokens = <<>>
  BY DEF NoSource
<1> QED
  BY <1>1 DEF TypeInv

\* The tokens of a content, whichever it is.
LEMMA TextTyped ==
  ASSUME TypeInv
  PROVE  /\ Size(source) \in Nat /\ DOMAIN source.tokens = 1 .. Size(source)
         /\ at \in Nat /\ at \in 1 .. (Size(source) + 1)
         /\ \A i \in 1 .. Size(source) :
                /\ LineOf(source, i) \in LinesOf(source) /\ LineOf(source, i) \in Nat
                /\ LitOf(source, i) \in STRING
<1>1. source.tokens \in Seq([tok : STRING, lit : STRING, line : Nat \ {0}])
  BY TokensTyped DEF TypeInv
<1>2. Size(source) \in Nat /\ DOMAIN source.tokens = 1 .. Size(source)
  BY <1>1 DEF Size
<1>3. ASSUME NEW i \in 1 .. Size(source)
      PROVE  /\ LineOf(source, i) \in LinesOf(source) /\ LineOf(source, i) \in Nat
             /\ LitOf(source, i) \in STRING
  <2>1. source.tokens[i] \in [tok : STRING, lit : STRING, line : Nat \ {0}]
    BY <1>1, <1>2, ElementOfSeq DEF Size
  <2>2. LineOf(source, i) \in LinesOf(source)
    BY <1>2, Zenon DEF LineOf, LinesOf
  <2> QED
    BY <2>1, <2>2 DEF LineOf, LitOf
<1>4. at \in 1 .. (Size(source) + 1)
  BY DEF Size, TypeInv, TypeOK
<1> QED
  BY <1>2, <1>3, <1>4

\* What SourcesAssumption says of the lines of a content.
LEMMA LinesAscend ==
  ASSUME TypeInv, ~source.directive,
         NEW i \in 1 .. Size(source), NEW j \in 1 .. Size(source), i <= j
  PROVE  LineOf(source, i) <= LineOf(source, j)
<1>1. i \in DOMAIN source.tokens /\ j \in DOMAIN source.tokens
  BY TextTyped
<1>2. source \in Sources
  BY <1>1, SourceKnown
<1> QED
  BY <1>1, <1>2, SourcesAssumption, Zenon DEF LineOf, InOrder

LEMMA LinesWritten ==
  ASSUME TypeInv, ~source.directive, NEW i \in 1 .. Size(source)
  PROVE  LineOf(source, i) \in DOMAIN source.tails /\ LineOf(source, i) \in 1 .. source.lines
<1>1. i \in DOMAIN source.tokens /\ source \in Sources
  BY TextTyped, SourceKnown
<1>2. LineOf(source, i) \in DOMAIN source.tails
  BY <1>1, SourcesAssumption, Zenon DEF LineOf, InOrder
<1> QED
  BY <1>1, <1>2, SourcesAssumption, Zenon DEF SourceTyped

\* Of the tokens behind a := on its line, if there is no other := in the text.
LEMMA DefineAlone ==
  ASSUME TypeInv, ~source.directive,
         NEW i \in 1 .. Size(source), NEW j \in 1 .. Size(source),
         LineOf(source, i) = LineOf(source, j), source.defines[LineOf(source, i)] = 1,
         TokOf(source, i) = ":=", TokOf(source, j) = ":="
  PROVE  i = j
<1>1. DOMAIN source.tokens = 1 .. Size(source)
  BY TextTyped
<1>2. source \in Sources
  BY <1>1, SourceKnown
<1>3. ASSUME NEW k \in 1 .. Size(source), NEW l \in 1 .. Size(source), k < l,
             LineOf(source, k) = LineOf(source, l), source.defines[LineOf(source, k)] = 1,
             TokOf(source, k) = ":=", TokOf(source, l) = ":="
      PROVE  FALSE
  BY <1>1, <1>2, <1>3, SourcesAssumption, Zenon DEF InOrder, LineOf, TokOf
<1>4. i < j \/ j < i \/ i = j
  BY <1>1, TextTyped
<1> QED
  BY <1>3, <1>4, Zenon

LEMMA SemicolonFollows ==
  ASSUME TypeInv, ~source.directive, NEW i \in 1 .. Size(source), NEW j \in 1 .. Size(source), i < j,
         LineOf(source, i) = LineOf(source, j), TokOf(source, i) = ":=",
         source.defines[LineOf(source, i)] = 1,
         ~Garbled(source, LineOf(source, i)), TokOf(source, j) = "ident"
  PROVE  \E k \in 1 .. Size(source) :
            j < k /\ TokOf(source, k) = Semi /\ LineOf(source, k) = LineOf(source, i)
<1>1. DOMAIN source.tokens = 1 .. Size(source)
  BY TextTyped
<1>2. source \in Sources
  BY <1>1, SourceKnown
<1>3. i \in DOMAIN source.tokens /\ j \in DOMAIN source.tokens
  BY <1>1
<1>4. \E k \in DOMAIN source.tokens :
        /\ j < k /\ source.tokens[k].tok = ";"
        /\ source.tokens[k].line = source.tokens[i].line
  <2>1. /\ source.tokens[i].line = source.tokens[j].line /\ source.tokens[i].tok = ":="
        /\ ~Garbled(source, source.tokens[i].line) /\ source.tokens[j].tok = "ident"
        /\ source.defines[source.tokens[i].line] = 1
    BY Zenon DEF LineOf, TokOf
  <2> QED
    BY <1>2, <1>3, <2>1, SourcesAssumption, Zenon DEF InOrder
<1> QED
  BY <1>1, <1>4, Zenon DEF LineOf, TokOf, Semi

\* Marks are only added, to the line of the token.
LEMMA MarksGrow ==
  ASSUME TypeInv, at <= Len(source.tokens), NEW kinds, Mark(kinds)
  PROVE  /\ DOMAIN lineKinds' = LinesOf(source) /\ DOMAIN lineKinds = LinesOf(source)
         /\ LineOf(source, at) \in LinesOf(source)
         /\ \A n \in LinesOf(source) : lineKinds[n] \subseteq lineKinds'[n]
         /\ \A n \in LinesOf(source) :
                n # LineOf(source, at) => lineKinds'[n] = lineKinds[n]
         /\ lineKinds'[LineOf(source, at)] = lineKinds[LineOf(source, at)] \cup kinds
                                    \cup (IF insideFunc THEN {"func-body"} ELSE {})
<1>1. lineKinds \in [LinesOf(source) -> SUBSET Kinds]
  BY DEF TypeInv, TypeOK
<1>2. Tok.line \in LinesOf(source) /\ Tok.line = LineOf(source, at)
  BY TokTyped DEF LineOf, Tok
<1> DEFINE n == Tok.line
<1>3. /\ lineKinds' = [lineKinds EXCEPT ![n] =
                        @ \cup kinds \cup (IF insideFunc THEN {"func-body"} ELSE {})]
  BY DEF Mark
<1>4. n \in LinesOf(source) /\ n = LineOf(source, at)
  BY <1>2
<1> HIDE DEF n
<1> QED
  BY <1>1, <1>3, <1>4

\* A step of the scanner, seen from the tokens before it.
LEMMA ScanStep ==
  ASSUME TypeInv, Scanned
  PROVE  /\ at \in Nat /\ at \in 1 .. Size(source) /\ at' = at + 1
         /\ Size(source) \in Nat /\ Tok.tok = TokOf(source, at)
         /\ Tok.line = LineOf(source, at) /\ Tok.lit = LitOf(source, at)
         /\ stage = "parsing" /\ stage' = "parsing" /\ source' = source
         /\ at <= Len(source.tokens)
         /\ DOMAIN lineKinds' = LinesOf(source) /\ DOMAIN lineKinds = LinesOf(source)
         /\ \A n \in LinesOf(source) : lineKinds[n] \subseteq lineKinds'[n]
<1>1. /\ stage = "parsing" /\ at <= Len(source.tokens) /\ at' = at + 1
      /\ stage' = stage /\ source' = source
  BY ScannedSteps
<1>2. /\ at \in Nat /\ at \in 1 .. Size(source) /\ Size(source) \in Nat
  BY <1>1, TextTyped DEF Size
<1>3. PICK kinds \in SUBSET Kinds : Mark(kinds)
  BY ScannedSteps
<1>4. /\ Tok.tok = TokOf(source, at) /\ Tok.line = LineOf(source, at)
      /\ Tok.lit = LitOf(source, at)
  BY DEF Tok, TokOf, LineOf, LitOf
<1> QED
  BY <1>1, <1>2, <1>3, <1>4, MarksGrow


-----------------------------------------------------------------------------
(* Lines and names. *)

\* The scanned token i is the candidate c, and its statement has not been left.
IsCandidate(c, i) ==
    /\ i \in 1 .. (at - 1) /\ TokOf(source, i) = "ident"
    /\ NameIn(pendingCandidates, c) = LitOf(source, i)
    /\ LineIn(pendingCandidates, c) = LineOf(source, i)
    /\ \A j \in i .. (at - 1) : TokOf(source, j) \notin {Semi, ":="}

\* Candidates are names of one statement, in the order of their lines.
CandidatesInv ==
    stage = "parsing" =>
        /\ pendingCandidates \in Seq([name : STRING, line : Nat])
        /\ \A c \in DOMAIN pendingCandidates :
            /\ \E i \in 1 .. (at - 1) : IsCandidate(c, i)
            /\ ~source.directive =>
                LineIn(pendingCandidates, 1) <= LineIn(pendingCandidates, c)

\* A declared name is on a line that is marked as a declaration.
Stands(v) ==
    \E i \in 1 .. Size(source) :
        LitOf(source, i) = v /\ "var-decl" \in lineKinds[LineOf(source, i)]

\* What the lines of a block can be relied on for.
Ordered(s) == ~s.directive /\ Overt(s)

CodeInv ==
    /\ CandidatesInv
    /\ stage \in {"parsing", "parsed"} /\ Ordered(source) => \A v \in vnames : Stands(v)
    /\ stage = "parsed" => \A n \in DOMAIN source.tails : lineKinds[n] # {}

\* The candidates of a := that Parse takes are on its own line: the line of the first
\* has no other, and expressions are not followed by a name of the same statement.
LEMMA TypedLine ==
  ASSUME TypeInv, CandidatesInv, Ordered(source), stage = "parsing", at \in 1 .. Size(source),
         TokOf(source, at) = ":=", Typed, NEW c \in DOMAIN pendingCandidates
  PROVE  LineIn(pendingCandidates, c) = LineOf(source, at)
<1> DEFINE n == LineIn(pendingCandidates, 1)
<1>1. Size(source) \in Nat /\ at \in Nat /\ \A i \in 1 .. Size(source) : LineOf(source, i) \in Nat
  BY TextTyped
<1>2. 1 \in DOMAIN pendingCandidates /\ TotalLine = n
  <2>1. pendingCandidates # <<>>
    BY DEF Typed, TakesLine
  <2>2. pendingCandidates \in Seq([name : STRING, line : Nat])
    BY Zenon DEF CandidatesInv
  <2>3. 1 \in DOMAIN pendingCandidates /\ Head(pendingCandidates) = pendingCandidates[1]
    BY <2>1, <2>2
  <2> QED
    BY <2>3, Zenon DEF TotalLine, LineIn
<1>3. PICK i \in 1 .. (at - 1) : IsCandidate(1, i)
  BY <1>2 DEF CandidatesInv
<1>4. PICK k \in 1 .. (at - 1) : IsCandidate(c, k) /\ n <= LineIn(pendingCandidates, c)
  BY DEF CandidatesInv, Ordered
<1>5. PICK d \in 1 .. Size(source) :
        TokOf(source, d) = ":=" /\ LineOf(source, d) = n /\ source.defines[n] = 1
  <2>1. n \in DOMAIN source.tails /\ source.defines[n] = 1
    BY <1>2, Zenon DEF Typed
  <2>2. DOMAIN source.tokens = 1 .. Size(source)
    BY TextTyped
  <2> QED
    BY <2>1, <2>2, Zenon DEF Ordered, Overt, TokOf, LineOf
<1>6. /\ i \in 1 .. Size(source) /\ k \in 1 .. Size(source) /\ k <= at /\ i <= at
      /\ n = LineOf(source, i) /\ LineIn(pendingCandidates, c) = LineOf(source, k)
      /\ TokOf(source, i) = "ident"
      /\ \A j \in i .. (at - 1) : TokOf(source, j) \notin {Semi, ":="}
  BY <1>1, <1>3, <1>4 DEF IsCandidate
<1>7. LineOf(source, k) <= LineOf(source, at) /\ n <= LineOf(source, k)
  BY <1>4, <1>6, LinesAscend DEF Ordered
<1> HIDE DEF n
<1>8. n = LineOf(source, at)
  <2>1. CASE d = at
    BY <2>1, <1>5
  <2>2. CASE d > at
    BY <2>2, <1>1, <1>5, <1>6, <1>7, LinesAscend DEF Ordered
  <2>3. CASE d < at
    <3>1. d < i
      BY <2>3, <1>1, <1>5, <1>6
    <3>2. ~Garbled(source, LineOf(source, d))
      <4>1. \A v \in DOMAIN Values : Values[v].form # "garbage"
        BY DEF Typed, Resolves
      <4>2. Values = source.tails[LineOf(source, d)]
        BY <1>2, <1>5 DEF Values
      <4> QED
        BY <4>1, <4>2, Zenon DEF Garbled
    <3>3. PICK m \in 1 .. Size(source) :
             i < m /\ TokOf(source, m) = Semi /\ LineOf(source, m) = LineOf(source, d)
      BY <1>5, <1>6, <3>1, <3>2, SemicolonFollows, Zenon DEF Ordered
    <3>4. m > at
      <4>1. m # at /\ m \notin i .. (at - 1)
        BY <1>6, <3>3, TokensDiffer, Zenon
      <4> QED
        BY <4>1, <1>1, <1>6, <3>3
    <3> QED
      BY <3>3, <3>4, <1>1, <1>5, <1>6, <1>7, LinesAscend DEF Ordered
  <2> QED
    BY <2>1, <2>2, <2>3, <1>1
<1> QED
  BY <1>1, <1>6, <1>7, <1>8

\* What a step of the scanner does to the candidates, and to the token it takes.
LEMMA CandidateSteps ==
  ASSUME Scanned
  PROVE  \/ /\ pendingCandidates' = <<>>
         \/ /\ pendingCandidates' = pendingCandidates
            /\ TokOf(source, at) # Semi /\ TokOf(source, at) # ":="
         \/ /\ Ident /\ TokOf(source, at) = "ident"
            /\ pendingCandidates' = Append(pendingCandidates,
                                [name |-> LitOf(source, at), line |-> LineOf(source, at)])
<1>1. CASE Var \/ Semicolon \/ Define
  BY <1>1, Zenon DEF Var, Semicolon, Define
<1>2. CASE Func \/ Type \/ LBrace \/ RBrace \/ FuncName \/ TypeName \/ Punctuation \/ Other
  <2>1. pendingCandidates' = pendingCandidates
    BY <1>2, Zenon DEF Func, Type, LBrace, RBrace, FuncName, TypeName, Punctuation, Other
  <2>2. Tok.tok \in {"func", "type", "{", "}", "ident", "(", ")", ",", "other"}
    BY <1>2, Zenon DEF Func, Type, LBrace, RBrace, FuncName, TypeName, Punctuation, Other, Scan
  <2>3. TokOf(source, at) # Semi /\ TokOf(source, at) # ":="
    BY <2>2, Zenon DEF TokOf, Tok, Semi
  <2> QED
    BY <2>1, <2>3
<1>3. CASE Ident
  <2>1. TokOf(source, at) = "ident"
    BY <1>3, Zenon DEF Ident, Scan, Tok, TokOf
  <2>2. CASE inVarDecl
    BY <1>3, <2>1, <2>2, TokensDiffer, Zenon DEF Ident
  <2>3. CASE ~inVarDecl
    BY <1>3, <2>1, <2>3, Zenon DEF Ident, Tok, LitOf, LineOf
  <2> QED
    BY <2>2, <2>3
<1> QED
  BY <1>1, <1>2, <1>3 DEF Scanned

LEMMA CandidatesStep ==
  ASSUME TypeInv, CandidatesInv, Scanned
  PROVE  CandidatesInv'
<1> DEFINE Names == [name : STRING, line : Nat]
           p == pendingCandidates
<1>1. /\ at \in Nat /\ at \in 1 .. Size(source) /\ at' = at + 1 /\ Size(source) \in Nat
      /\ stage = "parsing" /\ stage' = "parsing" /\ source' = source
  BY ScanStep
<1>2. /\ p \in Seq(Names)
      /\ \A c \in DOMAIN p : /\ \E i \in 1 .. (at - 1) : IsCandidate(c, i)
                             /\ ~source.directive => LineIn(p, 1) <= LineIn(p, c)
  BY <1>1, Zenon DEF CandidatesInv
<1>3. /\ LineOf(source, at) \in Nat /\ LitOf(source, at) \in STRING
      /\ \A i \in 1 .. Size(source) : LineOf(source, i) \in Nat
  BY <1>1, TextTyped
<1>4. SUFFICES /\ p' \in Seq(Names)
               /\ \A c \in DOMAIN p' : /\ \E i \in 1 .. at : IsCandidate(c, i)'
                                       /\ ~source.directive => LineIn(p', 1) <= LineIn(p', c)
  <2>1. at' - 1 = at
    BY <1>1
  <2> QED
    BY <1>1, <2>1, Zenon DEF CandidatesInv
<1>5. CASE p' = <<>>
  BY <1>5
<1>6. CASE p' = p /\ TokOf(source, at) # Semi /\ TokOf(source, at) # ":="
  <2>1. SUFFICES ASSUME NEW c \in DOMAIN p PROVE \E i \in 1 .. at : IsCandidate(c, i)'
    BY <1>2, <1>6
  <2>2. PICK i \in 1 .. (at - 1) : IsCandidate(c, i)
    BY <1>2
  <2>3. IsCandidate(c, i)' /\ i \in 1 .. at
    BY <1>1, <1>6, <2>2 DEF IsCandidate
  <2> QED
    BY <2>3
<1>7. CASE /\ TokOf(source, at) = "ident"
           /\ p' = Append(p, [name |-> LitOf(source, at), line |-> LineOf(source, at)])
  <2> DEFINE e == [name |-> LitOf(source, at), line |-> LineOf(source, at)]
  <2> PICK q : q = Len(p) + 1
    OBVIOUS
  <2> PICK a : a = at
    OBVIOUS
  <2>1. e \in Names
    BY <1>3
  <2>2. /\ p' \in Seq(Names) /\ Len(p) \in Nat /\ DOMAIN p = 1 .. Len(p)
        /\ DOMAIN p' = 1 .. (Len(p) + 1) /\ p'[q] = e
        /\ \A c \in DOMAIN p : p'[c] = p[c]
    BY <1>2, <1>7, <2>1
  <2>3. /\ \A c \in DOMAIN p : NameIn(p', c) = NameIn(p, c) /\ LineIn(p', c) = LineIn(p, c)
        /\ NameIn(p', q) = LitOf(source, at)
        /\ LineIn(p', q) = LineOf(source, at)
    BY <2>2 DEF NameIn, LineIn
  <2>4. IsCandidate(q, a)' /\ a \in 1 .. at
    <3>1. \A j \in a .. at : TokOf(source, j) = "ident"
      BY <1>1, <1>7
    <3>2. \A j \in a .. at : TokOf(source, j) \notin {Semi, ":="}
      BY <3>1, TokensDiffer, Zenon
    <3>3. at' - 1 = at /\ a \in 1 .. at
      BY <1>1
    <3> QED
      BY <1>1, <1>7, <2>3, <3>2, <3>3 DEF IsCandidate
  <2>5. ASSUME NEW c \in DOMAIN p
        PROVE  /\ \E i \in 1 .. at : IsCandidate(c, i)'
               /\ ~source.directive => LineIn(p', 1) <= LineIn(p', c)
               /\ ~source.directive => LineIn(p', 1) <= LineIn(p', q)
    <3>1. PICK i \in 1 .. (at - 1) : IsCandidate(c, i)
      BY <1>2
    <3>2. 1 \in DOMAIN p
      BY <2>2
    <3>3. PICK k \in 1 .. (at - 1) : IsCandidate(1, k)
      BY <1>2, <3>2
    <3>4. i \in 1 .. at /\ k \in 1 .. Size(source) /\ k <= at
      BY <1>1
    <3>5. TokOf(source, at) \notin {Semi, ":="}
      BY <1>7, TokensDiffer, Zenon
    <3>6. IsCandidate(c, i)'
      BY <1>1, <2>3, <3>1, <3>4, <3>5 DEF IsCandidate
    <3>7. /\ LineIn(p, 1) = LineOf(source, k)
          /\ ~source.directive => LineOf(source, k) <= LineOf(source, at)
      BY <1>1, <3>3, <3>4, LinesAscend DEF IsCandidate
    <3> QED
      BY <1>2, <2>3, <3>2, <3>4, <3>6, <3>7
  <2>6. \A c \in DOMAIN p' : c \in DOMAIN p \/ c = q
    BY <2>2
  <2>7. DOMAIN p = {} => LineIn(p', 1) <= LineIn(p', q)
    <3>1. DOMAIN p = {} => q = 1
      BY <2>2
    <3> QED
      BY <1>1, <1>3, <2>3, <3>1
  <2> QED
    BY <2>2, <2>4, <2>5, <2>6, <2>7
<1> QED
  BY <1>5, <1>6, <1>7, CandidateSteps

\* What stands on a marked line goes on to, and what a step declares does.
LEMMA StandsStays ==
  ASSUME TypeInv, source' = source, NEW v, Stands(v),
         \A n \in LinesOf(source) : lineKinds[n] \subseteq lineKinds'[n]
  PROVE  Stands(v)'
<1>1. PICK i \in 1 .. Size(source) :
        LitOf(source, i) = v /\ "var-decl" \in lineKinds[LineOf(source, i)]
  BY DEF Stands
<1>2. "var-decl" \in lineKinds'[LineOf(source, i)]
  BY <1>1, TextTyped, Zenon
<1> QED
  BY <1>1, <1>2 DEF Stands

LEMMA StandStep ==
  ASSUME TypeInv, CandidatesInv, Ordered(source), Scanned,
         \A v \in vnames : Stands(v)
  PROVE  \A v \in vnames' : Stands(v)'
<1>1. /\ at \in Nat /\ at \in 1 .. Size(source) /\ Size(source) \in Nat
      /\ stage = "parsing" /\ source' = source /\ at <= Len(source.tokens)
      /\ Tok.tok = TokOf(source, at) /\ Tok.line = LineOf(source, at)
      /\ Tok.lit = LitOf(source, at)
      /\ \A n \in LinesOf(source) : lineKinds[n] \subseteq lineKinds'[n]
  BY ScanStep
<1>2. \A v \in vnames : Stands(v)'
  BY <1>1, StandsStays
<1>3. ASSUME Mark({"var-decl"}), NEW i \in 1 .. Size(source),
             LineOf(source, i) = LineOf(source, at), NEW v, v = LitOf(source, i)
      PROVE  Stands(v)'
  <2>1. "var-decl" \in lineKinds'[LineOf(source, i)]
    BY <1>1, <1>3, MarksGrow
  <2> QED
    BY <1>1, <1>3, <2>1 DEF Stands
<1>4. CASE Ident
  <2>1. CASE inVarDecl
    <3>1. Mark({"var-decl"}) /\ vnames' \subseteq vnames \cup {LitOf(source, at)}
      BY <1>1, <1>4, <2>1, Zenon DEF Ident
    <3>2. \A v \in {LitOf(source, at)} : Stands(v)'
      BY <1>1, <1>3, <3>1
    <3> QED
      BY <1>2, <3>1, <3>2
  <2>2. CASE ~inVarDecl
    BY <1>2, <1>4, <2>2, Zenon DEF Ident
  <2> QED
    BY <2>1, <2>2
<1>5. CASE Define
  <2>1. /\ Typed /\ Mark({"var-decl"}) /\ vnames' = vnames \cup Candidates
        /\ TokOf(source, at) = ":="
    BY <1>1, <1>5, Zenon DEF Define, Scan
  <2>2. ASSUME NEW v \in Candidates PROVE Stands(v)'
    <3>1. PICK c \in DOMAIN pendingCandidates : v = NameIn(pendingCandidates, c)
      BY Zenon DEF Candidates, NameIn
    <3>2. PICK i \in 1 .. (at - 1) : IsCandidate(c, i)
      BY <1>1 DEF CandidatesInv
    <3>3. LineIn(pendingCandidates, c) = LineOf(source, at)
      BY <1>1, <2>1, TypedLine
    <3>4. /\ i \in 1 .. Size(source) /\ LineOf(source, i) = LineOf(source, at)
          /\ v = LitOf(source, i)
      BY <1>1, <3>1, <3>2, <3>3 DEF IsCandidate
    <3> QED
      BY <1>3, <2>1, <3>4
  <2> QED
    BY <1>2, <2>1, <2>2
<1>6. CASE Func \/ Type \/ Var \/ Semicolon \/ LBrace \/ RBrace \/ FuncName \/ TypeName
              \/ Punctuation \/ Other
  <2>1. vnames' = vnames
    BY <1>6, Zenon DEF Func, Type, Var, Semicolon, LBrace, RBrace, FuncName, TypeName,
                       Punctuation, Other, names
  <2> QED
    BY <1>2, <2>1
<1> QED
  BY <1>4, <1>5, <1>6 DEF Scanned

\* A block that has not begun to be parsed, or will not be.
LEMMA FreshSteps ==
  ASSUME StartKernel \/ NewBlock \/ RunPlugin \/ Drop
  PROVE  /\ stage' \in {"idle", "parsing"} /\ vnames' = {} /\ at' = 1
         /\ pendingCandidates' = <<>>
<1>1. \E s : Fresh(s)
  BY DEF StartKernel, NewBlock, RunPlugin, Drop, Finish
<1>2. stage' \in {"idle", "parsing"}
  BY DEF StartKernel, NewBlock, RunPlugin, Drop, Finish
<1> QED
  BY <1>1, <1>2 DEF Fresh

LEMMA CodeStep ==
  ASSUME TypeInv, CodeInv, [Next]_allVars
  PROVE  CodeInv'
<1>1. CASE StartKernel \/ NewBlock \/ RunPlugin \/ Drop
  <2>1. /\ stage' # "parsed" /\ \A v \in vnames' : Stands(v)'
    BY <1>1, FreshSteps
  <2>2. pendingCandidates' = <<>>
    BY <1>1, FreshSteps
  <2>3. CandidatesInv'
    <3>1. /\ pendingCandidates' \in Seq([name : STRING, line : Nat])
          /\ DOMAIN pendingCandidates' = {}
      BY <2>2
    <3> QED
      BY <3>1, Zenon DEF CandidatesInv
  <2> QED
    BY <2>1, <2>3, Zenon DEF CodeInv
<1>2. CASE Scanned
  <2>1. stage = "parsing" /\ stage' = "parsing"
    BY <1>2, ScanStep
  <2> QED
    BY <1>2, <2>1, CandidatesStep, StandStep, ScanStep DEF CodeInv
<1>3. CASE SignPanics \/ LinePanics \/ DefineFails
  BY <1>3 DEF SignPanics, LinePanics, DefineFails, CodeInv, CandidatesInv
<1>4. CASE EndOfFile
  <2>1. /\ stage = "parsing" /\ stage' = "parsed" /\ source' = source /\ vnames' = vnames
        /\ lineKinds' = [n \in DOMAIN lineKinds |->
                            IF lineKinds[n] = {} /\ n \in DOMAIN source.tails THEN {"other"}
                            ELSE lineKinds[n]]
    BY <1>4 DEF EndOfFile, names
  <2>2. DOMAIN lineKinds = LinesOf(source) /\ DOMAIN source.tails \subseteq LinesOf(source)
    BY DEF TypeInv, TypeOK, LinesOf
  <2>3. /\ \A n \in LinesOf(source) : lineKinds[n] \subseteq lineKinds'[n]
        /\ \A n \in DOMAIN source.tails : lineKinds'[n] # {}
    BY <2>1, <2>2
  <2>4. Ordered(source) => \A v \in vnames' : Stands(v)'
    BY <2>1, <2>3, StandsStays DEF CodeInv
  <2> QED
    BY <2>1, <2>2, <2>3, <2>4 DEF CodeInv, CandidatesInv
<1>5. CASE UNCHANGED allVars
  BY <1>5 DEF allVars, parseVars, names, CodeInv, CandidatesInv, IsCandidate, Stands
<1> QED
  BY <1>1, <1>2, <1>3, <1>4, <1>5, NextSteps

LEMMA Coded == Spec => []CodeInv
<1>1. Init => CodeInv
  <2>1. SUFFICES ASSUME Init PROVE CodeInv
    OBVIOUS
  <2>2. stage = "idle" /\ vnames = {}
    BY <2>1 DEF Init
  <2> QED
    BY <2>2 DEF CodeInv, CandidatesInv
<1>2. IInv /\ IInv' /\ CodeInv /\ [Next]_allVars => CodeInv'
  BY CodeStep DEF IInv
<1> QED
  BY <1>1, <1>2, Inductive, PTL DEF Spec

\* A line with such a kind is written.
LEMMA CopiesCounted ==
  ASSUME NEW n, lineKinds[n] \cap {"func-name", "func-body"} # {}
  PROVE  Copies(n) > 0
<1> DEFINE S == lineKinds[n] \cap {"func-name", "func-body"}
<1>1. IsFiniteSet({"func-name", "func-body"})
  <2>1. IsFiniteSet({"func-body"})
    BY FS_Singleton, Zenon
  <2>2. {"func-name", "func-body"} = {"func-body"} \cup {"func-name"}
    OBVIOUS
  <2> QED
    BY <2>1, <2>2, FS_AddElement, Zenon
<1>2. IsFiniteSet(S)
  BY <1>1, FS_Subset
<1>3. Cardinality(S) \in Nat /\ Cardinality(S) # 0
  BY <1>2, FS_CardinalityType, FS_EmptySet, Zenon
<1>4. Copies(n) = Cardinality(S)
  BY Zenon DEF Copies
<1> HIDE DEF S
<1> QED
  BY <1>3, <1>4

\* No line of a block is left out of its plugin, and what the exported function stores
\* stands in it, whatever the block is, but for := in strings and comments.
THEOREM Emitting == Spec => []CodeComplete
<1>1. IInv /\ CodeInv => CodeComplete
  <2>1. SUFFICES ASSUME TypeInv, CodeInv, stage = "parsed"
                 PROVE  /\ DOMAIN source.tails \subseteq FuncDefs \cup Mains
                        /\ Ordered(source) => \A v \in vnames : \E i \in DOMAIN source.tokens :
                              source.tokens[i].lit = v /\ source.tokens[i].line \in Mains
    BY Zenon DEF IInv, CodeComplete, Ordered
  <2>2. /\ lineKinds \in [LinesOf(source) -> SUBSET Kinds]
        /\ DOMAIN lineKinds = LinesOf(source) /\ DOMAIN source.tails \subseteq LinesOf(source)
    BY <2>1 DEF TypeInv, TypeOK, LinesOf
  <2>3. \A n \in DOMAIN source.tails :
            n \in 1 .. source.lines /\ lineKinds[n] # {} /\ lineKinds[n] \subseteq Kinds
    <3>1. DOMAIN source.tails \subseteq 1 .. source.lines
      <4>1. CASE source \in Sources
        BY <4>1, SourcesAssumption DEF SourceTyped
      <4>2. CASE source = NoSource
        BY <4>2 DEF NoSource
      <4> QED
        BY <2>1, <4>1, <4>2 DEF TypeInv
    <3>2. \A n \in DOMAIN source.tails : lineKinds[n] # {}
      BY <2>1 DEF CodeInv
    <3> QED
      BY <2>2, <3>1, <3>2
  <2>4. ASSUME NEW n \in DOMAIN source.tails PROVE n \in FuncDefs \cup Mains
    <3>1. n \in DOMAIN lineKinds \cap 1 .. source.lines
      BY <2>2, <2>3
    <3>2. CASE lineKinds[n] \cap {"var-decl", "other"} # {}
      BY <3>1, <3>2, Zenon DEF Mains
    <3>3. CASE lineKinds[n] \cap {"func-name", "func-body"} # {}
      <4>1. Copies(n) > 0
        BY <3>3, CopiesCounted
      <4> QED
        BY <3>1, <4>1, Zenon DEF FuncDefs
    <3> QED
      BY <2>3, <3>2, <3>3 DEF Kinds
  <2>5. ASSUME Ordered(source), NEW v \in vnames
        PROVE  \E i \in DOMAIN source.tokens :
                  source.tokens[i].lit = v /\ source.tokens[i].line \in Mains
    <3>1. PICK i \in 1 .. Size(source) :
             LitOf(source, i) = v /\ "var-decl" \in lineKinds[LineOf(source, i)]
      BY <2>1, <2>5 DEF CodeInv, Stands
    <3>2. /\ i \in DOMAIN source.tokens /\ LineOf(source, i) \in DOMAIN lineKinds
          /\ LineOf(source, i) \in 1 .. source.lines
      BY <2>1, <2>2, <2>5, TextTyped, LinesWritten DEF Ordered
    <3>3. LineOf(source, i) \in Mains
      BY <3>1, <3>2 DEF Mains
    <3> QED
      BY <3>1, <3>2, <3>3, Zenon DEF LitOf, LineOf
  <2> QED
    BY <2>4, <2>5
<1> QED
  BY <1>1, Coded, Inductive, PTL

-----------------------------------------------------------------------------
(* Counting tokens. *)

Opens(s, i, j) == Count(s, i, j, {LeftBrace})
Closes(s, i, j) == Count(s, i, j, {RightBrace})

LEMMA CountTyped ==
  ASSUME NEW s, NEW i \in Int, NEW j \in Int, NEW toks
  PROVE  /\ Count(s, i, j, toks) \in Nat
         /\ IsFiniteSet({k \in i .. j : TokOf(s, k) \in toks})
         /\ Count(s, i, j, toks) = Cardinality({k \in i .. j : TokOf(s, k) \in toks})
         /\ Count(s, i, j, toks) = 0 => \A k \in i .. j : TokOf(s, k) \notin toks
<1> DEFINE Counted == {k \in i .. j : TokOf(s, k) \in toks}
<1>1. Count(s, i, j, toks) = Cardinality(Counted)
  BY Zenon DEF Count, TokOf
<1>2. Counted \in SUBSET (i .. j)
  OBVIOUS
<1>3. IsFiniteSet(Counted)
  BY <1>2, FS_Interval, FS_Subset, Zenon
<1>4. Cardinality(Counted) \in Nat /\ (Cardinality(Counted) = 0 <=> Counted = {})
  BY <1>3, FS_CardinalityType, FS_EmptySet, Zenon
<1> QED
  BY <1>1, <1>3, <1>4, Zenon

\* One token more.
LEMMA CountStep ==
  ASSUME NEW s, NEW i \in Int, NEW j \in Int, i <= j, NEW toks
  PROVE  Count(s, i, j, toks) =
            IF TokOf(s, j) \in toks THEN Count(s, i, j - 1, toks) + 1
                                    ELSE Count(s, i, j - 1, toks)
<1> DEFINE Before == {k \in i .. (j - 1) : TokOf(s, k) \in toks}
           After == {k \in i .. j : TokOf(s, k) \in toks}
<1>1. j - 1 \in Int /\ i .. j = (i .. (j - 1)) \cup {j} /\ j \notin i .. (j - 1)
  OBVIOUS
<1>2. /\ IsFiniteSet(Before) /\ Count(s, i, j - 1, toks) = Cardinality(Before)
      /\ Count(s, i, j, toks) = Cardinality(After)
  <2>1. IsFiniteSet(Before) /\ Count(s, i, j - 1, toks) = Cardinality(Before)
    BY <1>1, CountTyped, ZenonT(40)
  <2>2. Count(s, i, j, toks) = Cardinality(After)
    BY CountTyped, Zenon
  <2> QED
    BY <2>1, <2>2
<1>3. CASE TokOf(s, j) \in toks
  <2>1. After = Before \cup {j} /\ j \notin Before
    BY <1>1, <1>3, Zenon
  <2>2. Cardinality(After) = Cardinality(Before) + 1
    BY <1>2, <2>1, FS_AddElement, Zenon
  <2> QED
    BY <1>2, <1>3, <2>2, Zenon
<1>4. CASE TokOf(s, j) \notin toks
  <2>1. After = Before
    BY <1>1, <1>4, Zenon
  <2> QED
    BY <1>2, <1>4, <2>1, Zenon
<1> QED
  BY <1>3, <1>4

\* Nothing is counted before the first.
LEMMA CountNone ==
  ASSUME NEW s, NEW i \in Int, NEW toks
  PROVE  Count(s, i, i - 1, toks) = 0
<1>1. {k \in i .. (i - 1) : TokOf(s, k) \in toks} = {} /\ i - 1 \in Int
  OBVIOUS
<1>2. Count(s, i, i - 1, toks) = Cardinality({k \in i .. (i - 1) : TokOf(s, k) \in toks})
  BY <1>1, CountTyped, Zenon
<1> QED
  BY <1>1, <1>2, FS_EmptySet

-----------------------------------------------------------------------------
(* Bodies. *)

\* The bodies without a function in them, or a brace in the header.
PlainBodies ==
    {body \in Bodies(source) :
        /\ Count(source, body[1] + 1, body[3], {"func"}) = 0
        /\ Count(source, body[1] + 1, body[2] - 1, {LeftBrace}) = 0}

\* A signature is open from its func to the next brace.
SignatureInv ==
    stage = "parsing" => \A i \in 1 .. (at - 1) :
        /\ TokOf(source, i) = "func"
        /\ \A j \in (i + 1) .. (at - 1) : TokOf(source, j) # LeftBrace
        => funcSignatureOpen

\* In a body Parse is as deep in braces as the body is, and marks what it scans.
DepthInv ==
    stage = "parsing" => \A body \in PlainBodies :
        body[2] < at /\ at <= body[3] =>
            /\ insideFunc /\ ~funcSignatureOpen
            /\ braceDepth = (funcLevel - 1) + Opens(source, body[2], at - 1)
                                            - Closes(source, body[2], at - 1)
BodyMarks ==
    stage \in {"parsing", "parsed"} => \A body \in PlainBodies :
        \A i \in (body[2] + 1) .. body[3] :
            i < at => "func-body" \in lineKinds[LineOf(source, i)]

BodyInv ==
    /\ SignatureInv /\ DepthInv /\ BodyMarks
    /\ stage = "parsed" => at = Size(source) + 1

\* What makes a body.
LEMMA BodyText ==
  ASSUME TypeInv, NEW body \in PlainBodies
  PROVE  /\ body[2] \in 1 .. Size(source) /\ body[3] \in 1 .. Size(source)
         /\ body[2] < body[3] /\ TokOf(source, body[2]) = LeftBrace
         /\ \A l \in body[2] .. body[3] : TokOf(source, l) # "func"
         /\ \E i \in 1 .. (body[2] - 1) :
                /\ TokOf(source, i) = "func"
                /\ \A l \in (i + 1) .. (body[2] - 1) : TokOf(source, l) # LeftBrace
         /\ \A l \in body[2] .. (body[3] - 1) :
                Opens(source, body[2], l) > Closes(source, body[2], l)
<1> DEFINE i == body[1]
           j == body[2]
           k == body[3]
<1>1. /\ i \in DOMAIN source.tokens /\ j \in DOMAIN source.tokens /\ k \in DOMAIN source.tokens
      /\ IsBody(source, i, j, k)
      /\ Count(source, i + 1, k, {"func"}) = 0 /\ Count(source, i + 1, j - 1, {LeftBrace}) = 0
  <2>1. /\ body \in (DOMAIN source.tokens) \X (DOMAIN source.tokens) \X (DOMAIN source.tokens)
        /\ IsBody(source, i, j, k)
    BY Zenon DEF PlainBodies, Bodies
  <2>2. i \in DOMAIN source.tokens /\ j \in DOMAIN source.tokens /\ k \in DOMAIN source.tokens
    BY <2>1
  <2> QED
    BY <2>1, <2>2, Zenon DEF PlainBodies
<1>2. /\ Size(source) \in Nat /\ i \in 1 .. Size(source) /\ j \in 1 .. Size(source)
      /\ k \in 1 .. Size(source)
  BY <1>1, TextTyped
<1> HIDE DEF i, j, k
<1>3. j < k /\ i < j /\ TokOf(source, j) = LeftBrace /\ TokOf(source, i) = "func"
  BY <1>1, Zenon DEF IsBody, IsHeader, TokOf, LeftBrace
<1>4. \A l \in j .. k : TokOf(source, l) # "func"
  <2>1. i + 1 \in Int /\ k \in Int /\ \A l \in j .. k : l \in (i + 1) .. k
    BY <1>2, <1>3
  <2>2. \A l \in (i + 1) .. k : TokOf(source, l) \notin {"func"}
    BY <1>1, <2>1, CountTyped, Zenon
  <2> QED
    BY <2>1, <2>2, Zenon
<1>5. i \in 1 .. (j - 1)
  BY <1>2, <1>3
<1>6. \A l \in (i + 1) .. (j - 1) : TokOf(source, l) # LeftBrace
  <2>1. i + 1 \in Int /\ j - 1 \in Int
    BY <1>2
  <2>2. \A l \in (i + 1) .. (j - 1) : TokOf(source, l) \notin {LeftBrace}
    BY <1>1, <2>1, CountTyped, Zenon
  <2> QED
    BY <2>2, Zenon
<1>7. \A l \in j .. (k - 1) : Opens(source, j, l) > Closes(source, j, l)
  <2>1. ASSUME NEW l \in j .. (k - 1)
        PROVE  Opens(source, j, l) > Closes(source, j, l)
    <3>1. Opens(source, j, l) - Closes(source, j, l) > 0
      BY <1>1, Zenon DEF IsBody, Depth, Opens, Closes, LeftBrace, RightBrace
    <3>2. Opens(source, j, l) \in Nat /\ Closes(source, j, l) \in Nat
      <4>1. j \in Int /\ l \in Int
        BY <1>2
      <4> QED
        BY <4>1, CountTyped, Zenon DEF Opens, Closes
    <3> QED
      BY <3>1, <3>2
  <2> QED
    BY <2>1
<1> QED
  BY <1>2, <1>3, <1>4, <1>5, <1>6, <1>7 DEF j, k

\* What a step of the scanner does to the braces and the signature.
LEMMA NestingSteps ==
  ASSUME Scanned
  PROVE  \/ /\ TokOf(source, at) = LeftBrace
            /\ braceDepth' = braceDepth + 1 /\ insideFunc' = (insideFunc \/ funcSignatureOpen)
            /\ funcLevel' = IF funcSignatureOpen THEN braceDepth + 1 ELSE funcLevel
            /\ funcSignatureOpen' = FALSE
         \/ /\ TokOf(source, at) = RightBrace
            /\ braceDepth' = IF braceDepth > 0 THEN braceDepth - 1 ELSE 0
            /\ insideFunc' = (insideFunc /\ ~(insideFunc /\ braceDepth' < funcLevel))
            /\ funcLevel' = IF insideFunc /\ braceDepth' < funcLevel THEN -1 ELSE funcLevel
            /\ funcSignatureOpen' = funcSignatureOpen
         \/ /\ TokOf(source, at) = "func"
            /\ funcSignatureOpen' = TRUE
            /\ UNCHANGED <<braceDepth, insideFunc, funcLevel>>
         \/ /\ TokOf(source, at) \notin {LeftBrace, RightBrace, "func"}
            /\ UNCHANGED <<braceDepth, insideFunc, funcLevel, funcSignatureOpen>>
<1> USE DEF nesting, expecting, Tok, TokOf, Scan
<1>1. CASE LBrace
  BY <1>1, Zenon DEF LBrace, LeftBrace
<1>2. CASE RBrace
  BY <1>2, Zenon DEF RBrace, RightBrace
<1>3. CASE Func
  BY <1>3, Zenon DEF Func
<1>4. CASE Type \/ Var \/ Semicolon \/ FuncName \/ TypeName \/ Ident \/ Punctuation \/ Other
              \/ Define
  <2>1. Tok.tok \in {"type", "var", ";", "ident", "(", ")", ",", "other", ":="}
    BY <1>4, Zenon DEF Type, Var, Semicolon, FuncName, TypeName, Ident, Punctuation, Other,
                       Define
  <2>2. TokOf(source, at) \notin {LeftBrace, RightBrace, "func"}
    BY <2>1, Zenon DEF LeftBrace, RightBrace
  <2>3. UNCHANGED <<braceDepth, insideFunc, funcLevel, funcSignatureOpen>>
    BY <1>4, Zenon DEF Type, Var, Semicolon, FuncName, TypeName, Ident, Punctuation, Other,
                       Define
  <2> QED
    BY <2>2, <2>3
<1> QED
  BY <1>1, <1>2, <1>3, <1>4, Zenon DEF Scanned

LEMMA SignatureOpenStep ==
  ASSUME TypeInv, SignatureInv, Scanned
  PROVE  SignatureInv'
<1>1. /\ at \in Nat /\ at' = at + 1 /\ at' - 1 = at
      /\ stage = "parsing" /\ source' = source
  BY ScanStep
<1>2. SUFFICES ASSUME NEW i \in 1 .. at, TokOf(source, i) = "func",
                      \A j \in (i + 1) .. at : TokOf(source, j) # LeftBrace
               PROVE  funcSignatureOpen'
  BY <1>1, Zenon DEF SignatureInv
<1>3. CASE i = at
  BY <1>2, <1>3, NestingSteps, TokensDiffer, Zenon
<1>4. CASE i # at
  <2>1. i \in 1 .. (at - 1) /\ at \in (i + 1) .. at
        /\ \A j \in (i + 1) .. (at - 1) : j \in (i + 1) .. at
    BY <1>1, <1>4
  <2>2. funcSignatureOpen
    BY <1>1, <1>2, <2>1, Zenon DEF SignatureInv
  <2> QED
    BY <1>2, <2>1, <2>2, NestingSteps, Zenon
<1> QED
  BY <1>3, <1>4

\* The depth in a body, step by step: at its brace it begins, and no brace before the one
\* that closes it takes Parse out of it.
LEMMA DepthStep ==
  ASSUME TypeInv, Nested, SignatureInv, DepthInv, Scanned
  PROVE  DepthInv'
<1>1. /\ at \in Nat /\ at' = at + 1 /\ at' - 1 = at /\ at \in 1 .. Size(source)
      /\ stage = "parsing" /\ stage' = "parsing" /\ source' = source /\ Size(source) \in Nat
  BY ScanStep
<1>2. SUFFICES ASSUME NEW body \in PlainBodies, body[2] < at + 1, at + 1 <= body[3]
               PROVE  /\ insideFunc' /\ ~funcSignatureOpen'
                      /\ braceDepth' = (funcLevel' - 1) + Opens(source, body[2], at)
                                                        - Closes(source, body[2], at)
  BY <1>1, Zenon DEF DepthInv, PlainBodies
<1> DEFINE j == body[2]
           k == body[3]
<1>3. /\ j \in 1 .. Size(source) /\ k \in 1 .. Size(source) /\ TokOf(source, j) = LeftBrace
      /\ \A l \in j .. k : TokOf(source, l) # "func"
      /\ \A l \in j .. (k - 1) : Opens(source, j, l) > Closes(source, j, l)
  BY BodyText, Zenon
<1>4. /\ braceDepth \in Nat /\ funcLevel \in Int
      /\ insideFunc \in BOOLEAN /\ funcSignatureOpen \in BOOLEAN
  BY DEF TypeInv, TypeOK
<1>5. j < at + 1 /\ at + 1 <= k
  BY <1>2
<1>6. j \in Int /\ k \in Int /\ at \in Int /\ at - 1 \in Int /\ j <= at /\ at \in j .. (k - 1)
      /\ at \in j .. k
  BY <1>1, <1>3, <1>5
<1>7. /\ Opens(source, j, at) \in Nat /\ Closes(source, j, at) \in Nat
      /\ Opens(source, j, at - 1) \in Nat /\ Closes(source, j, at - 1) \in Nat
  BY <1>6, CountTyped, Zenon DEF Opens, Closes
<1>8. /\ Opens(source, j, at) = IF TokOf(source, at) = LeftBrace
                                THEN Opens(source, j, at - 1) + 1 ELSE Opens(source, j, at - 1)
      /\ Closes(source, j, at) = IF TokOf(source, at) = RightBrace
                                 THEN Closes(source, j, at - 1) + 1
                                 ELSE Closes(source, j, at - 1)
  <2>1. ASSUME NEW tok
        PROVE  Count(source, j, at, {tok}) = IF TokOf(source, at) = tok
                                             THEN Count(source, j, at - 1, {tok}) + 1
                                             ELSE Count(source, j, at - 1, {tok})
    <3>1. TokOf(source, at) \in {tok} <=> TokOf(source, at) = tok
      OBVIOUS
    <3>2. Count(source, j, at, {tok}) = IF TokOf(source, at) \in {tok}
                                        THEN Count(source, j, at - 1, {tok}) + 1
                                        ELSE Count(source, j, at - 1, {tok})
      BY <1>6, CountStep
    <3> QED
      BY <3>1, <3>2, Zenon
  <2> QED
    BY <2>1, Zenon DEF Opens, Closes
<1>9. Opens(source, j, at) > Closes(source, j, at) /\ TokOf(source, at) # "func"
  BY <1>3, <1>6
<1>10. CASE at = j
  <2>1. Opens(source, j, j - 1) = 0 /\ Closes(source, j, j - 1) = 0
    BY <1>6, CountNone, Zenon DEF Opens, Closes
  <2>2. Opens(source, j, at) = 1 /\ Closes(source, j, at) = 0
    BY <1>3, <1>8, <1>10, <2>1, TokensDiffer
  <2>3. funcSignatureOpen
    <3>1. PICK i \in 1 .. (j - 1) :
            /\ TokOf(source, i) = "func"
            /\ \A l \in (i + 1) .. (j - 1) : TokOf(source, l) # LeftBrace
      BY BodyText
    <3> QED
      BY <1>1, <1>10, <3>1, Zenon DEF SignatureInv
  <2>4. /\ braceDepth' = braceDepth + 1 /\ insideFunc' = (insideFunc \/ funcSignatureOpen)
        /\ funcLevel' = IF funcSignatureOpen THEN braceDepth + 1 ELSE funcLevel
        /\ funcSignatureOpen' = FALSE
    BY <1>3, <1>10, NestingSteps, TokensDiffer, Zenon
  <2>5. insideFunc' /\ ~funcSignatureOpen' /\ funcLevel' = braceDepth + 1
    BY <2>3, <2>4, Zenon
  <2>6. braceDepth' = (funcLevel' - 1) + 1 - 0
    BY <1>4, <2>4, <2>5
  <2> QED
    BY <2>2, <2>5, <2>6, Zenon
<1>11. CASE at # j
  <2>1. j < at /\ at <= k
    BY <1>1, <1>6, <1>11
  <2>2. /\ insideFunc /\ ~funcSignatureOpen
        /\ braceDepth = (funcLevel - 1) + Opens(source, j, at - 1) - Closes(source, j, at - 1)
    BY <1>1, <2>1 DEF DepthInv
  <2>3. 1 <= funcLevel
    BY <2>2 DEF Nested
  <2>4. CASE TokOf(source, at) = LeftBrace
    <3>1. /\ insideFunc' /\ ~funcSignatureOpen' /\ funcLevel' = funcLevel
          /\ braceDepth' = braceDepth + 1
      BY <2>2, <2>4, NestingSteps, TokensDiffer, Zenon
    <3>2. /\ Opens(source, j, at) = Opens(source, j, at - 1) + 1
          /\ Closes(source, j, at) = Closes(source, j, at - 1)
      BY <1>8, <2>4, TokensDiffer, Zenon
    <3>3. braceDepth' = (funcLevel' - 1) + Opens(source, j, at) - Closes(source, j, at)
      BY <1>4, <1>7, <2>2, <3>1, <3>2
    <3> QED
      BY <3>1, <3>3
  <2>5. CASE TokOf(source, at) = RightBrace
    <3>1. /\ braceDepth' = IF braceDepth > 0 THEN braceDepth - 1 ELSE 0
          /\ insideFunc' = (insideFunc /\ ~(insideFunc /\ braceDepth' < funcLevel))
          /\ funcLevel' = IF insideFunc /\ braceDepth' < funcLevel THEN -1 ELSE funcLevel
          /\ funcSignatureOpen' = funcSignatureOpen
      BY <2>5, NestingSteps, TokensDiffer, Zenon
    <3>2. /\ Opens(source, j, at) = Opens(source, j, at - 1)
          /\ Closes(source, j, at) = Closes(source, j, at - 1) + 1
      BY <1>8, <2>5, TokensDiffer, Zenon
    <3>3. braceDepth > 0 /\ braceDepth - 1 >= funcLevel
      BY <1>4, <1>7, <1>9, <2>2, <2>3, <3>2
    <3>4. braceDepth' = braceDepth - 1
      BY <3>1, <3>3, Zenon
    <3>5. ~(braceDepth' < funcLevel)
      BY <1>4, <3>3, <3>4
    <3>6. insideFunc' /\ ~funcSignatureOpen' /\ funcLevel' = funcLevel
      BY <2>2, <3>1, <3>5, Zenon
    <3>7. braceDepth' = (funcLevel' - 1) + Opens(source, j, at) - Closes(source, j, at)
      BY <1>4, <1>7, <2>2, <3>2, <3>4, <3>6
    <3> QED
      BY <3>6, <3>7
  <2>6. CASE TokOf(source, at) # LeftBrace /\ TokOf(source, at) # RightBrace
    <3>1. UNCHANGED <<braceDepth, insideFunc, funcLevel, funcSignatureOpen>>
      BY <1>9, <2>6, NestingSteps, Zenon
    <3>2. /\ Opens(source, j, at) = Opens(source, j, at - 1)
          /\ Closes(source, j, at) = Closes(source, j, at - 1)
      BY <1>8, <2>6, Zenon
    <3> QED
      BY <2>2, <3>1, <3>2, Zenon
  <2> QED
    BY <2>4, <2>5, <2>6
<1> QED
  BY <1>10, <1>11

\* Every token of a body is scanned with insideFunc set.
LEMMA BodyMarksStep ==
  ASSUME TypeInv, DepthInv, BodyMarks, Scanned
  PROVE  BodyMarks'
<1>1. /\ at \in Nat /\ at' = at + 1 /\ at \in 1 .. Size(source) /\ Size(source) \in Nat
      /\ stage = "parsing" /\ source' = source /\ at <= Len(source.tokens)
      /\ \A n \in LinesOf(source) : lineKinds[n] \subseteq lineKinds'[n]
  BY ScanStep
<1>2. PICK kinds : Mark(kinds)
  BY ScannedSteps
<1>3. SUFFICES ASSUME NEW body \in PlainBodies, NEW i \in (body[2] + 1) .. body[3], i < at + 1
               PROVE  "func-body" \in lineKinds'[LineOf(source, i)]
  BY <1>1, Zenon DEF BodyMarks, PlainBodies
<1>4. /\ body[2] \in 1 .. Size(source) /\ body[3] \in 1 .. Size(source)
  BY BodyText
<1>5. i \in 1 .. Size(source) /\ LineOf(source, i) \in LinesOf(source)
  <2>1. i \in 1 .. Size(source)
    BY <1>1, <1>4
  <2> QED
    BY <2>1, TextTyped
<1>6. CASE i < at
  <2>1. "func-body" \in lineKinds[LineOf(source, i)]
    BY <1>1, <1>6, Zenon DEF BodyMarks
  <2> QED
    BY <1>1, <1>5, <2>1
<1>7. CASE i = at
  <2>1. body[2] < at /\ at <= body[3]
    BY <1>1, <1>4, <1>7
  <2>2. insideFunc
    BY <1>1, <2>1, Zenon DEF DepthInv
  <2>3. lineKinds'[LineOf(source, at)] = lineKinds[LineOf(source, at)] \cup kinds
                                    \cup (IF insideFunc THEN {"func-body"} ELSE {})
    BY <1>1, <1>2, MarksGrow, Zenon
  <2> QED
    BY <1>7, <2>2, <2>3, Zenon
<1>8. i < at \/ i = at
  BY <1>1, <1>3, <1>4
<1> QED
  BY <1>6, <1>7, <1>8

LEMMA BodyStep ==
  ASSUME TypeInv, Nested, BodyInv, [Next]_allVars
  PROVE  BodyInv'
<1>1. CASE StartKernel \/ NewBlock \/ RunPlugin \/ Drop
  <2>1. stage' \in {"idle", "parsing"} /\ at' = 1
    BY <1>1, FreshSteps
  <2>2. 1 .. (at' - 1) = {}
    BY <2>1
  <2>3. ASSUME NEW body \in PlainBodies', at' > body[2] \/ \E i \in (body[2] + 1) .. body[3] : i < at'
        PROVE  FALSE
    <3>1. source' \in Sources \cup {NoSource}
      <4>1. PICK s \in Sources \cup {NoSource} : Fresh(s)
        BY <1>1 DEF StartKernel, NewBlock, RunPlugin, Drop, Finish
      <4> QED
        BY <4>1 DEF Fresh
    <3>2. source'.tokens \in Seq([tok : STRING, lit : STRING, line : Nat \ {0}])
      BY <3>1, TokensTyped
    <3>3. body[2] \in DOMAIN source'.tokens
      <4>1. body \in (DOMAIN source'.tokens) \X (DOMAIN source'.tokens) \X (DOMAIN source'.tokens)
        BY Zenon DEF PlainBodies, Bodies
      <4> QED
        BY <4>1
    <3>4. body[2] \in Nat /\ body[2] >= 1
      BY <3>2, <3>3
    <3> QED
      BY <2>1, <2>3, <3>4
  <2>4. SignatureInv'
    BY <2>2 DEF SignatureInv
  <2>5. DepthInv'
    BY <2>1, <2>3 DEF DepthInv
  <2>6. BodyMarks'
    BY <2>1, <2>3 DEF BodyMarks
  <2> QED
    BY <2>1, <2>4, <2>5, <2>6 DEF BodyInv
<1>2. CASE Scanned
  <2>1. stage' # "parsed"
    BY <1>2, ScanStep
  <2> QED
    BY <1>2, <2>1, SignatureOpenStep, DepthStep, BodyMarksStep, Zenon DEF BodyInv
<1>3. CASE SignPanics \/ LinePanics \/ DefineFails
  BY <1>3 DEF SignPanics, LinePanics, DefineFails, BodyInv, SignatureInv, DepthInv, BodyMarks
<1>4. CASE EndOfFile
  <2>1. /\ stage = "parsing" /\ stage' = "parsed" /\ source' = source /\ at' = at
        /\ at > Len(source.tokens)
        /\ lineKinds' = [n \in DOMAIN lineKinds |->
                            IF lineKinds[n] = {} /\ n \in DOMAIN source.tails THEN {"other"}
                            ELSE lineKinds[n]]
    BY <1>4 DEF EndOfFile
  <2>2. at' = Size(source') + 1
    BY <2>1, TextTyped DEF Size
  <2>3. DOMAIN lineKinds = LinesOf(source)
    BY DEF TypeInv, TypeOK
  <2>4. \A n \in LinesOf(source) : lineKinds[n] \subseteq lineKinds'[n]
    BY <2>1, <2>3
  <2>5. BodyMarks'
    <3>1. SUFFICES ASSUME NEW body \in PlainBodies, NEW i \in (body[2] + 1) .. body[3], i < at
                   PROVE  "func-body" \in lineKinds'[LineOf(source, i)]
      BY <2>1, Zenon DEF BodyMarks, PlainBodies
    <3>2. i \in 1 .. Size(source)
      BY <3>1, BodyText, TextTyped
    <3>3. "func-body" \in lineKinds[LineOf(source, i)]
      BY <2>1, <3>1, Zenon DEF BodyInv, BodyMarks
    <3> QED
      BY <2>4, <3>2, <3>3, TextTyped
  <2> QED
    BY <2>1, <2>2, <2>5, Zenon DEF BodyInv, SignatureInv, DepthInv
<1>5. CASE UNCHANGED allVars
  BY <1>5, Zenon DEF allVars, parseVars, names, nesting, expecting, BodyInv, SignatureInv,
                     DepthInv, BodyMarks, PlainBodies
<1> QED
  BY <1>1, <1>2, <1>3, <1>4, <1>5, NextSteps

\* The body of a function that has no function in it, nor braces in its header, is in
\* front of the exported function as a whole, whatever braces it has itself.
THEOREM WholeBodies == Spec => []BodiesWhole
<1>1. Init => BodyInv
  BY DEF Init, BodyInv, SignatureInv, DepthInv, BodyMarks
<1>2. IInv /\ IInv' /\ BodyInv /\ [Next]_allVars => BodyInv'
  BY BodyStep DEF IInv
<1>3. IInv /\ BodyInv => BodiesWhole
  <2>1. SUFFICES ASSUME TypeInv, BodyInv, stage = "parsed", ~source.directive,
                        NEW body \in PlainBodies, NEW i \in (body[2] + 1) .. body[3]
                 PROVE  LineOf(source, i) \in FuncDefs
    BY Zenon DEF IInv, BodiesWhole, PlainBodies, LineOf, LeftBrace
  <2>2. /\ Size(source) \in Nat /\ body[3] \in 1 .. Size(source) /\ body[2] \in 1 .. Size(source)
    BY <2>1, TextTyped, BodyText
  <2>3. at = Size(source) + 1
    BY <2>1 DEF BodyInv
  <2>4. i \in 1 .. Size(source) /\ i < at
    BY <2>2, <2>3
  <2>5. "func-body" \in lineKinds[LineOf(source, i)]
    BY <2>1, <2>4, Zenon DEF BodyInv, BodyMarks
  <2>6. LineOf(source, i) \in DOMAIN lineKinds \cap 1 .. source.lines
    BY <2>1, <2>4, TextTyped, LinesWritten DEF TypeInv, TypeOK
  <2>7. Copies(LineOf(source, i)) > 0
    BY <2>5, CopiesCounted
  <2> QED
    BY <2>6, <2>7, Zenon DEF FuncDefs
<1> QED
  BY <1>1, <1>2, <1>3, Inductive, PTL DEF Spec

=============================================================================
