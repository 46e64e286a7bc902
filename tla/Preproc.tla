------------------------------ MODULE Preproc ------------------------------
(***************************************************************************)
(* The preprocessor of noted-runner, over the blocks of a session.         *)
(*                                                                         *)
(* Block.Parse scans a block token by token, marks its lines, and collects *)
(* the names it declares and those it takes from earlier blocks, which     *)
(* KernelTypes keeps for the session.  FormExportFunc turns lines and      *)
(* names into a plugin, whose exported function looks the reused names up  *)
(* in the kernel's two maps, asserts their types, and stores the declared  *)
(* ones.  A step of Parse is a token; what the plugin then does to the     *)
(* maps of the kernel, if it is built and run at all, is one step.         *)
(*                                                                         *)
(* snames and KernelTypes.types, with the state that only they depend on,  *)
(* are left out: they are written and never read.  So is ClearImports,     *)
(* which has no state: a plugin that it spoils does not run.               *)
(***************************************************************************)
EXTENDS GoBlock

CONSTANTS
    Sources,     \* the contents of blocks
    GoTypes,     \* types of Go, each as the sequence of the words it is written with
    MaxBlocks    \* bound on the blocks of a session

ASSUME SourcesAssumption ==
    /\ \A s \in Sources : SourceTyped(s) /\ (~s.directive => InOrder(s))
    /\ GoTypes \subseteq Seq(STRING)
    /\ MaxBlocks \in Nat

Kinds == {"func-name", "func-body", "var-decl", "other"}

VARIABLES
    stage,               \* where RunBlock stands
    source,              \* Block.content
    at,                  \* the scanner's offset, in tokens
    lineKinds, fnames, vnames, reusedFuncs, reusedVars,     \* of Block
    defined,             \* the names of vnames whose type was recorded
    braceDepth, insideFunc, funcLevel,                      \* of Parse
    funcSignatureOpen, lastWasFuncKeyword, lastWasTypeKeyword,
    inVarDecl, pendingCandidates,
    funcs, vars,         \* of KernelTypes: the text of the type of each name
    funcMap, varMap,     \* the kernel's maps: the type that each stored value has in Go
    lost,                \* names declared by blocks that came to nothing
    unspelt,             \* names stored by blocks that do not show their types, or not as Go
    blocks               \* how many blocks the session has had

nesting == <<braceDepth, insideFunc, funcLevel>>
expecting == <<funcSignatureOpen, lastWasFuncKeyword, lastWasTypeKeyword, inVarDecl>>
names == <<fnames, vnames, reusedFuncs, reusedVars, defined>>
types == <<funcs, vars>>
kernel == <<funcMap, varMap, lost, unspelt>>
parseVars == <<at, lineKinds, names, nesting, expecting, pendingCandidates>>
allVars == <<stage, source, parseVars, types, kernel, blocks>>

NoSource == [tokens |-> <<>>, tails |-> <<>>, defines |-> <<>>, lines |-> 0, directive |-> FALSE]
NoMap == [n \in {} |-> <<>>]

Init ==
    /\ stage = "idle" /\ source = NoSource /\ at = 1 /\ lineKinds = <<>>
    /\ fnames = <<>> /\ vnames = {} /\ reusedFuncs = {} /\ reusedVars = {} /\ defined = {}
    /\ braceDepth = 0 /\ insideFunc = FALSE /\ funcLevel = -1
    /\ funcSignatureOpen = FALSE /\ lastWasFuncKeyword = FALSE
    /\ lastWasTypeKeyword = FALSE /\ inVarDecl = FALSE /\ pendingCandidates = <<>>
    /\ funcs = NoMap /\ vars = NoMap /\ funcMap = NoMap /\ varMap = NoMap
    /\ lost = {} /\ unspelt = {} /\ blocks = 0

\* The lines that can have a kind.
LinesOf(s) == DOMAIN s.tails \cup {s.tokens[i].line : i \in DOMAIN s.tokens}

\* NewBlock and the declarations at the head of Parse.
Fresh(s) ==
    /\ source' = s /\ at' = 1
    /\ lineKinds' = [n \in LinesOf(s) |-> {}]
    /\ fnames' = <<>> /\ vnames' = {} /\ reusedFuncs' = {} /\ reusedVars' = {}
    /\ defined' = {}
    /\ braceDepth' = 0 /\ insideFunc' = FALSE /\ funcLevel' = -1
    /\ funcSignatureOpen' = FALSE /\ lastWasFuncKeyword' = FALSE
    /\ lastWasTypeKeyword' = FALSE /\ inVarDecl' = FALSE /\ pendingCandidates' = <<>>

\* NewKernelTypes, and a kernel with nothing in its maps.
StartKernel ==
    /\ stage \in {"idle", "panicked"}
    /\ stage' = "idle" /\ Fresh(NoSource)
    /\ funcs' = NoMap /\ vars' = NoMap /\ funcMap' = NoMap /\ varMap' = NoMap
    /\ lost' = {} /\ unspelt' = {} /\ blocks' = 0

NewBlock ==
    /\ stage = "idle" /\ blocks < MaxBlocks
    /\ stage' = "parsing"
    /\ \E s \in Sources : Fresh(s)
    /\ blocks' = blocks + 1
    /\ UNCHANGED <<types, kernel>>

-----------------------------------------------------------------------------
(* Parse: keywords, braces and what ends a statement. *)

Tok == source.tokens[at]

Scan(toks) ==
    /\ stage = "parsing" /\ at <= Len(source.tokens) /\ Tok.tok \in toks
    /\ at' = at + 1
    /\ UNCHANGED <<stage, source, kernel, blocks>>

Mark(kinds) ==
    lineKinds' = [lineKinds EXCEPT ![Tok.line] =
                    @ \cup kinds \cup (IF insideFunc THEN {"func-body"} ELSE {})]

Func ==
    /\ Scan({"func"}) /\ Mark({})
    /\ lastWasFuncKeyword' = TRUE /\ funcSignatureOpen' = TRUE
    /\ UNCHANGED <<names, nesting, lastWasTypeKeyword, inVarDecl, pendingCandidates, types>>

Type ==
    /\ Scan({"type"}) /\ Mark({})
    /\ lastWasTypeKeyword' = TRUE
    /\ UNCHANGED <<names, nesting, funcSignatureOpen, lastWasFuncKeyword, inVarDecl,
                   pendingCandidates, types>>

Var ==
    /\ Scan({"var"}) /\ Mark({})
    /\ inVarDecl' = TRUE /\ pendingCandidates' = <<>>
    /\ UNCHANGED <<names, nesting, funcSignatureOpen, lastWasFuncKeyword,
                   lastWasTypeKeyword, types>>

\* MUTANT: the candidates of a statement stay for the next one.
SemicolonKeeping ==
    /\ Scan({";"}) /\ Mark({})
    /\ inVarDecl' = FALSE /\ lastWasFuncKeyword' = FALSE
    /\ UNCHANGED <<names, nesting, funcSignatureOpen, lastWasTypeKeyword,
                   pendingCandidates, types>>

Semicolon ==
    /\ Scan({";"}) /\ Mark({})
    /\ inVarDecl' = FALSE /\ pendingCandidates' = <<>> /\ lastWasFuncKeyword' = FALSE
    /\ UNCHANGED <<names, nesting, funcSignatureOpen, lastWasTypeKeyword, types>>

LBrace ==
    /\ Scan({"{"}) /\ Mark({})
    /\ braceDepth' = braceDepth + 1
    /\ insideFunc' = (insideFunc \/ funcSignatureOpen)
    /\ funcLevel' = IF funcSignatureOpen THEN braceDepth + 1 ELSE funcLevel
    /\ funcSignatureOpen' = FALSE
    /\ UNCHANGED <<names, lastWasFuncKeyword, lastWasTypeKeyword, inVarDecl,
                   pendingCandidates, types>>

\* MUTANT: the brace that opened the body does not count.
RBraceLate ==
    /\ Scan({"}"}) /\ Mark({})
    /\ braceDepth' = IF braceDepth > 0 THEN braceDepth - 1 ELSE 0
    /\ LET left == insideFunc /\ braceDepth' < funcLevel - 1
       IN  /\ insideFunc' = (insideFunc /\ ~left)
           /\ funcLevel' = IF left THEN -1 ELSE funcLevel
    /\ UNCHANGED <<names, expecting, pendingCandidates, types>>

\* MUTANT: a block nested in the body ends the body.
RBraceEarly ==
    /\ Scan({"}"}) /\ Mark({})
    /\ braceDepth' = IF braceDepth > 0 THEN braceDepth - 1 ELSE 0
    /\ LET left == insideFunc /\ braceDepth' <= funcLevel
       IN  /\ insideFunc' = (insideFunc /\ ~left)
           /\ funcLevel' = IF left THEN -1 ELSE funcLevel
    /\ UNCHANGED <<names, expecting, pendingCandidates, types>>

RBrace ==
    /\ Scan({"}"}) /\ Mark({})
    /\ braceDepth' = IF braceDepth > 0 THEN braceDepth - 1 ELSE 0
    /\ LET left == insideFunc /\ braceDepth' < funcLevel
       IN  /\ insideFunc' = (insideFunc /\ ~left)
           /\ funcLevel' = IF left THEN -1 ELSE funcLevel
    /\ UNCHANGED <<names, expecting, pendingCandidates, types>>

-----------------------------------------------------------------------------
(* Parse: names. *)

Put(map, n, type) == [m \in DOMAIN map \cup {n} |-> IF m = n THEN type ELSE map[m]]

\* MUTANT: the block does not learn that it declares the function.
FuncNameForgotten ==
    /\ Scan({"ident"}) /\ lastWasFuncKeyword /\ Mark({"func-name"})
    /\ funcs' = Put(funcs, Tok.lit, <<"func">>)
    /\ lastWasFuncKeyword' = FALSE
    /\ UNCHANGED <<names, nesting, funcSignatureOpen,
                   lastWasTypeKeyword, inVarDecl, pendingCandidates, vars>>

FuncName ==
    /\ Scan({"ident"}) /\ lastWasFuncKeyword /\ Mark({"func-name"})
    /\ fnames' = Append(fnames, Tok.lit)
    /\ funcs' = Put(funcs, Tok.lit, <<"func">>)
    /\ lastWasFuncKeyword' = FALSE
    /\ UNCHANGED <<vnames, reusedFuncs, reusedVars, defined, nesting, funcSignatureOpen,
                   lastWasTypeKeyword, inVarDecl, pendingCandidates, vars>>

TypeName ==
    /\ Scan({"ident"}) /\ ~lastWasFuncKeyword /\ lastWasTypeKeyword /\ Mark({})
    /\ lastWasTypeKeyword' = FALSE
    /\ UNCHANGED <<names, nesting, funcSignatureOpen, lastWasFuncKeyword, inVarDecl,
                   pendingCandidates, types>>

\* What an open signature takes into the text of the function's type.
Signs == funcSignatureOpen
            /\ (Tok.tok \in {"(", ")", ","} \/ (Tok.tok = "ident" /\ Tok.lit \in knownTypes))

\* The type that an open signature belongs to is that of the last name.
Sign == funcs' = IF Signs THEN [funcs EXCEPT ![Last(fnames)] = Append(@, Tok.lit)] ELSE funcs

\* fnames[len(fnames)-1] of a block that has named no function: the process ends.
SignPanics ==
    /\ stage = "parsing" /\ at <= Len(source.tokens)
    /\ Signs /\ fnames = <<>>
    /\ Tok.tok = "ident" => ~lastWasFuncKeyword /\ ~lastWasTypeKeyword
    /\ stage' = "panicked"
    /\ UNCHANGED <<source, parseVars, types, kernel, blocks>>

\* A name in a var declaration is declared if it is the first of its line; one that
\* is not in any may be declared by a := to come, or be one of the session.
Ident ==
    /\ Scan({"ident"}) /\ ~lastWasFuncKeyword /\ ~lastWasTypeKeyword
    /\ Signs => fnames # <<>>
    /\ Sign
    /\ Mark(IF inVarDecl THEN {"var-decl"} ELSE {})
    /\ vnames' = IF inVarDecl /\ "var-decl" \notin lineKinds[Tok.line]
                 THEN vnames \cup {Tok.lit} ELSE vnames
    /\ pendingCandidates' = IF inVarDecl THEN pendingCandidates
                            ELSE Append(pendingCandidates, [name |-> Tok.lit, line |-> Tok.line])
    /\ reusedVars' = reusedVars \cup ({Tok.lit} \cap DOMAIN vars)
    /\ reusedFuncs' = reusedFuncs \cup ({Tok.lit} \cap DOMAIN funcs)
    /\ UNCHANGED <<fnames, defined, nesting, expecting, vars>>

Punctuation ==
    /\ Scan({"(", ")", ","}) /\ Mark({})
    /\ Signs => fnames # <<>>
    /\ Sign
    /\ UNCHANGED <<names, nesting, expecting, pendingCandidates, vars>>

Other ==
    /\ Scan({"other"}) /\ Mark({})
    /\ UNCHANGED <<names, nesting, expecting, pendingCandidates, types>>

-----------------------------------------------------------------------------
(* Parse: what := declares, and parseLineType. *)

\* What a text is between its commas.
Cut(text) ==
    LET commas(n) == {i \in 1 .. n : text[i] = ","}
        last == Cardinality(commas(Len(text))) + 1
        bound(k) == IF k = 0 THEN 0 ELSE IF k = last THEN Len(text) + 1
                    ELSE CHOOSE c \in commas(Len(text)) : Cardinality(commas(c)) = k
    IN  [k \in 1 .. last |-> SubSeq(text, bound(k - 1) + 1, bound(k) - 1)]

\* The text of a function's type behind its parameters, without its parentheses.
ResultText(type) ==
    LET close == CHOOSE i \in DOMAIN type :
                    type[i] = ")" /\ \A j \in 1 .. (i - 1) : type[j] # ")"
        text == SubSeq(type, close + 1, Len(type))
    IN  IF text # <<>> /\ Head(text) = "(" /\ Last(text) = ")"
        THEN SubSeq(text, 2, Len(text) - 1) ELSE text

\* The types of a call: none for a function without results, or of unknown name.
CallTypes(f) ==
    LET results == Cut(ResultText(funcs[f]))
    IN  IF results = << <<>> >> THEN <<>> ELSE results

\* An expression has no type if its text shows none; its text has to parse, the package
\* of a call to be loaded, and the signature of a function to have been closed.
Resolves(value) ==
    CASE value.form = "garbage" -> FALSE
      [] value.form = "packageCall" -> value.of # ""
      [] value.form \in {"call", "likeCall"} ->
            value.of \in DOMAIN funcs => Contains(funcs[value.of], ")")
      [] OTHER -> TRUE

\* What parseLineType sees of an expression: itself, or what its function returns.
ValueTypes(value) ==
    CASE value.form \in {"literal", "composite", "pointer", "packageCall", "mistaken"} -> <<value>>
      [] value.form \in {"call", "likeCall"} /\ value.of \in DOMAIN funcs ->
            [i \in DOMAIN CallTypes(value.of) |->
                [form |-> "result", of |-> CallTypes(value.of)[i]]]
      [] OTHER -> <<>>

\* The text of a type; strings.ToLower(v.Kind.String()) of a literal.
LowerKind(kind) == CASE kind = "INT" -> "int"
                     [] kind = "FLOAT" -> "float"
                     [] kind = "IMAG" -> "imag"
                     [] kind = "CHAR" -> "char"
                     [] OTHER -> "string"
TypeText(type) == CASE type.form = "literal" -> <<LowerKind(type.of)>>
                    [] type.form = "pointer" -> <<"*", type.of>>
                    [] type.form = "result" -> type.of
                    [] OTHER -> <<type.of>>

\* The line of the first candidate is taken, once for a line with a :=.
TotalLine == Head(pendingCandidates).line
TakesLine == pendingCandidates # <<>> /\ "var-decl" \notin lineKinds[Tok.line]

\* lines[c.line-1] of a line that a directive has made up: the process ends.
LinePanics ==
    /\ stage = "parsing" /\ at <= Len(source.tokens)
    /\ Tok.tok = ":=" /\ TakesLine /\ TotalLine > source.lines
    /\ stage' = "panicked"
    /\ UNCHANGED <<source, parseVars, types, kernel, blocks>>

Values == source.tails[TotalLine]
LineTypes == FlattenSeq([i \in DOMAIN Values |-> ValueTypes(Values[i])])

\* The line has one := and as many types as there are candidates.
Typed ==
    /\ TakesLine /\ TotalLine \in DOMAIN source.tails
    /\ source.defines[TotalLine] = 1
    /\ \A i \in DOMAIN Values : Resolves(Values[i])
    /\ Len(LineTypes) = Len(pendingCandidates)

Candidates == {pendingCandidates[i].name : i \in DOMAIN pendingCandidates}

\* MUTANT: the first type is taken for all.
CandidateTypeFirst(n) == TypeText(Head(LineTypes))

\* The type of a candidate, by its last place among them.
CandidateType(n) ==
    LET last == CHOOSE i \in DOMAIN pendingCandidates :
                /\ pendingCandidates[i].name = n
                /\ \A j \in DOMAIN pendingCandidates : pendingCandidates[j].name = n => j <= i
    IN  TypeText(LineTypes[last])

\* MUTANT: the types are recorded and the names are not.
DefineUnnamed ==
    /\ Scan({":="}) /\ Typed /\ Mark({"var-decl"})
    /\ vars' = [n \in DOMAIN vars \cup Candidates |->
                    IF n \in Candidates THEN CandidateType(n) ELSE vars[n]]
    /\ vnames' = vnames
    /\ defined' = defined \cup Candidates
    /\ pendingCandidates' = <<>>
    /\ UNCHANGED <<fnames, reusedFuncs, reusedVars, nesting, expecting, funcs>>

\* MUTANT: the declaration is not marked as one.
DefineUnmarked ==
    /\ Scan({":="}) /\ Typed /\ Mark({})
    /\ vars' = [n \in DOMAIN vars \cup Candidates |->
                    IF n \in Candidates THEN CandidateType(n) ELSE vars[n]]
    /\ vnames' = vnames \cup Candidates
    /\ defined' = defined \cup Candidates
    /\ pendingCandidates' = <<>>
    /\ UNCHANGED <<fnames, reusedFuncs, reusedVars, nesting, expecting, funcs>>

Define ==
    /\ Scan({":="}) /\ Typed /\ Mark({"var-decl"})
    /\ vars' = [n \in DOMAIN vars \cup Candidates |->
                    IF n \in Candidates THEN CandidateType(n) ELSE vars[n]]
    /\ vnames' = vnames \cup Candidates
    /\ defined' = defined \cup Candidates
    /\ pendingCandidates' = <<>>
    /\ UNCHANGED <<fnames, reusedFuncs, reusedVars, nesting, expecting, funcs>>

\* Parse returns an error, and what it put into KernelTypes stays there.
DefineFails ==
    /\ stage = "parsing" /\ at <= Len(source.tokens)
    /\ Tok.tok = ":=" /\ ~Typed
    /\ TakesLine => TotalLine <= source.lines
    /\ Mark(IF pendingCandidates = <<>> THEN {} ELSE {"var-decl"})
    /\ vnames' = vnames \cup Candidates
    /\ stage' = "failed"
    /\ UNCHANGED <<source, at, fnames, reusedFuncs, reusedVars, defined, nesting,
                   expecting, pendingCandidates, types, kernel, blocks>>

EndOfFile ==
    /\ stage = "parsing" /\ at > Len(source.tokens)
    /\ stage' = "parsed"
    /\ lineKinds' = [n \in DOMAIN lineKinds |->
                        IF lineKinds[n] = {} /\ n \in DOMAIN source.tails THEN {"other"}
                        ELSE lineKinds[n]]
    /\ UNCHANGED <<source, at, names, nesting, expecting, pendingCandidates,
                   types, kernel, blocks>>

-----------------------------------------------------------------------------
(* The types of a block, where its text shows them. *)

\* The text of the type of a function, with results ts.
Returns(type, ts) ==
    \E close \in DOMAIN type :
        /\ type[close] = ")" /\ \A i \in 1 .. (close - 1) : type[i] # ")"
        /\ SubSeq(type, close + 1, Len(type)) \in Written(ts)
\* A function of the session whose results its recorded type shows.
Regular(f) == f \in DOMAIN funcs /\ \E ts \in TypeLists : Returns(funcs[f], ts)
Results(type) ==
    LET ts == CHOOSE ts \in TypeLists : Returns(type, ts)
    IN  [i \in DOMAIN ts |-> <<ts[i]>>]

\* An expression whose types its text shows, and those that it has in Go.
Known(value) ==
    \/ value.form \in {"literal", "composite", "pointer"}
    \/ value.form = "packageCall" /\ value.of # ""
    \/ value.form = "call" /\ Regular(value.of)
KnownTypes(value) ==
    IF value.form = "call"
    THEN [i \in DOMAIN Results(funcs[value.of]) |->
            [form |-> "result", of |-> Results(funcs[value.of])[i]]]
    ELSE <<value>>
GoType(type) == IF type.form = "literal" THEN <<GoLiteral(type.of)>> ELSE TypeText(type)

\* The names of some kinds of literals are not the names of their types.
NamedInGo(type) == type.form = "literal" => type.of \notin {"FLOAT", "IMAG", "CHAR"}

\* The types of what is behind the := at i, and a := whose expressions are known and have
\* as many types as there are names.
Expected(s, i) ==
    LET values == s.tails[s.tokens[i].line]
    IN  FlattenSeq([k \in DOMAIN values |-> KnownTypes(values[k])])
Fits(s, i) ==
    /\ s.tokens[i].tok = ":="
    /\ \A value \in ToSet(s.tails[s.tokens[i].line]) : Known(value)
    /\ Len(Expected(s, i)) = Len(Declared(s, i))

\* The text shows the type of a variable if one := declares it, and at one place.
SpeltVar(s, v) ==
    /\ Plain(s) /\ v \notin DOMAIN funcs
    /\ \E p \in Places(s, v) : Places(s, v) = {p} /\ Fits(s, p[1])
VarType(s, v) == LET p == CHOOSE p \in Places(s, v) : TRUE IN Expected(s, p[1])[p[2]]

-----------------------------------------------------------------------------
(* FormExportFunc, and the plugin. *)

\* How often a line is written in front of the exported function: once for each kind.
Copies(n) == Cardinality(lineKinds[n] \cap {"func-name", "func-body"})

\* The lines in front of the exported function, and those in it.
FuncDefs == {n \in DOMAIN lineKinds \cap 1 .. source.lines : Copies(n) > 0}
Mains == {n \in DOMAIN lineKinds \cap 1 .. source.lines :
            lineKinds[n] \cap {"var-decl", "other"} # {}}

\* A function is declared twice, which Go refuses, if it begins on a line written twice.
Redeclared ==
    ~source.directive /\ \E i \in DOMAIN source.tokens :
        IsDeclared(source, i) /\ Copies(source.tokens[i].line) > 1

\* The names that are looked up in the kernel's maps.
ReboundFuncs == reusedFuncs \ ToSet(fnames)
ReboundVars == reusedVars \ vnames

\* What the plugin finds when it looks a name up and asserts the type of its text.
FoundFunc(f) == f \in DOMAIN funcMap /\ funcMap[f] = funcs[f]
FoundVar(v) == v \in DOMAIN varMap /\ varMap[v] = vars[v]

\* The types that what is stored may have in Go: where the text does not show it, the
\* recorded one may be right.
StoredFunc(f) == IF SpeltFunc(source, f) THEN {FuncType(source, f)}
                 ELSE {t \in GoTypes : t # <<>> /\ Head(t) = "func"} \cup {funcs[f]}
StoredVar(v) == IF SpeltVar(source, v) THEN {GoType(VarType(source, v))}
                ELSE GoTypes \cup {vars[w] : w \in {v} \cap defined}

\* MUTANT: the variables are not stored.
StoresFuncs ==
    /\ \E stored \in [ToSet(fnames) -> UNION {StoredFunc(f) : f \in ToSet(fnames)}] :
        /\ \A f \in ToSet(fnames) : stored[f] \in StoredFunc(f)
        /\ funcMap' = [f \in DOMAIN funcMap \cup ToSet(fnames) |->
                        IF f \in ToSet(fnames) THEN stored[f] ELSE funcMap[f]]
    /\ varMap' = varMap

\* MUTANT: the functions are not stored.
StoresVars ==
    /\ funcMap' = funcMap
    /\ \E stored \in [vnames -> UNION {StoredVar(v) : v \in vnames}] :
        /\ \A v \in vnames : stored[v] \in StoredVar(v)
        /\ varMap' = [v \in DOMAIN varMap \cup vnames |->
                        IF v \in vnames THEN stored[v] ELSE varMap[v]]

\* Each declared name, with its value.
Stores ==
    /\ \E stored \in [ToSet(fnames) -> UNION {StoredFunc(f) : f \in ToSet(fnames)}] :
        /\ \A f \in ToSet(fnames) : stored[f] \in StoredFunc(f)
        /\ funcMap' = [f \in DOMAIN funcMap \cup ToSet(fnames) |->
                        IF f \in ToSet(fnames) THEN stored[f] ELSE funcMap[f]]
    /\ \E stored \in [vnames -> UNION {StoredVar(v) : v \in vnames}] :
        /\ \A v \in vnames : stored[v] \in StoredVar(v)
        /\ varMap' = [v \in DOMAIN varMap \cup vnames |->
                        IF v \in vnames THEN stored[v] ELSE varMap[v]]

\* The names of the block, and those whose types its text shows as Go names them.
Own == ({"func"} \X ToSet(fnames)) \cup ({"var"} \X vnames)
Spelt == ({"func"} \X {f \in ToSet(fnames) : SpeltFunc(source, f)})
            \cup ({"var"} \X {v \in vnames : /\ SpeltVar(source, v)
                                           /\ NamedInGo(VarType(source, v))})

Finish == stage' = "idle" /\ Fresh(NoSource) /\ UNCHANGED <<types, blocks>>

\* The plugin is built and run to its end: each declared name is stored.
RunPlugin ==
    /\ stage = "parsed" /\ ~Redeclared
    /\ \A f \in ReboundFuncs : FoundFunc(f)
    /\ \A v \in ReboundVars : FoundVar(v)
    /\ Stores
    /\ lost' = lost \ Own
    /\ unspelt' = (unspelt \ Own) \cup (Own \ Spelt)
    /\ Finish

\* The block did not parse, or its plugin is not Go, or it stops before it stores
\* anything: nothing of KernelTypes is taken back.
Drop ==
    /\ stage \in {"parsed", "failed"}
    /\ lost' = lost \cup ({"func"} \X ToSet(fnames)) \cup ({"var"} \X defined)
    /\ UNCHANGED <<funcMap, varMap, unspelt>>
    /\ Finish

Parse ==
    \/ Func \/ Type \/ Var \/ Semicolon \/ LBrace \/ RBrace
    \/ FuncName \/ TypeName \/ Ident \/ Punctuation \/ SignPanics \/ Other
    \/ LinePanics \/ Define \/ DefineFails \/ EndOfFile

Next == StartKernel \/ NewBlock \/ Parse \/ RunPlugin \/ Drop

Spec == Init /\ [][Next]_allVars

-----------------------------------------------------------------------------
(* Properties. *)

\* What Parse keeps has the shape the later steps take for granted; a block that does not
\* run has nothing of its own.
TypeOK ==
    /\ stage \in {"idle", "parsing", "parsed", "failed", "panicked"}
    /\ at \in 1 .. (Len(source.tokens) + 1)
    /\ lineKinds \in [LinesOf(source) -> SUBSET Kinds]
    /\ braceDepth \in Nat /\ funcLevel \in Int
    /\ insideFunc \in BOOLEAN /\ funcSignatureOpen \in BOOLEAN
    /\ defined \subseteq vnames
    /\ reusedFuncs \subseteq DOMAIN funcs /\ reusedVars \subseteq DOMAIN vars
    /\ stage = "idle" => fnames = <<>> /\ defined = {}

\* A plugin that looks a variable of an earlier block up finds it in the kernel, and of the
\* type that it asserts, which is the one Go gave it.  That is not so if the last block
\* that stored it does not show its type (a var declaration, a float, a := in a function),
\* or a block that declared it since came to nothing (preproc.go:218, 609, 642).
VarsRebound ==
    stage = "parsed" =>
        \A v \in ReboundVars : FoundVar(v) \/ <<"var", v>> \in lost \cup unspelt

\* So does one that looks a function up, unless the last block that stored it has other
\* types in its signature than known ones, or functions without a name, or a block that
\* declared it since came to nothing (preproc.go:150, 163-166, 251-262, 592, 632).
FuncsRebound ==
    stage = "parsed" =>
        \A f \in ReboundFuncs : FoundFunc(f) \/ <<"func", f>> \in lost \cup unspelt

\* A block without declarations of functions, types and var is only refused if some :=
\* has an expression whose type is not known, or has not as many as it has names
\* (preproc.go:197-226, 291-380).
PlainParses ==
    stage = "failed" /\ Plain(source) =>
        \E i \in DOMAIN source.tokens : source.tokens[i].tok = ":=" /\ ~Fits(source, i)

\* In such a block the type recorded for a name is the one its own expression has in Go, in
\* the last statement that declares it; but for literals of a kind whose name is no type
\* (preproc.go:216-219, 306-308).
TypesRecorded ==
    stage = "parsed" /\ Plain(source) =>
        \A i \in DOMAIN source.tokens : Fits(source, i) =>
            LET declared == Declared(source, i)
                expected == Expected(source, i)
            IN  \A k \in DOMAIN declared :
                    \/ NamedInGo(expected[k]) => vars[declared[k]] = GoType(expected[k])
                    \/ \E l \in (k + 1) .. Len(declared) : declared[l] = declared[k]
                    \/ \E j \in (i + 1) .. Len(source.tokens) :
                        source.tokens[j].tok = ":=" /\ Contains(Declared(source, j), declared[k])

\* No line of a block that is not blank is left out of its plugin, and what the exported
\* function stores it declares: each name of vnames stands on a line of its body
\* (preproc.go:269-277, 615-645).
CodeComplete ==
    stage = "parsed" =>
        /\ DOMAIN source.tails \subseteq FuncDefs \cup Mains
        /\ ~source.directive /\ Overt(source) =>
            \A v \in vnames : \E i \in DOMAIN source.tokens :
                source.tokens[i].lit = v /\ source.tokens[i].line \in Mains

\* The body of a function stands in front of the exported function as a whole, if it has no
\* function in it and the header no braces: with those it is torn, see InsideFunc
\* (preproc.go:133, 228-246).
BodiesWhole ==
    stage = "parsed" /\ ~source.directive =>
        \A body \in Bodies(source) :
            /\ Count(source, body[1] + 1, body[3], {"func"}) = 0
            /\ Count(source, body[1] + 1, body[2] - 1, {"{"}) = 0
            => \A i \in (body[2] + 1) .. body[3] : source.tokens[i].line \in FuncDefs

\* insideFunc: now inside the body of a function (preproc.go:110).
InsideFunc ==
    stage = "parsing" =>
        (insideFunc <=> \E body \in Bodies(source) : body[2] < at /\ at <= body[3])

\* Outside all braces Parse is in no function (preproc.go:239-246).
BodiesClosed == braceDepth = 0 => ~insideFunc

\* A block in which each func is followed by a name, and no line has a number that it does
\* not have, does not end the process: the function that a signature belongs to is there,
\* and the line of a candidate (preproc.go:165, 203, 253, 257, 261).
NamedNeverPanics ==
    stage = "panicked" =>
        \/ \E i \in DOMAIN source.tokens :
            /\ source.tokens[i].tok = "func"
            /\ i < Len(source.tokens) /\ source.tokens[i + 1].tok # "ident"
        \/ \E i \in DOMAIN source.tokens : source.tokens[i].line > source.lines

=============================================================================
