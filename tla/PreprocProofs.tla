--------------------------- MODULE PreprocProofs ---------------------------
(***************************************************************************)
(* Proofs about Preproc, for any contents of blocks and any number of      *)
(* blocks in a session.                                                    *)
(***************************************************************************)
EXTENDS Preproc, SequenceTheorems, TLAPS

-----------------------------------------------------------------------------
(* The inductive invariant. *)

\* fnames is a sequence of names whose types KernelTypes has.
FnamesTyped == fnames \in Seq(STRING) /\ ToSet(fnames) \subseteq DOMAIN funcs

\* A body is in the braces that are open.
Nested == insideFunc => 1 <= funcLevel /\ funcLevel <= braceDepth

\* Some func of the content is without a name.
Unnamed ==
    \E i \in DOMAIN source.tokens :
        /\ source.tokens[i].tok = "func"
        /\ i < Len(source.tokens) /\ source.tokens[i + 1].tok # "ident"

\* The signature that is open is of a function of the block, or its name comes next.
SignatureNamed ==
    stage = "parsing" =>
        /\ at > 1 /\ source.tokens[at - 1].tok = "func" => lastWasFuncKeyword
        /\ funcSignatureOpen => \/ fnames # <<>> \/ Unnamed
                                \/ at > 1 /\ source.tokens[at - 1].tok = "func"

\* Candidates are names of the content.
CandidatesPlaced ==
    /\ pendingCandidates \in Seq([name : STRING, line : Nat])
    /\ \A k \in DOMAIN pendingCandidates : \E i \in DOMAIN source.tokens :
        source.tokens[i].line = pendingCandidates[k].line

TypeInv == TypeOK /\ source \in Sources \cup {NoSource} /\ FnamesTyped
IInv == TypeInv /\ CandidatesPlaced /\ Nested /\ SignatureNamed /\ NamedNeverPanics

\* Every content is a sequence of tokens on its lines.
LEMMA TokensTyped ==
  ASSUME NEW s \in Sources \cup {NoSource}
  PROVE  s.tokens \in Seq([tok : STRING, lit : STRING, line : Nat \ {0}])
<1>1. CASE s \in Sources
  BY <1>1, SourcesAssumption DEF SourceTyped
<1>2. CASE s = NoSource
  <2>1. s.tokens = <<>>
    BY <1>2 DEF NoSource
  <2> QED
    BY <2>1
<1> QED
  BY <1>1, <1>2

\* So is the token that Parse is at.
LEMMA TokTyped ==
  ASSUME TypeInv, at <= Len(source.tokens)
  PROVE  /\ Tok \in [tok : STRING, lit : STRING, line : Nat \ {0}]
         /\ Tok.line \in LinesOf(source)
         /\ at \in DOMAIN source.tokens /\ at \in Nat /\ Len(source.tokens) \in Nat
<1>1. source.tokens \in Seq([tok : STRING, lit : STRING, line : Nat \ {0}])
  BY TokensTyped DEF TypeInv
<1>2. Len(source.tokens) \in Nat /\ DOMAIN source.tokens = 1 .. Len(source.tokens)
  BY <1>1
<1>3. at \in 1 .. Len(source.tokens)
  BY <1>2 DEF TypeInv, TypeOK
<1>4. source.tokens[at] \in [tok : STRING, lit : STRING, line : Nat \ {0}]
  BY <1>1, <1>3, ElementOfSeq
<1> QED
  BY <1>2, <1>3, <1>4 DEF Tok, LinesOf

LEMMA InitInv == Init => IInv
<1> SUFFICES ASSUME Init PROVE IInv
  OBVIOUS
<1>1. /\ DOMAIN source.tokens = {} /\ Len(source.tokens) = 0
      /\ DOMAIN source.tails = {} /\ lineKinds = source.tails
  BY DEF Init, NoSource
<1>2. lineKinds \in [LinesOf(source) -> SUBSET Kinds]
  BY <1>1 DEF Init, LinesOf
<1>3. ToSet(fnames) = {} /\ fnames \in Seq(STRING)
  BY DEF Init, ToSet
<1>4. TypeOK
  <2>1. at \in 1 .. (Len(source.tokens) + 1)
    BY <1>1 DEF Init
  <2>2. braceDepth \in Nat /\ funcLevel \in Int
    BY DEF Init
  <2>3. insideFunc \in BOOLEAN /\ funcSignatureOpen \in BOOLEAN
    BY DEF Init
  <2>4. /\ defined = {} /\ fnames = <<>> /\ reusedFuncs = {} /\ reusedVars = {}
        /\ stage = "idle"
    BY DEF Init
  <2> QED
    BY <1>2, <2>1, <2>2, <2>3, <2>4, Zenon DEF TypeOK
<1> QED
  BY <1>3, <1>4 DEF Init, IInv, TypeInv, FnamesTyped, CandidatesPlaced, Nested,
     SignatureNamed, NamedNeverPanics

-----------------------------------------------------------------------------
(* Steps. *)

\* A step of the scanner.
Scanned ==
    \/ Func \/ Type \/ Var \/ Semicolon \/ LBrace \/ RBrace \/ FuncName \/ TypeName
    \/ Ident \/ Punctuation \/ Other \/ Define

\* A step of the scanner takes a token and marks its line.
LEMMA ScannedSteps ==
  ASSUME Scanned
  PROVE  /\ stage = "parsing" /\ at <= Len(source.tokens) /\ at' = at + 1
         /\ UNCHANGED <<stage, source, kernel, blocks>>
         /\ \E kinds \in SUBSET Kinds : Mark(kinds)
<1>1. /\ {} \in SUBSET Kinds /\ {"func-name"} \in SUBSET Kinds /\ {"var-decl"} \in SUBSET Kinds
  BY DEF Kinds
<1>2. CASE Ident
  <2>1. (IF inVarDecl THEN {"var-decl"} ELSE {}) \in SUBSET Kinds
    BY <1>1
  <2> QED
    BY <1>2, <2>1 DEF Ident, Scan
<1>3. CASE FuncName \/ TypeName \/ Define
  BY <1>1, <1>3 DEF FuncName, TypeName, Define, Scan
<1>4. CASE Func \/ Type \/ Var \/ Semicolon \/ LBrace \/ RBrace \/ Punctuation \/ Other
  BY <1>1, <1>4 DEF Func, Type, Var, Semicolon, LBrace, RBrace, Punctuation, Other, Scan
<1> QED
  BY <1>2, <1>3, <1>4 DEF Scanned

\* What is left of Next.
LEMMA NextSteps ==
  ASSUME [Next]_allVars
  PROVE  \/ StartKernel \/ NewBlock \/ Scanned \/ SignPanics \/ LinePanics \/ DefineFails \/ EndOfFile
         \/ RunPlugin \/ Drop \/ UNCHANGED allVars
  BY DEF Next, Parse, Scanned

\* Whatever is marked, lines keep sets of kinds.
LEMMA MarkTyped ==
  ASSUME TypeInv, at <= Len(source.tokens), NEW kinds \in SUBSET Kinds, Mark(kinds)
  PROVE  lineKinds' \in [LinesOf(source) -> SUBSET Kinds]
<1>1. lineKinds \in [LinesOf(source) -> SUBSET Kinds]
  BY DEF TypeInv, TypeOK
<1>2. "func-body" \in Kinds
  BY DEF Kinds
<1> QED
  BY <1>1, <1>2 DEF Mark

\* The signature's type is changed for a function of the block only.
LEMMA SignStep ==
  ASSUME FnamesTyped, Signs => fnames # <<>>, Sign
  PROVE  /\ DOMAIN funcs' = DOMAIN funcs
         /\ \A f \in DOMAIN funcs : f \notin ToSet(fnames) => funcs'[f] = funcs[f]
<1>1. Signs => Last(fnames) \in ToSet(fnames)
  <2>1. SUFFICES ASSUME Signs PROVE Last(fnames) \in ToSet(fnames)
    OBVIOUS
  <2>2. fnames \in Seq(STRING) /\ fnames # <<>>
    BY <2>1 DEF FnamesTyped
  <2>3. Len(fnames) \in DOMAIN fnames
    BY <2>2
  <2> QED
    BY <2>3 DEF Last, ToSet
<1> QED
  BY <1>1 DEF Sign

\* What a step of the scanner adds to KernelTypes is the block's own.
LEMMA NamesStep ==
  ASSUME TypeInv, Scanned
  PROVE  /\ FnamesTyped' /\ ToSet(fnames) \subseteq ToSet(fnames')
         /\ \A f \in DOMAIN funcs' :
               f \in ToSet(fnames') \/ (f \in DOMAIN funcs /\ funcs'[f] = funcs[f])
         /\ \A v \in DOMAIN vars' : v \in defined' \/ (v \in DOMAIN vars /\ vars'[v] = vars[v])
         /\ defined \subseteq defined' /\ defined' \subseteq vnames'
         /\ reusedFuncs' \subseteq DOMAIN funcs' /\ reusedVars' \subseteq DOMAIN vars'
<1> USE DEF names, types
<1>1. /\ defined \subseteq vnames /\ FnamesTyped
      /\ reusedFuncs \subseteq DOMAIN funcs /\ reusedVars \subseteq DOMAIN vars
  BY DEF TypeInv, TypeOK
<1>2. Tok.lit \in STRING
  BY TokTyped, ScannedSteps
<1>3. CASE FuncName
  <2>1. /\ fnames' = Append(fnames, Tok.lit) /\ fnames \in Seq(STRING)
        /\ funcs' = Put(funcs, Tok.lit, <<"func">>)
    BY <1>1, <1>3 DEF FuncName, FnamesTyped
  <2>2. fnames' \in Seq(STRING) /\ ToSet(fnames') = ToSet(fnames) \cup {Tok.lit}
    <3>1. /\ Len(fnames') = Len(fnames) + 1 /\ Len(fnames) \in Nat /\ fnames' \in Seq(STRING)
          /\ fnames'[Len(fnames) + 1] = Tok.lit
          /\ \A i \in 1 .. Len(fnames) : fnames'[i] = fnames[i]
      BY <1>2, <2>1
    <3>2. DOMAIN fnames = 1 .. Len(fnames) /\ DOMAIN fnames' = 1 .. (Len(fnames) + 1)
      BY <2>1, <3>1
    <3> QED
      BY <3>1, <3>2 DEF ToSet
  <2>3. DOMAIN funcs' = DOMAIN funcs \cup {Tok.lit}
    BY <2>1 DEF Put
  <2>4. \A f \in DOMAIN funcs' : f # Tok.lit => f \in DOMAIN funcs /\ funcs'[f] = funcs[f]
    BY <2>1 DEF Put
  <2>5. UNCHANGED <<vnames, reusedFuncs, reusedVars, defined, vars>>
    BY <1>3 DEF FuncName
  <2> QED
    BY <1>1, <2>2, <2>3, <2>4, <2>5 DEF FnamesTyped
<1>4. CASE Ident \/ Punctuation
  <2>1. /\ UNCHANGED <<fnames, defined, vars>> /\ vnames \subseteq vnames'
        /\ Sign
        /\ Signs => fnames # <<>>
    BY <1>4 DEF Ident, Punctuation
  <2>2. /\ DOMAIN funcs' = DOMAIN funcs
        /\ \A f \in DOMAIN funcs : f \notin ToSet(fnames) => funcs'[f] = funcs[f]
    BY <1>1, <2>1, SignStep
  <2>3. /\ reusedFuncs' \subseteq reusedFuncs \cup DOMAIN funcs
        /\ reusedVars' \subseteq reusedVars \cup DOMAIN vars
    BY <1>4 DEF Ident, Punctuation
  <2>4. FnamesTyped' /\ ToSet(fnames') = ToSet(fnames)
    BY <1>1, <2>1, <2>2 DEF FnamesTyped
  <2> QED
    BY <1>1, <2>1, <2>2, <2>3, <2>4
<1>5. CASE Define
  <2>1. /\ UNCHANGED <<fnames, reusedFuncs, reusedVars, funcs>>
        /\ vnames' = vnames \cup Candidates /\ defined' = defined \cup Candidates
        /\ vars' = [n \in DOMAIN vars \cup Candidates |->
                        IF n \in Candidates THEN CandidateType(n) ELSE vars[n]]
    BY <1>5 DEF Define
  <2>2. FnamesTyped' /\ ToSet(fnames') = ToSet(fnames)
    BY <1>1, <2>1 DEF FnamesTyped
  <2> QED
    BY <1>1, <2>1, <2>2
<1>6. CASE Func \/ Type \/ Var \/ Semicolon \/ LBrace \/ RBrace \/ TypeName \/ Other
  <2>1. UNCHANGED <<fnames, vnames, reusedFuncs, reusedVars, defined, funcs, vars>>
    BY <1>6 DEF Func, Type, Var, Semicolon, LBrace, RBrace, TypeName, Other
  <2>2. FnamesTyped' /\ ToSet(fnames') = ToSet(fnames)
    BY <1>1, <2>1 DEF FnamesTyped
  <2> QED
    BY <1>1, <2>1, <2>2
<1> QED
  BY <1>3, <1>4, <1>5, <1>6 DEF Scanned

\* Braces, and the body that is in them.
LEMMA NestingStep ==
  ASSUME TypeInv, Nested, Scanned
  PROVE  /\ braceDepth' \in Nat /\ funcLevel' \in Int
         /\ insideFunc' \in BOOLEAN /\ funcSignatureOpen' \in BOOLEAN /\ Nested'
<1>1. /\ braceDepth \in Nat /\ funcLevel \in Int
      /\ insideFunc \in BOOLEAN /\ funcSignatureOpen \in BOOLEAN
  BY DEF TypeInv, TypeOK
<1>2. CASE LBrace
  <2>1. /\ insideFunc' = (insideFunc \/ funcSignatureOpen)
        /\ funcLevel' = IF funcSignatureOpen THEN braceDepth + 1 ELSE funcLevel
    BY <1>2 DEF LBrace
  <2>2. braceDepth' = braceDepth + 1 /\ funcSignatureOpen' = FALSE
    BY <1>2 DEF LBrace
  <2>3. insideFunc' \in BOOLEAN
    BY <2>1, Zenon
  <2>4. CASE funcSignatureOpen
    <3>1. funcLevel' = braceDepth + 1
      BY <2>1, <2>4, Zenon
    <3>2. /\ braceDepth' \in Nat /\ funcLevel' \in Int
          /\ 1 <= funcLevel' /\ funcLevel' <= braceDepth'
      BY <1>1, <2>2, <3>1
    <3> QED
      BY <2>2, <2>3, <3>2, Zenon DEF Nested
  <2>5. CASE ~funcSignatureOpen
    <3>1. insideFunc' = insideFunc /\ funcLevel' = funcLevel
      BY <1>1, <2>1, <2>5, Zenon
    <3>2. /\ braceDepth' \in Nat /\ funcLevel' \in Int
          /\ 1 <= funcLevel /\ funcLevel <= braceDepth =>
                1 <= funcLevel' /\ funcLevel' <= braceDepth'
      BY <1>1, <2>2, <3>1
    <3> QED
      BY <2>2, <2>3, <3>1, <3>2, Zenon DEF Nested
  <2> QED
    BY <2>4, <2>5
<1>3. CASE RBrace
  <2>1. LET left == insideFunc /\ braceDepth' < funcLevel
        IN  /\ insideFunc' = (insideFunc /\ ~left)
            /\ funcLevel' = IF left THEN -1 ELSE funcLevel
    BY <1>3 DEF RBrace
  <2>2. /\ braceDepth' = IF braceDepth > 0 THEN braceDepth - 1 ELSE 0
        /\ funcSignatureOpen' = funcSignatureOpen
    BY <1>3 DEF RBrace, expecting
  <2>3. braceDepth' \in Nat
    BY <1>1, <2>2
  <2>4. CASE insideFunc /\ braceDepth' < funcLevel
    <3>1. insideFunc' = FALSE /\ funcLevel' = -1
      BY <2>1, <2>4
    <3>2. funcLevel' \in Int
      BY <3>1
    <3> QED
      BY <1>1, <2>2, <2>3, <3>1, <3>2, Zenon DEF Nested
  <2>5. CASE ~(insideFunc /\ braceDepth' < funcLevel)
    <3>1. insideFunc' = insideFunc /\ funcLevel' = funcLevel
      BY <1>1, <2>1, <2>5, Zenon
    <3>2. ~(braceDepth' < funcLevel) /\ 1 <= funcLevel
              => 1 <= funcLevel' /\ funcLevel' <= braceDepth'
      BY <1>1, <2>3, <3>1
    <3> QED
      BY <1>1, <2>2, <2>3, <2>5, <3>1, <3>2, Zenon DEF Nested
  <2> QED
    BY <2>4, <2>5
<1>4. CASE Func \/ Type \/ Var \/ Semicolon \/ FuncName \/ TypeName \/ Ident \/ Punctuation
              \/ Other \/ Define
  <2>1. UNCHANGED <<braceDepth, insideFunc, funcLevel>>
    BY <1>4 DEF Func, Type, Var, Semicolon, FuncName, TypeName, Ident, Punctuation, Other,
                Define, nesting
  <2>2. funcSignatureOpen' \in BOOLEAN
    BY <1>1, <1>4 DEF Func, Type, Var, Semicolon, FuncName, TypeName, Ident, Punctuation,
                      Other, Define, expecting
  <2> QED
    BY <1>1, <2>1, <2>2 DEF Nested
<1> QED
  BY <1>2, <1>3, <1>4 DEF Scanned

\* A func that is not followed by a name is an unnamed one.
LEMMA NoNameFollows ==
  ASSUME TypeInv, at <= Len(source.tokens), at > 1,
         source.tokens[at - 1].tok = "func", Tok.tok # "ident"
  PROVE  Unnamed
<1>1. at \in DOMAIN source.tokens /\ at \in Nat /\ Len(source.tokens) \in Nat
  BY TokTyped
<1>2. source.tokens \in Seq([tok : STRING, lit : STRING, line : Nat \ {0}])
  BY TokensTyped DEF TypeInv
<1>3. at - 1 \in DOMAIN source.tokens /\ at - 1 < Len(source.tokens) /\ (at - 1) + 1 = at
  BY <1>1, <1>2
<1> QED
  BY <1>3 DEF Unnamed, Tok

\* A signature stays with a function until it is closed.
LEMMA SignatureStep ==
  ASSUME TypeInv, SignatureNamed, Scanned
  PROVE  SignatureNamed'
<1>1. /\ stage = "parsing" /\ at <= Len(source.tokens) /\ at' = at + 1 /\ source' = source
      /\ at \in Nat
  BY ScannedSteps, TokTyped
<1>2. Unnamed' = Unnamed /\ (at' - 1) = at
  BY <1>1 DEF Unnamed
<1>3. source'.tokens[at' - 1] = Tok /\ at' > 1
  BY <1>1, <1>2, TokTyped DEF Tok
<1>4. fnames \in Seq(STRING) /\ Tok.lit \in STRING
  BY <1>1, TokTyped DEF TypeInv, FnamesTyped
<1>5. SUFFICES /\ Tok.tok = "func" => lastWasFuncKeyword'
               /\ funcSignatureOpen' => fnames' # <<>> \/ Unnamed \/ Tok.tok = "func"
  BY <1>2, <1>3, Zenon DEF SignatureNamed
<1>6. CASE Func
  BY <1>6 DEF Func, Scan
<1>7. CASE FuncName
  <2>1. Tok.tok = "ident" /\ fnames' = Append(fnames, Tok.lit)
    BY <1>7 DEF FuncName, Scan
  <2>2. fnames' # <<>>
    BY <1>4, <2>1
  <2> QED
    BY <2>1, <2>2
<1>8. CASE LBrace
  BY <1>8 DEF LBrace, Scan
<1>9. CASE TypeName \/ Ident
  <2>1. Tok.tok = "ident" /\ ~lastWasFuncKeyword
    BY <1>9 DEF TypeName, Ident, Scan
  <2>2. funcSignatureOpen' = funcSignatureOpen /\ fnames' = fnames
    BY <1>9 DEF TypeName, Ident, expecting, names
  <2> QED
    BY <1>1, <2>1, <2>2 DEF SignatureNamed
<1>10. CASE Type \/ Var \/ Semicolon \/ RBrace \/ Punctuation \/ Other \/ Define
  <2>1. Tok.tok # "ident" /\ Tok.tok # "func"
    BY <1>10 DEF Type, Var, Semicolon, RBrace, Punctuation, Other, Define, Scan
  <2>2. funcSignatureOpen' = funcSignatureOpen /\ fnames' = fnames
    BY <1>10 DEF Type, Var, Semicolon, RBrace, Punctuation, Other, Define, expecting, names
  <2> QED
    BY <1>1, <2>1, <2>2, NoNameFollows DEF SignatureNamed
<1> QED
  BY <1>6, <1>7, <1>8, <1>9, <1>10 DEF Scanned

\* A candidate is the token that Parse is at.
LEMMA PlacedStep ==
  ASSUME TypeInv, CandidatesPlaced, Scanned
  PROVE  CandidatesPlaced'
<1>1. /\ source' = source /\ at <= Len(source.tokens)
      /\ at \in DOMAIN source.tokens /\ Tok = source.tokens[at]
      /\ Tok.lit \in STRING /\ Tok.line \in Nat
  BY ScannedSteps, TokTyped DEF Tok
<1>2. CASE pendingCandidates' = pendingCandidates
  BY <1>1, <1>2 DEF CandidatesPlaced
<1>3. CASE pendingCandidates' = <<>>
  BY <1>3 DEF CandidatesPlaced
<1>4. CASE pendingCandidates' = Append(pendingCandidates, [name |-> Tok.lit, line |-> Tok.line])
  <2> DEFINE c == [name |-> Tok.lit, line |-> Tok.line]
  <2>1. pendingCandidates \in Seq([name : STRING, line : Nat]) /\ c \in [name : STRING, line : Nat]
    BY <1>1 DEF CandidatesPlaced
  <2>2. /\ pendingCandidates' \in Seq([name : STRING, line : Nat])
        /\ Len(pendingCandidates') = Len(pendingCandidates) + 1
        /\ pendingCandidates'[Len(pendingCandidates) + 1] = c
        /\ \A k \in 1 .. Len(pendingCandidates) :
                pendingCandidates'[k] = pendingCandidates[k]
    BY <1>4, <2>1
  <2>3. /\ DOMAIN pendingCandidates' = 1 .. (Len(pendingCandidates) + 1)
        /\ DOMAIN pendingCandidates = 1 .. Len(pendingCandidates)
        /\ Len(pendingCandidates) \in Nat
    BY <2>1, <2>2
  <2>4. SUFFICES ASSUME NEW k \in DOMAIN pendingCandidates'
                 PROVE  \E i \in DOMAIN source.tokens :
                            source.tokens[i].line = pendingCandidates'[k].line
    BY <1>1, <2>2 DEF CandidatesPlaced
  <2>5. CASE k = Len(pendingCandidates) + 1
    BY <1>1, <2>2, <2>5
  <2>6. CASE k \in DOMAIN pendingCandidates
    BY <2>2, <2>3, <2>6 DEF CandidatesPlaced
  <2> QED
    BY <2>3, <2>5, <2>6
<1>5. CASE Ident
  BY <1>2, <1>4, <1>5 DEF Ident
<1>6. CASE Var \/ Semicolon \/ Define
  BY <1>3, <1>6 DEF Var, Semicolon, Define
<1>7. CASE Func \/ Type \/ LBrace \/ RBrace \/ FuncName \/ TypeName \/ Punctuation \/ Other
  BY <1>2, <1>7 DEF Func, Type, LBrace, RBrace, FuncName, TypeName, Punctuation, Other
<1> QED
  BY <1>5, <1>6, <1>7 DEF Scanned

-----------------------------------------------------------------------------
(* The invariant. *)

LEMMA ScannedInv ==
  ASSUME IInv, Scanned
  PROVE  IInv'
<1>1. TypeInv /\ Nested /\ SignatureNamed /\ CandidatesPlaced
  BY DEF IInv
<1>2. /\ stage = "parsing" /\ at <= Len(source.tokens) /\ at' = at + 1
      /\ UNCHANGED <<stage, source>>
  BY ScannedSteps
<1>3. at' \in 1 .. (Len(source'.tokens) + 1)
  BY <1>1, <1>2, TokTyped
<1>4. lineKinds' \in [LinesOf(source') -> SUBSET Kinds]
  BY <1>1, <1>2, ScannedSteps, MarkTyped
<1>5. TypeInv'
  <2>1. /\ stage' \in {"idle", "parsing", "parsed", "failed", "panicked"}
        /\ stage' = "idle" => fnames' = <<>> /\ defined' = {}
        /\ source' \in Sources \cup {NoSource}
    BY <1>1, <1>2 DEF TypeInv
  <2> QED
    BY <1>1, <1>3, <1>4, <2>1, NestingStep, NamesStep, Zenon DEF TypeInv, TypeOK
<1>6. CandidatesPlaced'
  BY <1>1, PlacedStep
<1>7. NamedNeverPanics'
  BY <1>2 DEF NamedNeverPanics
<1> QED
  BY <1>1, <1>5, <1>6, <1>7, NestingStep, SignatureStep, Zenon DEF IInv

\* A step after which nothing of a block is left.
LEMMA FreshInv ==
  ASSUME NEW s \in Sources \cup {NoSource}, Fresh(s),
         stage' \in {"idle", "parsing"}
  PROVE  IInv'
<1>1. /\ source' = s /\ at' = 1 /\ fnames' = <<>> /\ defined' = {}
      /\ vnames' = {} /\ reusedFuncs' = {} /\ reusedVars' = {} /\ pendingCandidates' = <<>>
  BY DEF Fresh
<1>2. s.tokens \in Seq([tok : STRING, lit : STRING, line : Nat \ {0}])
  BY TokensTyped
<1>3. at' \in 1 .. (Len(source'.tokens) + 1)
  BY <1>1, <1>2
<1>4. lineKinds' \in [LinesOf(source') -> SUBSET Kinds]
  BY <1>1 DEF Fresh
<1>5. /\ braceDepth' \in Nat /\ funcLevel' \in Int
  BY DEF Fresh
<1>6. /\ insideFunc' = FALSE /\ funcSignatureOpen' = FALSE
      /\ insideFunc' \in BOOLEAN /\ funcSignatureOpen' \in BOOLEAN
  BY DEF Fresh
<1>7. fnames' \in Seq(STRING) /\ ToSet(fnames') = {}
  BY <1>1 DEF ToSet
<1>8. TypeInv'
  BY <1>1, <1>3, <1>4, <1>5, <1>6, <1>7, Zenon DEF TypeInv, TypeOK, FnamesTyped
<1>9. ~(at' > 1)
  BY <1>1
<1>10. CandidatesPlaced'
  BY <1>1 DEF CandidatesPlaced
<1> QED
  BY <1>6, <1>8, <1>9, <1>10, Zenon
     DEF IInv, Nested, SignatureNamed, NamedNeverPanics

LEMMA BeginInv ==
  ASSUME IInv, StartKernel \/ NewBlock \/ RunPlugin \/ Drop
  PROVE  IInv'
<1>1. NoSource \in Sources \cup {NoSource}
  OBVIOUS
<1>2. CASE StartKernel \/ RunPlugin \/ Drop
  BY <1>1, <1>2, FreshInv DEF StartKernel, RunPlugin, Drop, Finish
<1>3. CASE NewBlock
  BY <1>3, FreshInv DEF NewBlock
<1> QED
  BY <1>2, <1>3

\* Parse comes to its end, one way or another.
LEMMA EndInv ==
  ASSUME IInv, SignPanics \/ LinePanics \/ DefineFails \/ EndOfFile
  PROVE  IInv'
<1>1. /\ stage = "parsing" /\ stage' \in {"panicked", "failed", "parsed"}
      /\ UNCHANGED <<source, at, fnames, reusedFuncs, reusedVars, defined, nesting,
                     funcSignatureOpen, pendingCandidates, types>>
      /\ vnames \subseteq vnames'
  BY DEF SignPanics, LinePanics, DefineFails, EndOfFile, parseVars, names, expecting
<1>2. lineKinds' \in [LinesOf(source') -> SUBSET Kinds]
  <2>1. lineKinds \in [LinesOf(source) -> SUBSET Kinds] /\ source' = source
    BY <1>1 DEF IInv, TypeInv, TypeOK
  <2>2. CASE SignPanics \/ LinePanics
    BY <2>1, <2>2 DEF SignPanics, LinePanics, parseVars
  <2>3. CASE DefineFails
    <3>1. (IF pendingCandidates = <<>> THEN {} ELSE {"var-decl"}) \in SUBSET Kinds
      BY DEF Kinds
    <3> QED
      BY <2>1, <2>3, <3>1, MarkTyped DEF DefineFails, IInv
  <2>4. CASE EndOfFile
    BY <2>1, <2>4 DEF EndOfFile, Kinds
  <2> QED
    BY <2>2, <2>3, <2>4
<1>3. TypeInv'
  <2>1. ToSet(fnames)' = ToSet(fnames)
    BY <1>1
  <2>2. /\ stage' \in {"idle", "parsing", "parsed", "failed", "panicked"}
        /\ stage' # "idle" /\ Len(source'.tokens) = Len(source.tokens)
    BY <1>1
  <2>3. UNCHANGED <<braceDepth, insideFunc, funcLevel, funcs, vars>>
    BY <1>1 DEF nesting, types
  <2> QED
    BY <1>1, <1>2, <2>1, <2>2, <2>3 DEF IInv, TypeInv, TypeOK, FnamesTyped
<1>4. CandidatesPlaced'
  BY <1>1 DEF IInv, CandidatesPlaced
<1>5. Nested'
  BY <1>1, Zenon DEF IInv, Nested, nesting
<1>6. SignatureNamed'
  BY <1>1 DEF SignatureNamed
<1>7. NamedNeverPanics'
  <2>1. CASE SignPanics
    <3>1. /\ at <= Len(source.tokens) /\ funcSignatureOpen /\ fnames = <<>>
          /\ Tok.tok = "ident" => ~lastWasFuncKeyword
      BY <2>1 DEF SignPanics, Signs
    <3>2. Unnamed
      BY <1>1, <3>1, NoNameFollows DEF IInv, SignatureNamed
    <3> QED
      BY <1>1, <3>2 DEF NamedNeverPanics, Unnamed
  <2>2. CASE LinePanics
    <3>1. pendingCandidates # <<>> /\ TotalLine > source.lines
      BY <2>2 DEF LinePanics, TakesLine
    <3>2. 1 \in DOMAIN pendingCandidates /\ TotalLine = pendingCandidates[1].line
      BY <3>1 DEF IInv, CandidatesPlaced, TotalLine
    <3>3. PICK i \in DOMAIN source.tokens : source.tokens[i].line > source.lines
      BY <3>1, <3>2 DEF IInv, CandidatesPlaced
    <3> QED
      BY <1>1, <3>3 DEF NamedNeverPanics
  <2>3. CASE DefineFails \/ EndOfFile
    <3>1. stage' # "panicked"
      BY <2>3 DEF DefineFails, EndOfFile
    <3> QED
      BY <3>1 DEF NamedNeverPanics
  <2> QED
    BY <2>1, <2>2, <2>3
<1> QED
  BY <1>3, <1>4, <1>5, <1>6, <1>7, Zenon DEF IInv

LEMMA StepInv == IInv /\ [Next]_allVars => IInv'
<1> SUFFICES ASSUME IInv, [Next]_allVars PROVE IInv'
  OBVIOUS
<1>1. CASE UNCHANGED allVars
  BY <1>1 DEF allVars, parseVars, names, nesting, expecting, types, kernel,
     IInv, TypeInv, TypeOK, FnamesTyped, CandidatesPlaced, Nested,
     SignatureNamed, NamedNeverPanics, Unnamed, ToSet
<1> QED
  BY <1>1, NextSteps, ScannedInv, BeginInv, EndInv, Zenon

-----------------------------------------------------------------------------
(* Theorems. *)

LEMMA Inductive == Spec => []IInv
  BY InitInv, StepInv, PTL DEF Spec

\* What Parse keeps has its shape.
THEOREM TypeCorrect == Spec => []TypeOK
<1>1. IInv => TypeOK
  BY DEF IInv, TypeInv
<1> QED
  BY <1>1, Inductive, PTL

\* Outside all braces Parse is in no function, however the braces of a block are put.
THEOREM Closing == Spec => []BodiesClosed
<1>1. IInv => BodiesClosed
  <2>1. SUFFICES ASSUME IInv, braceDepth = 0, insideFunc PROVE FALSE
    BY DEF BodiesClosed
  <2>2. 1 <= funcLevel /\ funcLevel <= braceDepth
    BY <2>1 DEF IInv, Nested
  <2>3. funcLevel \in Int
    BY <2>1 DEF IInv, TypeInv, TypeOK
  <2> QED
    BY <2>1, <2>2, <2>3
<1> QED
  BY <1>1, Inductive, PTL

\* No block in which each func has its name, and each line its number, ends the process.
THEOREM NamedFuncs == Spec => []NamedNeverPanics
<1>1. IInv => NamedNeverPanics
  BY DEF IInv
<1> QED
  BY <1>1, Inductive, PTL

=============================================================================
