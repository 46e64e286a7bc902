----------------------- MODULE PreprocStatementProofs ----------------------
(***************************************************************************)
(* Proofs about Preproc for blocks that are statements only: when they     *)
(* parse, which types are recorded for the names they declare, and what    *)
(* later plugins find of these.                                            *)
(***************************************************************************)
EXTENDS PreprocTextProofs

-----------------------------------------------------------------------------
(* Texts of types. *)

\* A text without commas is one piece.
LEMMA CutWhole ==
  ASSUME NEW S, NEW text \in Seq(S), \A i \in 1 .. Len(text) : text[i] # Comma
  PROVE  Cut(text) = <<text>>
<1> DEFINE commas(n) == {i \in 1 .. n : text[i] = Comma}
           last == Cardinality(commas(Len(text))) + 1
           bound(k) == IF k = 0 THEN 0 ELSE IF k = last THEN Len(text) + 1
                       ELSE CHOOSE c \in commas(Len(text)) : Cardinality(commas(c)) = k
<1>1. Cut(text) = [k \in 1 .. last |-> SubSeq(text, bound(k - 1) + 1, bound(k) - 1)]
  BY Zenon DEF Cut, Comma
<1>2. last = 1
  <2>1. commas(Len(text)) = {}
    OBVIOUS
  <2>2. Cardinality(commas(Len(text))) = 0
    BY <2>1, FS_EmptySet, Zenon
  <2> QED
    BY <2>2
<1>3. bound(0) = 0 /\ bound(1) = Len(text) + 1
  BY <1>2
<1> HIDE DEF last, bound
<1>4. SubSeq(text, bound(1 - 1) + 1, bound(1) - 1) = text
  BY <1>3
<1>5. Cut(text) = [k \in 1 .. 1 |-> text]
  <2>1. \A k \in 1 .. 1 : SubSeq(text, bound(k - 1) + 1, bound(k) - 1) = text
    BY <1>4
  <2> QED
    BY <1>1, <1>2, <2>1
<1> QED
  BY <1>5

LEMMA OneElement ==
  ASSUME NEW S, NEW text \in Seq(S), NEW m \in 1 .. Len(text)
  PROVE  SubSeq(text, m, m) = <<text[m]>>
<1> DEFINE piece == SubSeq(text, m, m)
           one == <<text[m]>>
<1>1. piece \in Seq(S) /\ Len(piece) = 1 /\ piece[1] = text[m]
  OBVIOUS
<1>2. one \in Seq(S) /\ Len(one) = 1 /\ one[1] = text[m]
  OBVIOUS
<1> HIDE DEF piece, one
<1>3. \A i \in 1 .. Len(piece) : piece[i] = one[i]
  BY <1>1, <1>2
<1>4. piece = one
  BY <1>1, <1>2, <1>3, SeqEqual, Zenon
<1> QED
  BY <1>4 DEF piece, one

\* A text of two names with a comma between them is the two names.
LEMMA CutTwo ==
  ASSUME NEW S, NEW text \in Seq(S), Len(text) = 3,
         text[1] # Comma, text[2] = Comma, text[3] # Comma
  PROVE  Cut(text) = << <<text[1]>>, <<text[3]>> >>
<1> DEFINE commas(n) == {i \in 1 .. n : text[i] = Comma}
           last == Cardinality(commas(Len(text))) + 1
           bound(k) == IF k = 0 THEN 0 ELSE IF k = last THEN Len(text) + 1
                       ELSE CHOOSE c \in commas(Len(text)) : Cardinality(commas(c)) = k
           piece(k) == SubSeq(text, bound(k - 1) + 1, bound(k) - 1)
<1>1. Cut(text) = [k \in 1 .. last |-> piece(k)]
  BY Zenon DEF Cut, Comma
<1>2. commas(3) = {2} /\ commas(2) = {2}
  <2>1. 1 .. 3 = {1, 2, 3} /\ 1 .. 2 = {1, 2}
    OBVIOUS
  <2> QED
    BY <2>1, Zenon
<1>3. Cardinality(commas(3)) = 1 /\ Cardinality(commas(2)) = 1
  BY <1>2, FS_Singleton, Zenon
<1> HIDE DEF commas
<1>4. last = 2
  BY <1>3
<1>5. bound(0) = 0 /\ bound(2) = 4
  BY <1>4
<1>6. bound(1) = 2
  <2>1. bound(1) = CHOOSE c \in commas(3) : Cardinality(commas(c)) = 1
    BY <1>4
  <2>2. 2 \in commas(3) /\ \A c \in commas(3) : c = 2
    BY <1>2
  <2> QED
    BY <1>3, <2>1, <2>2, Zenon
<1> HIDE DEF last, bound
<1>7. piece(1) = <<text[1]>>
  <2>1. piece(1) = SubSeq(text, 1, 1)
    BY <1>5, <1>6
  <2>2. 1 \in 1 .. Len(text)
    OBVIOUS
  <2>3. SubSeq(text, 1, 1) = <<text[1]>>
    BY <2>2, OneElement, Zenon
  <2> QED
    BY <2>1, <2>3
<1>8. piece(2) = <<text[3]>>
  <2>1. piece(2) = SubSeq(text, 3, 3)
    BY <1>5, <1>6
  <2>2. 3 \in 1 .. Len(text)
    OBVIOUS
  <2>3. SubSeq(text, 3, 3) = <<text[3]>>
    BY <2>2, OneElement, Zenon
  <2> QED
    BY <2>1, <2>3
<1> HIDE DEF piece
<1> QED
  BY <1>1, <1>4, <1>7, <1>8

\* What a function of no, one or two results of known types has behind its parameters.
LEMMA WrittenTexts ==
  ASSUME NEW ts \in TypeLists, NEW text \in Written(ts)
  PROVE  \/ ts = <<>> /\ text = <<>>
         \/ \E t \in knownTypes : ts = <<t>> /\ text \in {<<t>>, <<"(", t, ")">>}
         \/ \E t, u \in knownTypes : ts = <<t, u>> /\ text = <<"(", t, Comma, u, ")">>
<1>1. Written(ts) = CASE Len(ts) = 0 -> {<<>>}
                      [] Len(ts) = 1 -> {ts, <<"(", ts[1], ")">>}
                      [] Len(ts) = 2 -> {<<"(", ts[1], Comma, ts[2], ")">>}
  BY Zenon DEF Written, Comma
<1>2. CASE ts = <<>>
  <2>1. Len(ts) = 0
    BY <1>2
  <2>2. Written(ts) = {<<>>}
    BY <1>1, <2>1
  <2> QED
    BY <1>2, <2>2
<1>3. CASE \E t \in knownTypes : ts = <<t>>
  <2>1. PICK t \in knownTypes : ts = <<t>>
    BY <1>3
  <2>2. Len(ts) = 1 /\ ts[1] = t
    BY <2>1
  <2>3. Written(ts) = {ts, <<"(", t, ")">>}
    BY <1>1, <2>2
  <2> QED
    BY <2>1, <2>3
<1>4. CASE ts \in knownTypes \X knownTypes
  <2>1. PICK t, u \in knownTypes : ts = <<t, u>>
    BY <1>4
  <2>2. Len(ts) = 2 /\ ts[1] = t /\ ts[2] = u
    BY <2>1
  <2>3. Written(ts) = {<<"(", t, Comma, u, ")">>}
    BY <1>1, <2>2
  <2> QED
    BY <2>1, <2>3
<1> QED
  BY <1>2, <1>3, <1>4 DEF TypeLists

LEMMA KnownNames ==
  \A t \in knownTypes : t # Comma /\ t # "("
  BY Zenon DEF knownTypes, Comma

\* Such a text without its parentheses.
Stripped(text) ==
    IF text # <<>> /\ Head(text) = "(" /\ Last(text) = ")"
    THEN SubSeq(text, 2, Len(text) - 1) ELSE text

LEMMA StrippedText ==
  ASSUME NEW S, NEW text \in Seq(S), Len(text) > 0
  PROVE  Stripped(text) = IF text[1] = "(" /\ text[Len(text)] = ")"
                          THEN SubSeq(text, 2, Len(text) - 1) ELSE text
<1>1. text # <<>> /\ Head(text) = text[1]
  OBVIOUS
<1>2. Last(text) = text[Len(text)]
  BY Zenon DEF Last
<1> QED
  BY <1>1, <1>2, Zenon DEF Stripped

LEMMA StrippedCut ==
  ASSUME NEW ts \in TypeLists, NEW text \in Written(ts)
  PROVE  (IF Cut(Stripped(text)) = << <<>> >> THEN <<>> ELSE Cut(Stripped(text)))
            = [i \in DOMAIN ts |-> <<ts[i]>>]
<1>1. \A t \in knownTypes : t # Comma /\ t # "("
  BY KnownNames
<1>2. CASE ts = <<>> /\ text = <<>>
  <2>1. <<>> \in Seq({}) /\ Len(<<>>) = 0 /\ 1 .. 0 = {}
    OBVIOUS
  <2>2. Cut(<<>>) = << <<>> >>
    BY <2>1, CutWhole
  <2>3. Stripped(text) = <<>>
    BY <1>2, Zenon DEF Stripped
  <2>4. [i \in DOMAIN ts |-> <<ts[i]>>] = <<>>
    BY <1>2
  <2> QED
    BY <2>2, <2>3, <2>4, Zenon
<1>3. CASE \E t \in knownTypes : ts = <<t>> /\ text \in {<<t>>, <<"(", t, ")">>}
  <2>1. PICK t \in knownTypes : ts = <<t>> /\ text \in {<<t>>, <<"(", t, ")">>}
    BY <1>3
  <2>2. t # Comma /\ t # "("
    BY <1>1
  <2>3. Stripped(text) = <<t>>
    <3>1. CASE text = <<t>>
      <4>1. text \in Seq({t}) /\ Len(text) > 0 /\ text[1] = t
        BY <3>1
      <4>2. text[1] # "("
        BY <2>2, <4>1, Zenon
      <4>3. Stripped(text) = text
        BY <4>1, <4>2, StrippedText, Zenon
      <4> QED
        BY <3>1, <4>3, Zenon
    <3>2. CASE text = <<"(", t, ")">>
      <4> PICK open, shut : open = "(" /\ shut = ")"
        OBVIOUS
      <4>1. text = <<open, t, shut>>
        BY <3>2, Zenon
      <4>2. /\ text \in Seq({open, t, shut}) /\ Len(text) > 0 /\ Len(text) - 1 = 2
            /\ text[1] = open /\ text[2] = t /\ text[Len(text)] = shut /\ 2 \in 1 .. Len(text)
        BY <4>1
      <4>3. Stripped(text) = SubSeq(text, 2, 2)
        BY <4>2, StrippedText, Zenon
      <4>4. SubSeq(text, 2, 2) = <<text[2]>>
        BY <4>2, OneElement, Zenon
      <4> QED
        BY <4>2, <4>3, <4>4, Zenon
    <3> QED
      BY <2>1, <3>1, <3>2
  <2>4. <<t>> \in Seq({t}) /\ \A i \in 1 .. Len(<<t>>) : <<t>>[i] # Comma
    BY <2>2
  <2>5. Cut(<<t>>) = << <<t>> >>
    BY <2>4, CutWhole, Zenon
  <2>6. << <<t>> >> # << <<>> >>
    <3>1. << <<t>> >>[1] = <<t>> /\ << <<>> >>[1] = <<>> /\ <<t>> # <<>>
      OBVIOUS
    <3> QED
      BY <3>1, Zenon
  <2>7. [i \in DOMAIN ts |-> <<ts[i]>>] = << <<t>> >>
    BY <2>1
  <2> QED
    BY <2>3, <2>5, <2>6, <2>7, Zenon
<1>4. CASE \E t, u \in knownTypes : ts = <<t, u>> /\ text = <<"(", t, Comma, u, ")">>
  <2>1. PICK t, u \in knownTypes : ts = <<t, u>> /\ text = <<"(", t, Comma, u, ")">>
    BY <1>4
  <2>2. t # Comma /\ u # Comma
    BY <1>1
  <2> PICK open, shut : open = "(" /\ shut = ")"
    OBVIOUS
  <2> DEFINE S == {open, t, Comma, u, shut}
             inner == SubSeq(text, 2, 4)
  <2>3. text = <<open, t, Comma, u, shut>>
    BY <2>1, Zenon
  <2>4. /\ text \in Seq(S) /\ Len(text) > 0 /\ Len(text) - 1 = 4 /\ Len(text) = 5
        /\ text[1] = open /\ text[2] = t /\ text[3] = Comma /\ text[4] = u
        /\ text[Len(text)] = shut
    BY <2>3
  <2> HIDE DEF S
  <2>5. Stripped(text) = inner
    BY <2>4, StrippedText, Zenon
  <2>6. /\ inner \in Seq(S) /\ Len(inner) = 3
        /\ inner[1] = t /\ inner[2] = Comma /\ inner[3] = u
    <3>1. inner \in Seq(S)
      <4>1. \A i \in 2 .. 4 : text[i] \in S
        <5>1. \A i \in 2 .. 4 : i \in 1 .. Len(text)
          BY <2>4
        <5> QED
          BY <2>4, <5>1, ElementOfSeq, Zenon
      <4>2. 2 \in Int /\ 4 \in Int
        OBVIOUS
      <4> QED
        BY <4>1, <4>2, SubSeqProperties, Zenon
    <3>2. Len(inner) = 3 /\ \A i \in 1 .. 3 : inner[i] = text[1 + i]
      BY <2>4
    <3>3. inner[1] = text[2] /\ inner[2] = text[3] /\ inner[3] = text[4]
      BY <3>2
    <3> QED
      BY <2>4, <3>1, <3>2, <3>3, Zenon
  <2> HIDE DEF inner
  <2>7. Cut(inner) = << <<t>>, <<u>> >>
    <3>1. Cut(inner) = << <<inner[1]>>, <<inner[3]>> >>
      BY <2>2, <2>6, CutTwo
    <3> QED
      BY <2>6, <3>1
  <2>8. << <<t>>, <<u>> >> # << <<>> >>
    <3>1. Len(<< <<t>>, <<u>> >>) = 2 /\ Len(<< <<>> >>) = 1
      OBVIOUS
    <3> QED
      BY <3>1, Zenon
  <2>9. [i \in DOMAIN ts |-> <<ts[i]>>] = << <<t>>, <<u>> >>
    BY <2>1
  <2> QED
    BY <2>5, <2>7, <2>8, <2>9, Zenon
<1> QED
  BY <1>2, <1>3, <1>4, WrittenTexts, Zenon

-----------------------------------------------------------------------------
(* The types of expressions. *)

\* The type of a function is a text.  That "func" is in STRING is not known to the provers.
Words == STRING \cup {"func"}
FuncsText == \A f \in DOMAIN funcs : funcs[f] \in Seq(Words)

\* The types of a call are the results of the function.
LEMMA RegularTypes ==
  ASSUME FuncsText, NEW f, Regular(f)
  PROVE  f \in DOMAIN funcs /\ Contains(funcs[f], ")") /\ CallTypes(f) = Results(funcs[f])
<1> DEFINE type == funcs[f]
           ts == CHOOSE ts \in TypeLists : Returns(type, ts)
           IsClose(i) == type[i] = ")" /\ \A j \in 1 .. (i - 1) : type[j] # ")"
<1>1. f \in DOMAIN funcs /\ type \in Seq(Words)
  BY DEF Regular, FuncsText
<1>2. ts \in TypeLists /\ Returns(type, ts)
  BY Zenon DEF Regular
<1>3. Results(type) = [i \in DOMAIN ts |-> <<ts[i]>>]
  BY Zenon DEF Results
<1> HIDE DEF ts
<1>4. PICK close \in DOMAIN type :
        IsClose(close) /\ SubSeq(type, close + 1, Len(type)) \in Written(ts)
  BY <1>2, Zenon DEF Returns
<1>5. \A i \in DOMAIN type : IsClose(i) => i = close
  <2>1. \A i \in DOMAIN type : i \in Int /\ i >= 1
    BY <1>1
  <2>2. ASSUME NEW i \in DOMAIN type, IsClose(i) PROVE ~(i < close) /\ ~(close < i)
    BY <1>4, <2>1, <2>2
  <2> QED
    BY <1>4, <2>1, <2>2
<1>6. (CHOOSE i \in DOMAIN type : IsClose(i)) = close
  BY <1>4, <1>5, Zenon
<1> DEFINE text == SubSeq(type, close + 1, Len(type))
<1>7. ResultText(type) = Stripped(text)
  <2>1. ResultText(type) =
            Stripped(SubSeq(type, (CHOOSE i \in DOMAIN type : IsClose(i)) + 1, Len(type)))
    BY Zenon DEF ResultText, Stripped
  <2> QED
    BY <1>6, <2>1, Zenon
<1>8. CallTypes(f) = IF Cut(Stripped(text)) = << <<>> >> THEN <<>> ELSE Cut(Stripped(text))
  BY <1>7, Zenon DEF CallTypes
<1>9. Contains(type, ")")
  BY <1>1, <1>4 DEF Contains
<1> QED
  BY <1>1, <1>2, <1>3, <1>4, <1>8, <1>9, StrippedCut, Zenon

LEMMA KnownValue ==
  ASSUME FuncsText, NEW value, Known(value)
  PROVE  Resolves(value) /\ ValueTypes(value) = KnownTypes(value)
<1>1. CASE value.form \in {"literal", "composite", "pointer"}
  BY <1>1 DEF Resolves, ValueTypes, KnownTypes
<1>2. CASE value.form = "packageCall" /\ value.of # ""
  BY <1>2 DEF Resolves, ValueTypes, KnownTypes
<1>3. CASE value.form = "call" /\ Regular(value.of)
  <2>1. /\ value.of \in DOMAIN funcs /\ Contains(funcs[value.of], ")")
        /\ CallTypes(value.of) = Results(funcs[value.of])
    BY <1>3, RegularTypes
  <2>2. Resolves(value)
    BY <1>3, <2>1 DEF Resolves
  <2>3. ValueTypes(value) = [i \in DOMAIN CallTypes(value.of) |->
                                [form |-> "result", of |-> CallTypes(value.of)[i]]]
    BY <1>3, <2>1 DEF ValueTypes
  <2>4. KnownTypes(value) = [i \in DOMAIN Results(funcs[value.of]) |->
                                [form |-> "result", of |-> Results(funcs[value.of])[i]]]
    BY <1>3, Zenon DEF KnownTypes
  <2> QED
    BY <2>1, <2>2, <2>3, <2>4, Zenon
<1> QED
  BY <1>1, <1>2, <1>3 DEF Known

LEMMA KnownLine ==
  ASSUME FuncsText, NEW a, TotalLine = LineOf(source, a),
         \A value \in ToSet(source.tails[LineOf(source, a)]) : Known(value)
  PROVE  /\ LineTypes = Expected(source, a)
         /\ \A v \in DOMAIN Values : Resolves(Values[v])
<1> DEFINE values == source.tails[LineOf(source, a)]
<1>1. Values = values
  BY Zenon DEF Values
<1>2. \A v \in DOMAIN values : values[v] \in ToSet(values)
  BY Zenon DEF ToSet
<1>3. \A v \in DOMAIN values : Resolves(values[v]) /\ ValueTypes(values[v]) = KnownTypes(values[v])
  BY <1>2, KnownValue, Zenon
<1>4. Expected(source, a) = FlattenSeq([k \in DOMAIN values |-> KnownTypes(values[k])])
  BY Zenon DEF Expected, LineOf
<1>5. LineTypes = FlattenSeq([k \in DOMAIN values |-> ValueTypes(values[k])])
  BY <1>1, Zenon DEF LineTypes
<1> HIDE DEF values
<1>6. [k \in DOMAIN values |-> KnownTypes(values[k])] = [k \in DOMAIN values |-> ValueTypes(values[k])]
  BY <1>3
<1> QED
  BY <1>1, <1>3, <1>4, <1>5, <1>6, Zenon

\* A type only becomes another text.
LEMMA FuncsStep ==
  ASSUME TypeInv, FuncsText, [Next]_allVars
  PROVE  FuncsText'
<1>1. CASE funcs' = funcs
  BY <1>1 DEF FuncsText
<1>2. CASE Ident \/ Punctuation
  <2>1. Sign /\ at <= Len(source.tokens)
    BY <1>2 DEF Ident, Punctuation, Scan
  <2>2. Tok.lit \in STRING
    BY <2>1, TokTyped
  <2> DEFINE l == Last(fnames)
             more == Append(funcs[l], Tok.lit)
  <2>3. funcs' = [funcs EXCEPT ![l] = more] \/ funcs' = funcs
    BY <2>1, Zenon DEF Sign
  <2>4. l \in DOMAIN funcs => more \in Seq(Words)
    <3>1. Tok.lit \in Words
      BY <2>2 DEF Words
    <3> QED
      BY <3>1 DEF FuncsText
  <2> HIDE DEF l, more
  <2> QED
    BY <2>3, <2>4 DEF FuncsText
<1>3. CASE FuncName
  <2> DEFINE n == Tok.lit
             word == <<"func">>
  <2>1. funcs' = Put(funcs, n, word)
    BY <1>3, Zenon DEF FuncName
  <2>2. word \in Seq(Words)
    BY DEF Words
  <2> HIDE DEF n, word
  <2> QED
    BY <2>1, <2>2 DEF FuncsText, Put
<1>4. CASE StartKernel
  BY <1>4 DEF StartKernel, NoMap, FuncsText
<1>5. CASE \/ Func \/ Type \/ Var \/ Semicolon \/ LBrace \/ RBrace \/ TypeName \/ Other
           \/ Define \/ SignPanics \/ LinePanics \/ DefineFails \/ EndOfFile
  <2>1. funcs' = funcs
    BY <1>5, Zenon DEF Func, Type, Var, Semicolon, LBrace, RBrace, TypeName, Other, Define,
                       SignPanics, LinePanics, DefineFails, EndOfFile, types
  <2> QED
    BY <1>1, <2>1
<1>6. CASE NewBlock \/ RunPlugin \/ Drop \/ UNCHANGED allVars
  <2>1. funcs' = funcs
    BY <1>6, Zenon DEF NewBlock, RunPlugin, Drop, Finish, allVars, types
  <2> QED
    BY <1>1, <2>1
<1> QED
  BY <1>2, <1>3, <1>4, <1>5, <1>6, NextSteps DEF Scanned

-----------------------------------------------------------------------------
(* Statements. *)

\* The names in front of the := at i, n of them, begin at First(i, n).
First(i, n) == i + 1 - 2 * n
Statement(s, i, n) == TokOf(s, i) = ":=" /\ IsList(s, i, n)

\* Names and commas take turns.
LEMMA ListText ==
  ASSUME NEW s, NEW i \in Nat, NEW n \in 1 .. i, Statement(s, i, n)
  PROVE  /\ n \in Nat /\ First(i, n) \in Nat /\ First(i, n) >= 1
         /\ First(i, n) > 1 => TokOf(s, First(i, n) - 1) = Semi
         /\ \A m \in 0 .. (n - 1) : TokOf(s, First(i, n) + 2 * m) = "ident"
         /\ \A m \in 1 .. (n - 1) : TokOf(s, First(i, n) + 2 * m - 1) = Comma
         /\ \A j \in First(i, n) .. i : LineOf(s, j) = LineOf(s, i)
<1> DEFINE first == First(i, n)
<1>1. i \in Nat /\ n \in Nat
  OBVIOUS
<1>2. /\ first = 1 \/ (first > 1 /\ TokOf(s, first - 1) = Semi)
      /\ \A k \in 1 .. n : TokOf(s, i + 1 - 2 * k) = "ident"
      /\ \A k \in 1 .. (n - 1) : TokOf(s, i - 2 * k) = Comma
      /\ \A j \in first .. i : LineOf(s, j) = LineOf(s, i)
  BY Zenon DEF Statement, IsList, First, TokOf, LineOf, Semi, Comma
<1>3. first = i + 1 - 2 * n
  BY DEF First
<1>4. first \in Nat /\ first >= 1
  BY <1>1, <1>2, <1>3
<1>5. first > 1 => TokOf(s, first - 1) = Semi
  BY <1>2, <1>4
<1> HIDE DEF first
<1>6. ASSUME NEW m \in 0 .. (n - 1) PROVE TokOf(s, first + 2 * m) = "ident"
  <2>1. n - m \in 1 .. n /\ i + 1 - 2 * (n - m) = first + 2 * m
    BY <1>1, <1>3
  <2>2. TokOf(s, i + 1 - 2 * (n - m)) = "ident"
    BY <1>2, <2>1, Zenon
  <2> QED
    BY <2>1, <2>2, Zenon
<1>7. ASSUME NEW m \in 1 .. (n - 1) PROVE TokOf(s, first + 2 * m - 1) = Comma
  <2>1. n - m \in 1 .. (n - 1) /\ i - 2 * (n - m) = first + 2 * m - 1
    BY <1>1, <1>3
  <2>2. TokOf(s, i - 2 * (n - m)) = Comma
    BY <1>2, <2>1, Zenon
  <2> QED
    BY <2>1, <2>2, Zenon
<1> QED
  BY <1>1, <1>2, <1>4, <1>5, <1>6, <1>7, Zenon DEF first

\* What there is in a block of statements.
LEMMA PlainText ==
  ASSUME TypeInv, Plain(source), NEW i \in 1 .. Size(source)
  PROVE  /\ ~source.directive
         /\ TokOf(source, i) \notin {"func", "type", "var"}
         /\ TokOf(source, i) = ":=" =>
                /\ source.defines[LineOf(source, i)] = 1
                /\ \E n \in 1 .. i : Statement(source, i, n)
<1>1. i \in DOMAIN source.tokens
  BY TextTyped
<1> QED
  BY <1>1, Zenon DEF Plain, TokOf, LineOf, Statement

\* In front of the := at i Parse has the names of its statement that it has scanned.
Placed(i, n) ==
    /\ at - First(i, n) \in {2 * Len(pendingCandidates), 2 * Len(pendingCandidates) - 1}
    /\ \A k \in 1 .. Len(pendingCandidates) :
        /\ NameIn(pendingCandidates, k) = LitOf(source, First(i, n) + 2 * (k - 1))
        /\ LineIn(pendingCandidates, k) = LineOf(source, i)

ListInv ==
    \A i \in 1 .. Size(source) : \A n \in 1 .. i :
        Statement(source, i, n) /\ First(i, n) <= at /\ at <= i => Placed(i, n)

\* Parse expects nothing but statements, and a line that is taken has been taken by the :=
\* that stands on it.
Expecting == ~inVarDecl /\ ~lastWasFuncKeyword /\ ~lastWasTypeKeyword /\ ~funcSignatureOpen
LinesTaken ==
    \A n \in DOMAIN source.tails : "var-decl" \in lineKinds[n] =>
        \E j \in 1 .. (at - 1) : TokOf(source, j) = ":=" /\ LineOf(source, j) = n

StatementsInv ==
    stage = "parsing" /\ Plain(source) => Expecting /\ LinesTaken /\ ListInv

\* What the scanner does in a block of statements.
LEMMA PlainSteps ==
  ASSUME TypeInv, Plain(source), Expecting, Scanned
  PROVE  /\ Expecting' /\ funcs' = funcs
         /\ \/ Define
            \/ vars' = vars /\ Mark({}) /\ TokOf(source, at) # ":="
         /\ TokOf(source, at) = "ident" =>
                pendingCandidates' = Append(pendingCandidates,
                                [name |-> LitOf(source, at), line |-> LineOf(source, at)])
         /\ TokOf(source, at) = Comma => pendingCandidates' = pendingCandidates
         /\ TokOf(source, at) = Semi => pendingCandidates' = <<>>
<1>1. /\ at \in 1 .. Size(source) /\ Tok.tok = TokOf(source, at)
      /\ Tok.line = LineOf(source, at) /\ Tok.lit = LitOf(source, at)
  BY ScanStep
<1>2. TokOf(source, at) \notin {"func", "type", "var"}
  BY <1>1, PlainText
<1>3. ~Func /\ ~Type /\ ~Var /\ ~FuncName /\ ~TypeName
  <2>1. ~Func /\ ~Type /\ ~Var
    BY <1>1, <1>2, Zenon DEF Func, Type, Var, Scan
  <2> QED
    BY <2>1, Zenon DEF FuncName, TypeName, Expecting
<1>4. ~Signs
  BY Zenon DEF Signs, Expecting
<1>5. CASE Ident
  <2>1. TokOf(source, at) = "ident" /\ TokOf(source, at) # ":="
    BY <1>1, <1>5, Zenon DEF Ident, Scan
  <2>2. UNCHANGED expecting /\ funcs' = funcs /\ vars' = vars
    BY <1>4, <1>5, Zenon DEF Ident, Sign
  <2>3. Mark({}) /\ pendingCandidates' = Append(pendingCandidates,
                                [name |-> LitOf(source, at), line |-> LineOf(source, at)])
    BY <1>1, <1>5, Zenon DEF Ident, Expecting
  <2> QED
    BY <2>1, <2>2, <2>3, TokensDiffer, Zenon DEF expecting, Expecting
<1>6. CASE Semicolon
  <2>1. TokOf(source, at) = Semi
    BY <1>1, <1>6, Zenon DEF Semicolon, Scan, Semi
  <2>2. /\ Mark({}) /\ pendingCandidates' = <<>> /\ funcs' = funcs /\ vars' = vars
        /\ ~inVarDecl' /\ ~lastWasFuncKeyword' /\ UNCHANGED <<funcSignatureOpen, lastWasTypeKeyword>>
    BY <1>6, Zenon DEF Semicolon, types
  <2> QED
    BY <2>1, <2>2, TokensDiffer, Zenon DEF Expecting
<1>7. CASE Punctuation
  <2>1. TokOf(source, at) \in {"(", ")", Comma}
    BY <1>1, <1>7, Zenon DEF Punctuation, Scan, Comma
  <2>2. /\ Mark({}) /\ pendingCandidates' = pendingCandidates /\ funcs' = funcs /\ vars' = vars
        /\ UNCHANGED expecting
    BY <1>4, <1>7, Zenon DEF Punctuation, Sign
  <2>3. TokOf(source, at) \notin {"ident", Semi, ":="}
    BY <2>1, Zenon DEF Semi, Comma
  <2> QED
    BY <2>2, <2>3, Zenon DEF expecting, Expecting
<1>8. CASE LBrace \/ RBrace \/ Other
  <2>1. TokOf(source, at) \in {LeftBrace, RightBrace, "other"}
    BY <1>1, <1>8, Zenon DEF LBrace, RBrace, Other, Scan, LeftBrace, RightBrace
  <2>2. /\ Mark({}) /\ pendingCandidates' = pendingCandidates /\ funcs' = funcs /\ vars' = vars
        /\ ~funcSignatureOpen' /\ UNCHANGED <<inVarDecl, lastWasFuncKeyword, lastWasTypeKeyword>>
    <3>1. CASE LBrace
      BY <3>1, Zenon DEF LBrace, types
    <3>2. CASE RBrace
      BY <3>2, Zenon DEF RBrace, types, expecting, Expecting
    <3>3. CASE Other
      BY <3>3, Zenon DEF Other, types, expecting, Expecting
    <3> QED
      BY <1>8, <3>1, <3>2, <3>3
  <2>3. TokOf(source, at) \notin {"ident", Semi, ":=", Comma}
    BY <2>1, Zenon DEF Semi, Comma, LeftBrace, RightBrace
  <2> QED
    BY <2>2, <2>3, Zenon DEF Expecting
<1>9. CASE Define
  <2>1. TokOf(source, at) = ":=" /\ UNCHANGED expecting /\ funcs' = funcs
    BY <1>1, <1>9, Zenon DEF Define, Scan
  <2> QED
    BY <1>9, <2>1, TokensDiffer, Zenon DEF expecting, Expecting
<1> QED
  BY <1>3, <1>5, <1>6, <1>7, <1>8, <1>9 DEF Scanned

LEMMA ListStep ==
  ASSUME TypeInv, CandidatesInv, Plain(source), Expecting, ListInv, Scanned
  PROVE  ListInv'
<1> DEFINE Names == [name : STRING, line : Nat]
           p == pendingCandidates
<1>1. /\ at \in Nat /\ at \in 1 .. Size(source) /\ at' = at + 1 /\ Size(source) \in Nat
      /\ stage = "parsing" /\ source' = source
  BY ScanStep
<1>2. /\ p \in Seq(Names) /\ Len(p) \in Nat
  BY <1>1 DEF CandidatesInv
<1>3. SUFFICES ASSUME NEW i \in 1 .. Size(source), NEW n \in 1 .. i, Statement(source, i, n),
                      First(i, n) <= at + 1, at + 1 <= i
               PROVE  Placed(i, n)'
  BY <1>1, Zenon DEF ListInv, Statement, First
<1> DEFINE first == First(i, n)
<1>4. /\ n \in Nat /\ i \in Nat /\ first \in Nat /\ first >= 1 /\ first = i + 1 - 2 * n
      /\ first > 1 => TokOf(source, first - 1) = Semi
      /\ \A m \in 0 .. (n - 1) : TokOf(source, first + 2 * m) = "ident"
      /\ \A m \in 1 .. (n - 1) : TokOf(source, first + 2 * m - 1) = Comma
      /\ \A j \in first .. i : LineOf(source, j) = LineOf(source, i)
  <2>1. i \in Nat /\ first = i + 1 - 2 * n
    BY <1>1 DEF First
  <2> QED
    BY <1>3, <2>1, ListText
<1>5. SUFFICES /\ (at + 1) - first \in {2 * Len(p'), 2 * Len(p') - 1}
               /\ \A k \in 1 .. Len(p') :
                    /\ NameIn(p', k) = LitOf(source, first + 2 * (k - 1))
                    /\ LineIn(p', k) = LineOf(source, i)
  <2>1. /\ at' - first \in {2 * Len(p'), 2 * Len(p') - 1}
        /\ \A k \in 1 .. Len(p') :
            /\ NameIn(p', k) = LitOf(source', first + 2 * (k - 1))
            /\ LineIn(p', k) = LineOf(source', i)
    <3>1. at' - first = (at + 1) - first /\ source' = source
      BY <1>1, Zenon
    <3> HIDE DEF first
    <3> QED
      BY <1>5, <3>1, Zenon
  <2> QED
    BY <2>1, Zenon DEF Placed, First
<1>6. /\ first <= at + 1 /\ at + 1 <= i
  BY <1>3
<1> HIDE DEF first
<1>7. CASE first = at + 1
  <2>1. TokOf(source, at) = Semi
    BY <1>1, <1>4, <1>7
  <2>2. p' = <<>>
    BY <2>1, PlainSteps, Zenon
  <2> QED
    BY <1>1, <1>7, <2>2
<1>8. CASE first <= at
  <2>1. /\ at - first \in {2 * Len(p), 2 * Len(p) - 1}
        /\ \A k \in 1 .. Len(p) :
            /\ NameIn(p, k) = LitOf(source, first + 2 * (k - 1))
            /\ LineIn(p, k) = LineOf(source, i)
    <3>1. First(i, n) <= at /\ at <= i
      BY <1>1, <1>4, <1>6, <1>8 DEF first
    <3>2. Placed(i, n)
      BY <1>3, <3>1, Zenon DEF ListInv
    <3> QED
      BY <3>2, Zenon DEF Placed, first
  <2>2. CASE at - first = 2 * Len(p)
    <3> PICK q : q = Len(p) + 1
      OBVIOUS
    <3> DEFINE e == [name |-> LitOf(source, at), line |-> LineOf(source, at)]
    <3>1. Len(p) \in 0 .. (n - 1) /\ at = first + 2 * Len(p) /\ at \in first .. i
      BY <1>1, <1>2, <1>4, <1>6, <2>2
    <3>2. TokOf(source, at) = "ident" /\ LineOf(source, at) = LineOf(source, i)
      BY <1>4, <3>1, Zenon
    <3>3. p' = Append(p, e)
      BY <3>2, PlainSteps, Zenon
    <3>4. e \in Names
      BY <1>1, TextTyped
    <3>5. Len(p') = Len(p) + 1 /\ p'[q] = e /\ \A k \in 1 .. Len(p) : p'[k] = p[k]
      BY <1>2, <3>3, <3>4
    <3>6. /\ \A k \in 1 .. Len(p) : NameIn(p', k) = NameIn(p, k) /\ LineIn(p', k) = LineIn(p, k)
          /\ NameIn(p', q) = LitOf(source, at) /\ LineIn(p', q) = LineOf(source, at)
      BY <3>5 DEF NameIn, LineIn
    <3>7. (at + 1) - first = 2 * Len(p') - 1
      BY <1>1, <1>2, <1>4, <3>1, <3>5
    <3>8. at = first + 2 * (q - 1) /\ \A k \in 1 .. Len(p') : k \in 1 .. Len(p) \/ k = q
      BY <1>2, <1>4, <3>1, <3>5
    <3> QED
      BY <2>1, <3>2, <3>6, <3>7, <3>8, Zenon
  <2>3. CASE at - first = 2 * Len(p) - 1
    <3>1. Len(p) \in 1 .. (n - 1) /\ at = first + 2 * Len(p) - 1
      BY <1>1, <1>2, <1>4, <1>6, <1>8, <2>3, SMTT(40)
    <3>2. TokOf(source, at) = Comma
      BY <1>4, <3>1, Zenon
    <3>3. p' = p
      BY <3>2, PlainSteps, Zenon
    <3>4. (at + 1) - first = 2 * Len(p)
      BY <1>1, <1>2, <1>4, <2>3
    <3> QED
      BY <2>1, <3>3, <3>4, Zenon
  <2> QED
    BY <2>1, <2>2, <2>3, Zenon
<1> QED
  BY <1>1, <1>4, <1>6, <1>7, <1>8

\* A line is taken by the := on it.
LEMMA LinesStep ==
  ASSUME TypeInv, Plain(source), Expecting, LinesTaken, Scanned
  PROVE  LinesTaken'
<1>1. /\ at \in Nat /\ at \in 1 .. Size(source) /\ at' = at + 1
      /\ source' = source /\ at <= Len(source.tokens)
      /\ Tok.tok = TokOf(source, at)
  BY ScanStep
<1>2. SUFFICES ASSUME NEW n \in DOMAIN source.tails, "var-decl" \in lineKinds'[n]
               PROVE  \E j \in 1 .. at : TokOf(source, j) = ":=" /\ LineOf(source, j) = n
  <2>1. at' - 1 = at
    BY <1>1
  <2> QED
    BY <1>1, <1>2, <2>1, Zenon DEF LinesTaken
<1>5. n \in LinesOf(source)
  BY <1>2, Zenon DEF LinesOf
<1>3. CASE "var-decl" \in lineKinds[n]
  <2>1. \A j \in 1 .. (at - 1) : j \in 1 .. at
    BY <1>1
  <2> QED
    BY <1>3, <2>1, Zenon DEF LinesTaken
<1>4. CASE "var-decl" \notin lineKinds[n]
  <2>1. CASE Define
    <3>1. TokOf(source, at) = ":=" /\ Mark({"var-decl"})
      BY <1>1, <2>1, Zenon DEF Define, Scan
    <3>2. n = LineOf(source, at)
      BY <1>1, <1>2, <1>4, <1>5, <3>1, MarksGrow
    <3> QED
      BY <1>1, <3>1, <3>2
  <2>2. CASE Mark({})
    BY <1>1, <1>2, <1>4, <1>5, <2>2, MarksGrow
  <2> QED
    BY <2>1, <2>2, PlainSteps, Zenon
<1> QED
  BY <1>3, <1>4

\* A block begins with nothing scanned.
LEMMA FreshStatements ==
  ASSUME StartKernel \/ NewBlock \/ RunPlugin \/ Drop
  PROVE  StatementsInv'
<1>1. PICK s : Fresh(s)
  BY Zenon DEF StartKernel, NewBlock, RunPlugin, Drop, Finish
<1>2. /\ at' = 1 /\ pendingCandidates' = <<>> /\ Expecting'
      /\ lineKinds' = [n \in LinesOf(source') |-> {}]
  BY <1>1, Zenon DEF Fresh, Expecting
<1>3. LinesTaken'
  BY <1>2 DEF LinesTaken, LinesOf
<1>4. ListInv'
  <2>1. SUFFICES ASSUME NEW i \in 1 .. Size(s), NEW n \in 1 .. i, Statement(s, i, n),
                        First(i, n) <= 1
                 PROVE  Placed(i, n)'
    BY <1>1, <1>2, Zenon DEF ListInv, First, Fresh, Statement
  <2>2. i \in Nat
    BY <2>1
  <2>3. First(i, n) \in Nat /\ First(i, n) >= 1
    BY <2>1, <2>2, ListText
  <2>4. Len(pendingCandidates') = 0 /\ 1 .. 0 = {} /\ 1 - First(i, n) = 0
    BY <1>2, <2>1, <2>3
  <2>5. Len(pendingCandidates') = 0 /\ 1 .. Len(pendingCandidates') = {}
    BY <2>4
  <2>6. at' - First(i, n) = 2 * Len(pendingCandidates')
    BY <1>2, <2>4
  <2> QED
    BY <2>5, <2>6, Zenon DEF Placed, First
<1> QED
  BY <1>2, <1>3, <1>4, Zenon DEF StatementsInv

\* What is expected of a := is a matter of its text and of the types of functions.
LEMMA SameFits ==
  ASSUME funcs' = funcs, source' = source, NEW i
  PROVE  /\ Fits(source, i)' <=> Fits(source, i)
         /\ Expected(source, i)' = Expected(source, i)
         /\ Declared(source, i)' = Declared(source, i)
<1>1. Declared(source, i)' = Declared(source, i)
  OBVIOUS
<1>2. ASSUME NEW f PROVE Regular(f)' <=> Regular(f)
  BY DEF Regular
<1> QED
  BY <1>1, <1>2 DEF Fits, Expected, Known, KnownTypes

\* At a := the candidates are the names that it declares.
LEMMA AtDefine ==
  ASSUME TypeInv, CandidatesInv, stage = "parsing", at \in 1 .. Size(source),
         TokOf(source, at) = ":=", Plain(source), ListInv
  PROVE  /\ Len(pendingCandidates) \in Nat /\ Len(pendingCandidates) >= 1
         /\ DOMAIN pendingCandidates = 1 .. Len(pendingCandidates)
         /\ DOMAIN Declared(source, at) = 1 .. Len(pendingCandidates)
         /\ Len(Declared(source, at)) = Len(pendingCandidates)
         /\ \A k \in 1 .. Len(pendingCandidates) :
                NameIn(pendingCandidates, k) = Declared(source, at)[k]
         /\ pendingCandidates # <<>> /\ TotalLine = LineOf(source, at)
<1> DEFINE n == CHOOSE n \in 1 .. at : IsList(source, at, n)
           p == pendingCandidates
<1>1. at \in Nat /\ n \in 1 .. at /\ Statement(source, at, n)
  <2>1. \E m \in 1 .. at : Statement(source, at, m)
    BY PlainText
  <2>2. n \in 1 .. at /\ IsList(source, at, n)
    BY <2>1, Zenon DEF Statement
  <2> QED
    BY <2>2, TextTyped, Zenon DEF Statement
<1>2. Declared(source, at) = [k \in 1 .. n |-> LitOf(source, at - 1 - 2 * (n - k))]
  BY Zenon DEF Declared, LitOf
<1> HIDE DEF n
<1>3. n \in Nat /\ n >= 1 /\ First(at, n) = at + 1 - 2 * n /\ First(at, n) <= at
  BY <1>1 DEF First
<1>4. Placed(at, n)
  BY <1>1, <1>3 DEF ListInv
<1>5. /\ p \in Seq([name : STRING, line : Nat]) /\ Len(p) \in Nat
      /\ DOMAIN p = 1 .. Len(p)
  <2>1. p \in Seq([name : STRING, line : Nat])
    BY Zenon DEF CandidatesInv
  <2> QED
    BY <2>1
<1>6. Len(p) = n
  <2>1. at - First(at, n) \in {2 * Len(p), 2 * Len(p) - 1}
    BY <1>4, Zenon DEF Placed
  <2>2. at - First(at, n) = 2 * n - 1
    BY <1>1, <1>3
  <2>3. ASSUME NEW l \in Nat, 2 * n - 1 \in {2 * l, 2 * l - 1} PROVE l = n
    BY <1>3, <2>3
  <2> QED
    BY <1>5, <2>1, <2>2, <2>3, Zenon
<1>7. /\ DOMAIN Declared(source, at) = 1 .. n /\ Len(Declared(source, at)) = n
  BY <1>2, <1>3
<1>8. ASSUME NEW k \in 1 .. n
      PROVE  NameIn(p, k) = Declared(source, at)[k] /\ LineIn(p, k) = LineOf(source, at)
  <2>1. /\ NameIn(p, k) = LitOf(source, First(at, n) + 2 * (k - 1))
        /\ LineIn(p, k) = LineOf(source, at)
    BY <1>4, <1>6, Zenon DEF Placed
  <2>2. First(at, n) + 2 * (k - 1) = at - 1 - 2 * (n - k)
    BY <1>1, <1>3
  <2>3. Declared(source, at)[k] = LitOf(source, at - 1 - 2 * (n - k))
    BY <1>2
  <2> QED
    BY <2>1, <2>2, <2>3, Zenon
<1>9. p # <<>> /\ Head(p) = p[1] /\ 1 \in 1 .. n
  BY <1>3, <1>5, <1>6
<1>10. TotalLine = LineOf(source, at)
  BY <1>8, <1>9, Zenon DEF TotalLine, LineIn
<1> QED
  BY <1>3, <1>5, <1>6, <1>7, <1>8, <1>9, <1>10

\* A := of known expressions has the types that are expected of it, and is accepted.
LEMMA FittingDefine ==
  ASSUME TypeInv, CandidatesInv, FuncsText, stage = "parsing", at \in 1 .. Size(source),
         TokOf(source, at) = ":=", Plain(source), ListInv, LinesTaken, Fits(source, at)
  PROVE  Typed /\ LineTypes = Expected(source, at)
<1>1. /\ Len(Declared(source, at)) = Len(pendingCandidates) /\ pendingCandidates # <<>>
      /\ TotalLine = LineOf(source, at)
  BY AtDefine
<1>2. /\ \A value \in ToSet(source.tails[LineOf(source, at)]) : Known(value)
      /\ Len(Expected(source, at)) = Len(Declared(source, at))
  BY Zenon DEF Fits, LineOf
<1>3. /\ LineTypes = Expected(source, at)
      /\ \A v \in DOMAIN Values : Resolves(Values[v])
  BY <1>1, <1>2, KnownLine
<1>4. /\ source.defines[LineOf(source, at)] = 1 /\ ~source.directive
      /\ LineOf(source, at) \in DOMAIN source.tails
  BY PlainText, LinesWritten
<1>5. "var-decl" \notin lineKinds[LineOf(source, at)]
  <2>1. SUFFICES ASSUME "var-decl" \in lineKinds[LineOf(source, at)] PROVE FALSE
    OBVIOUS
  <2>2. PICK j \in 1 .. (at - 1) : TokOf(source, j) = ":=" /\ LineOf(source, j) = LineOf(source, at)
    BY <1>4, <2>1 DEF LinesTaken
  <2>3. j \in 1 .. Size(source) /\ j # at
    BY TextTyped
  <2> QED
    BY <1>4, <2>2, <2>3, DefineAlone, Zenon
<1>6. Tok.line = LineOf(source, at)
  BY Zenon DEF Tok, LineOf
<1> QED
  BY <1>1, <1>2, <1>3, <1>4, <1>5, <1>6, Zenon DEF Typed, TakesLine

\* A block of statements that are known is not refused.
PlainInv ==
    /\ FuncsText /\ StatementsInv /\ PlainParses

LEMMA StatementsStep ==
  ASSUME TypeInv, CandidatesInv, PlainInv, [Next]_allVars
  PROVE  StatementsInv'
<1>1. CASE StartKernel \/ NewBlock \/ RunPlugin \/ Drop
  BY <1>1, FreshStatements
<1>2. CASE Scanned
  <2>1. stage = "parsing" /\ source' = source
    BY <1>2, ScanStep
  <2>2. Plain(source)' <=> Plain(source)
    BY <2>1
  <2>3. SUFFICES ASSUME Plain(source) PROVE Expecting' /\ LinesTaken' /\ ListInv'
    BY <2>2, Zenon DEF StatementsInv
  <2>4. Expecting /\ LinesTaken /\ ListInv
    BY <2>1, <2>3, Zenon DEF PlainInv, StatementsInv
  <2> QED
    BY <1>2, <2>3, <2>4, PlainSteps, LinesStep, ListStep
<1>3. CASE SignPanics \/ LinePanics \/ DefineFails \/ EndOfFile
  <2>1. stage' # "parsing"
    BY <1>3 DEF SignPanics, LinePanics, DefineFails, EndOfFile
  <2> QED
    BY <2>1, Zenon DEF StatementsInv
<1>4. CASE UNCHANGED allVars
  BY <1>4, Zenon DEF allVars, parseVars, names, nesting, expecting, PlainInv, StatementsInv,
                     Expecting, LinesTaken, ListInv, Placed, Plain
<1> QED
  BY <1>1, <1>2, <1>3, <1>4, NextSteps

LEMMA ParsesStep ==
  ASSUME TypeInv, CandidatesInv, PlainInv, [Next]_allVars
  PROVE  PlainParses'
<1>1. CASE DefineFails
  <2>1. /\ stage = "parsing" /\ at <= Len(source.tokens) /\ source' = source /\ funcs' = funcs
        /\ Tok.tok = ":=" /\ ~Typed
    BY <1>1, Zenon DEF DefineFails, types
  <2>2. at \in 1 .. Size(source) /\ TokOf(source, at) = ":="
    BY <2>1, TextTyped DEF Size, TokOf, Tok
  <2>3. SUFFICES ASSUME Plain(source)
                 PROVE  \E i \in 1 .. Size(source) : TokOf(source, i) = ":=" /\ ~Fits(source, i)
    <3>1. DOMAIN source.tokens = 1 .. Size(source)
      BY TextTyped
    <3>2. Plain(source)' <=> Plain(source)
      BY <2>1
    <3>3. \A i : Fits(source, i)' <=> Fits(source, i)
      BY <2>1, SameFits
    <3> QED
      BY <2>1, <2>3, <3>1, <3>2, <3>3 DEF PlainParses, TokOf
  <2>4. LinesTaken /\ ListInv /\ FuncsText
    BY <2>1, <2>3, Zenon DEF PlainInv, StatementsInv
  <2>5. ~Fits(source, at)
    BY <2>1, <2>2, <2>3, <2>4, FittingDefine, Zenon
  <2> QED
    BY <2>2, <2>5
<1>2. CASE \/ StartKernel \/ NewBlock \/ Scanned \/ SignPanics \/ LinePanics \/ EndOfFile
              \/ RunPlugin \/ Drop
  <2>1. stage' # "failed"
    <3>1. CASE Scanned
      BY <3>1, ScanStep
    <3>2. CASE StartKernel \/ NewBlock \/ RunPlugin \/ Drop
      BY <3>2, FreshSteps
    <3>3. CASE SignPanics \/ LinePanics \/ EndOfFile
      BY <3>3, Zenon DEF SignPanics, LinePanics, EndOfFile
    <3> QED
      BY <1>2, <3>1, <3>2, <3>3
  <2> QED
    BY <2>1, Zenon DEF PlainParses
<1>3. CASE UNCHANGED allVars
  <2>1. source' = source /\ funcs' = funcs /\ stage' = stage
    BY <1>3, Zenon DEF allVars, types
  <2>2. Plain(source)' <=> Plain(source)
    BY <2>1
  <2>3. \A i : Fits(source, i)' <=> Fits(source, i)
    BY <2>1, SameFits
  <2> QED
    BY <2>1, <2>2, <2>3 DEF PlainInv, PlainParses
<1> QED
  BY <1>1, <1>2, <1>3, NextSteps

\* The name v is declared again by a := after i, up to b.
Again(i, v, b) ==
    \E j \in (i + 1) .. b : TokOf(source, j) = ":=" /\ Contains(Declared(source, j), v)

\* What is recorded for a type that is named as in Go is the type.
LEMMA RecordedInGo ==
  ASSUME NEW type, NamedInGo(type)
  PROVE  TypeText(type) = GoType(type)
<1>1. CASE type.form = "literal"
  <2>1. LowerKind(type.of) = GoLiteral(type.of)
    <3>1. type.of \notin {"FLOAT", "IMAG", "CHAR"}
      BY <1>1 DEF NamedInGo
    <3> QED
      BY <3>1, Zenon DEF LowerKind, GoLiteral
  <2>2. TypeText(type) = <<LowerKind(type.of)>> /\ GoType(type) = <<GoLiteral(type.of)>>
    BY <1>1, Zenon DEF TypeText, GoType
  <2> QED
    BY <2>1, <2>2, Zenon
<1>2. CASE type.form # "literal"
  BY <1>2, Zenon DEF GoType
<1> QED
  BY <1>1, <1>2

\* The type of an expression is recorded for a name, if it is named as in Go.
Right(map, v, type) == NamedInGo(type) => map[v] = GoType(type)

\* The k-th name of the := at i has its type, or a later declaration has given it another.
Recorded(i, k) ==
    LET declared == Declared(source, i)
    IN  /\ declared[k] \in DOMAIN vars
        /\ \/ Right(vars, declared[k], Expected(source, i)[k])
           \/ \E l \in (k + 1) .. Len(declared) : declared[l] = declared[k]
           \/ Again(i, declared[k], at - 1)

AllRecorded ==
    \A i \in 1 .. (at - 1) : Fits(source, i) =>
        \A k \in DOMAIN Declared(source, i) : Recorded(i, k)

RecordedInv ==
    /\ stage \in {"parsing", "parsed"} /\ Plain(source) => AllRecorded
    /\ stage = "parsed" => at = Size(source) + 1

\* A := gives each name the type at its last place.
LEMMA LastType ==
  ASSUME NEW k \in DOMAIN pendingCandidates, DOMAIN pendingCandidates \subseteq Int,
         \A l \in DOMAIN pendingCandidates :
            l > k => NameIn(pendingCandidates, l) # NameIn(pendingCandidates, k)
  PROVE  CandidateType(NameIn(pendingCandidates, k)) = TypeText(LineTypes[k])
<1> DEFINE v == NameIn(pendingCandidates, k)
           IsLast(i) == /\ NameIn(pendingCandidates, i) = v
                        /\ \A j \in DOMAIN pendingCandidates :
                            NameIn(pendingCandidates, j) = v => j <= i
<1>1. IsLast(k)
  <2>1. ASSUME NEW j \in DOMAIN pendingCandidates, NameIn(pendingCandidates, j) = v
        PROVE  j <= k
    BY <2>1
  <2> QED
    BY <2>1
<1>2. ASSUME NEW i \in DOMAIN pendingCandidates, IsLast(i) PROVE i = k
  BY <1>1, <1>2
<1>3. CandidateType(v) = TypeText(LineTypes[CHOOSE i \in DOMAIN pendingCandidates : IsLast(i)])
  BY Zenon DEF CandidateType, NameIn
<1>4. (CHOOSE i \in DOMAIN pendingCandidates : IsLast(i)) = k
  BY <1>1, <1>2, Zenon
<1> QED
  BY <1>3, <1>4, Zenon

LEMMA RecordedDefine ==
  ASSUME TypeInv, CandidatesInv, FuncsText, Plain(source), Expecting, LinesTaken, ListInv,
         Define, stage = "parsing", source' = source, at \in 1 .. Size(source),
         AllRecorded, NEW i \in 1 .. at, Fits(source, i), NEW k \in DOMAIN Declared(source, i)
  PROVE  LET declared == Declared(source, i)
         IN  /\ declared[k] \in DOMAIN vars'
             /\ \/ Right(vars', declared[k], Expected(source, i)[k])
                \/ \E l \in (k + 1) .. Len(declared) : declared[l] = declared[k]
                \/ Again(i, declared[k], at)
<1> DEFINE declared == Declared(source, i)
           v == declared[k]
           p == pendingCandidates
<1>1. TokOf(source, at) = ":=" /\ at \in Nat
  BY TextTyped, Zenon DEF Define, Scan, Tok, TokOf
<1>2. /\ DOMAIN vars' = DOMAIN vars \cup Candidates
      /\ \A n \in Candidates : vars'[n] = CandidateType(n)
      /\ \A n \in DOMAIN vars : n \notin Candidates => vars'[n] = vars[n]
  <2>1. vars' = [n \in DOMAIN vars \cup Candidates |->
                    IF n \in Candidates THEN CandidateType(n) ELSE vars[n]]
    BY Zenon DEF Define
  <2> QED
    BY <2>1
<1>3. /\ Len(p) \in Nat /\ DOMAIN p = 1 .. Len(p)
      /\ DOMAIN Declared(source, at) = 1 .. Len(p) /\ Len(Declared(source, at)) = Len(p)
      /\ \A c \in 1 .. Len(p) : NameIn(p, c) = Declared(source, at)[c]
  BY <1>1, AtDefine
<1>4. CASE i # at
  <2>1. i \in 1 .. (at - 1) /\ at \in (i + 1) .. at
    BY <1>1, <1>4
  <2>2. Recorded(i, k)
    BY <2>1, Zenon DEF AllRecorded
  <2>3. v \in DOMAIN vars'
    BY <1>2, <2>2, Zenon DEF Recorded
  <2>4. CASE v \in Candidates
    <3>1. PICK c \in 1 .. Len(p) : v = NameIn(p, c)
      BY <1>3, <2>4, Zenon DEF Candidates, NameIn
    <3>2. Contains(Declared(source, at), v)
      BY <1>3, <3>1, Zenon DEF Contains
    <3>3. Again(i, v, at)
      BY <1>1, <2>1, <3>2, Zenon DEF Again
    <3> QED
      BY <2>3, <3>3, Zenon
  <2>5. CASE v \notin Candidates
    <3>1. vars'[v] = vars[v]
      BY <1>2, <2>2, <2>5, Zenon DEF Recorded
    <3>2. Again(i, v, at - 1) => Again(i, v, at)
      <4>1. \A j \in (i + 1) .. (at - 1) : j \in (i + 1) .. at
        BY <1>1
      <4> QED
        BY <4>1, Zenon DEF Again
    <3>3. Right(vars, v, Expected(source, i)[k]) => Right(vars', v, Expected(source, i)[k])
      BY <3>1, Zenon DEF Right
    <3> QED
      BY <2>2, <2>3, <3>2, <3>3, Zenon DEF Recorded
  <2> QED
    BY <2>4, <2>5
<1>5. CASE i = at
  <2>1. k \in 1 .. Len(p) /\ v = NameIn(p, k) /\ Len(declared) = Len(p) /\ k \in Int
    BY <1>3, <1>5
  <2>2. v \in Candidates
    BY <1>3, <2>1, Zenon DEF Candidates, NameIn
  <2>3. LineTypes = Expected(source, i)
    BY <1>1, <1>5, FittingDefine
  <2>4. CASE \E l \in (k + 1) .. Len(declared) : declared[l] = v
    BY <1>2, <2>2, <2>4, Zenon
  <2>5. CASE ~\E l \in (k + 1) .. Len(declared) : declared[l] = v
    <3>1. ASSUME NEW l \in DOMAIN p, l > k PROVE NameIn(p, l) # NameIn(p, k)
      <4>1. l \in (k + 1) .. Len(declared) /\ NameIn(p, l) = declared[l]
        BY <1>3, <1>5, <2>1, <3>1
      <4> QED
        BY <2>1, <2>5, <4>1, Zenon
    <3>2. DOMAIN p \subseteq Int /\ k \in DOMAIN p
      BY <1>3, <2>1
    <3>3. CandidateType(v) = TypeText(Expected(source, i)[k])
      BY <2>1, <2>3, <3>1, <3>2, LastType, Zenon
    <3>4. Right(vars', v, Expected(source, i)[k])
      BY <1>2, <2>2, <3>3, RecordedInGo, Zenon DEF Right
    <3> QED
      BY <1>2, <2>2, <3>4, Zenon
  <2> QED
    BY <2>4, <2>5
<1> QED
  BY <1>4, <1>5

\* What the next state has recorded, said of a text and of types of functions that stay.
LEMMA RecordedNext ==
  ASSUME source' = source, funcs' = funcs, NEW b, at' - 1 = b,
         \A i \in 1 .. b : Fits(source, i) => \A k \in DOMAIN Declared(source, i) :
            LET declared == Declared(source, i)
            IN  /\ declared[k] \in DOMAIN vars'
                /\ \/ Right(vars', declared[k], Expected(source, i)[k])
                   \/ \E l \in (k + 1) .. Len(declared) : declared[l] = declared[k]
                   \/ Again(i, declared[k], b)
  PROVE  AllRecorded'
<1>1. SUFFICES ASSUME NEW i \in 1 .. b, Fits(source, i)', NEW k \in DOMAIN Declared(source, i)
               PROVE  Recorded(i, k)'
  BY Zenon DEF AllRecorded
<1>2. Expected(source, i)' = Expected(source, i) /\ Fits(source, i)
  BY <1>1, SameFits, Zenon
<1> DEFINE v == Declared(source, i)[k]
<1>3. /\ v \in DOMAIN vars'
      /\ \/ Right(vars', v, Expected(source, i)'[k])
         \/ \E l \in (k + 1) .. Len(Declared(source, i)) : Declared(source, i)[l] = v
         \/ Again(i, v, b)
  BY <1>1, <1>2, Zenon
<1>4. Declared(source', i) = Declared(source, i)
  OBVIOUS
<1>5. Again(i, v, b) => \E j \in (i + 1) .. (at' - 1) : /\ TokOf(source', j) = ":="
                                                        /\ Contains(Declared(source', j), v)
  BY DEF Again
<1> QED
  BY <1>3, <1>4, <1>5, Zenon DEF Recorded, Again

LEMMA RecordedStays ==
  ASSUME source' = source, funcs' = funcs, vars' = vars, at' = at, AllRecorded
  PROVE  AllRecorded'
<1> PICK b : b = at - 1
  OBVIOUS
<1>1. at' - 1 = b
  OBVIOUS
<1>2. \A i \in 1 .. b : Fits(source, i) =>
        \A k \in DOMAIN Declared(source, i) : Recorded(i, k)
  BY Zenon DEF AllRecorded
<1> QED
  BY <1>1, <1>2, RecordedNext, Zenon DEF Recorded

LEMMA RecordedScan ==
  ASSUME TypeInv, CandidatesInv, FuncsText, Plain(source), Expecting, LinesTaken, ListInv,
         AllRecorded, Scanned
  PROVE  AllRecorded'
<1>1. /\ stage = "parsing" /\ source' = source /\ at \in Nat
      /\ at \in 1 .. Size(source) /\ at' = at + 1 /\ at' - 1 = at
  BY ScanStep
<1> PICK b : b = at
  OBVIOUS
<1>2. funcs' = funcs /\ (Define \/ (vars' = vars /\ TokOf(source, at) # ":="))
  BY PlainSteps, Zenon
<1>3. SUFFICES ASSUME NEW i \in 1 .. b, Fits(source, i), NEW k \in DOMAIN Declared(source, i)
               PROVE  LET declared == Declared(source, i)
                      IN  /\ declared[k] \in DOMAIN vars'
                          /\ \/ Right(vars', declared[k], Expected(source, i)[k])
                             \/ \E l \in (k + 1) .. Len(declared) : declared[l] = declared[k]
                             \/ Again(i, declared[k], b)
  BY <1>1, <1>2, RecordedNext, Zenon
<1>4. CASE Define
  BY <1>1, <1>3, <1>4, RecordedDefine, Zenon
<1>5. CASE vars' = vars /\ TokOf(source, at) # ":="
  <2>1. i # at
    BY <1>3, <1>5, Zenon DEF Fits, TokOf
  <2>2. i \in 1 .. (at - 1) /\ \A j \in (i + 1) .. (at - 1) : j \in (i + 1) .. at
    BY <1>1, <2>1
  <2>3. Recorded(i, k)
    BY <1>3, <2>2, Zenon DEF AllRecorded
  <2>4. \A v : Again(i, v, at - 1) => Again(i, v, b)
    BY <2>2, Zenon DEF Again
  <2> QED
    BY <1>5, <2>3, <2>4, Zenon DEF Recorded
<1> QED
  BY <1>2, <1>4, <1>5

LEMMA RecordedStep ==
  ASSUME TypeInv, CandidatesInv, PlainInv, RecordedInv, [Next]_allVars
  PROVE  RecordedInv'
<1>1. CASE StartKernel \/ NewBlock \/ RunPlugin \/ Drop
  <2>1. stage' # "parsed" /\ 1 .. (at' - 1) = {}
    BY <1>1, FreshSteps
  <2> QED
    BY <2>1, Zenon DEF RecordedInv, AllRecorded
<1>2. CASE Scanned
  <2>1. stage = "parsing" /\ stage' = "parsing" /\ source' = source
    BY <1>2, ScanStep
  <2>2. Plain(source)' <=> Plain(source)
    BY <2>1
  <2>3. ASSUME Plain(source) PROVE AllRecorded'
    <3>1. Expecting /\ LinesTaken /\ ListInv /\ FuncsText /\ AllRecorded
      BY <2>1, <2>3, Zenon DEF PlainInv, StatementsInv, RecordedInv
    <3> QED
      BY <1>2, <2>3, <3>1, RecordedScan, Zenon
  <2> QED
    BY <2>1, <2>2, <2>3, Zenon DEF RecordedInv
<1>3. CASE EndOfFile \/ UNCHANGED allVars
  <2>1. UNCHANGED <<source, at, funcs, vars>>
    BY <1>3, Zenon DEF EndOfFile, types, allVars, parseVars
  <2>2. stage' \in {"parsing", "parsed"} => stage \in {"parsing", "parsed"}
    BY <1>3, Zenon DEF EndOfFile, allVars
  <2>3. Plain(source)' <=> Plain(source)
    BY <2>1
  <2>4. stage' = "parsed" => at' = Size(source') + 1
    <3>1. CASE EndOfFile
      BY <2>1, <3>1, TextTyped DEF EndOfFile, Size
    <3>2. CASE UNCHANGED allVars
      BY <2>1, <3>2, Zenon DEF allVars, RecordedInv
    <3> QED
      BY <1>3, <3>1, <3>2
  <2>5. ASSUME AllRecorded PROVE AllRecorded'
    BY <2>1, <2>5, RecordedStays, Zenon
  <2> QED
    BY <2>2, <2>3, <2>4, <2>5, Zenon DEF RecordedInv
<1>4. CASE SignPanics \/ LinePanics \/ DefineFails
  <2>1. stage' \in {"panicked", "failed"}
    BY <1>4, Zenon DEF SignPanics, LinePanics, DefineFails
  <2>2. stage' \notin {"parsing", "parsed"}
    BY <2>1
  <2> QED
    BY <2>2, Zenon DEF RecordedInv
<1> QED
  BY <1>1, <1>2, <1>3, <1>4, NextSteps

LEMMA Stated == Spec => [](PlainInv /\ RecordedInv)
<1>1. Init => PlainInv /\ RecordedInv
  <2>1. SUFFICES ASSUME Init PROVE PlainInv /\ RecordedInv
    OBVIOUS
  <2>2. stage = "idle" /\ DOMAIN funcs = {}
    BY <2>1 DEF Init, NoMap
  <2>3. FuncsText
    BY <2>2 DEF FuncsText
  <2>4. stage \notin {"parsing", "parsed", "failed"}
    BY <2>2
  <2> QED
    BY <2>3, <2>4, Zenon DEF PlainInv, StatementsInv, PlainParses, RecordedInv
<1>2. IInv /\ CodeInv /\ PlainInv /\ RecordedInv /\ [Next]_allVars => (PlainInv /\ RecordedInv)'
  <2>1. SUFFICES ASSUME TypeInv, CandidatesInv, PlainInv, RecordedInv, [Next]_allVars
                 PROVE  PlainInv' /\ RecordedInv'
    BY Zenon DEF IInv, CodeInv
  <2>2. FuncsText /\ (FuncsText' => PlainInv')
    BY <2>1, StatementsStep, ParsesStep, Zenon DEF PlainInv
  <2> QED
    BY <2>1, <2>2, FuncsStep, RecordedStep, Zenon
<1> QED
  BY <1>1, <1>2, Inductive, Coded, PTL DEF Spec

\* Parse accepts each block of statements whose expressions it knows the types of.
THEOREM Accepting == Spec => []PlainParses
<1>1. PlainInv => PlainParses
  BY Zenon DEF PlainInv
<1> QED
  BY <1>1, Stated, PTL

\* A name has the type of its own expression, in the last statement that declares it.
THEOREM Recording == Spec => []TypesRecorded
<1>1. IInv /\ RecordedInv => TypesRecorded
  <2>1. SUFFICES ASSUME TypeInv, RecordedInv, stage = "parsed", Plain(source),
                        NEW i \in DOMAIN source.tokens, Fits(source, i),
                        NEW k \in DOMAIN Declared(source, i)
                 PROVE  LET declared == Declared(source, i)
                        IN  \/ NamedInGo(Expected(source, i)[k]) =>
                                vars[declared[k]] = GoType(Expected(source, i)[k])
                            \/ \E l \in (k + 1) .. Len(declared) : declared[l] = declared[k]
                            \/ \E j \in (i + 1) .. Len(source.tokens) :
                                  /\ source.tokens[j].tok = ":="
                                  /\ Contains(Declared(source, j), declared[k])
    BY Zenon DEF IInv, TypesRecorded
  <2>2. AllRecorded /\ at = Size(source) + 1
    BY <2>1, Zenon DEF RecordedInv
  <2>3. i \in 1 .. (at - 1) /\ at - 1 = Len(source.tokens)
    BY <2>1, <2>2, TextTyped DEF Size
  <2>4. Recorded(i, k)
    BY <2>1, <2>2, <2>3, Zenon DEF AllRecorded
  <2> QED
    BY <2>3, <2>4, Zenon DEF Recorded, Right, Again, TokOf
<1> QED
  BY <1>1, Inductive, Stated, PTL

-----------------------------------------------------------------------------
(* The variables that plugins look up. *)

\* A variable that is recorded is in the kernel with that type, or it is the block's own,
\* or the last block that had it came to nothing or does not show its type.
VarsAccounted ==
    \A v \in DOMAIN vars :
        v \in defined \/ FoundVar(v) \/ <<"var", v>> \in lost \cup unspelt

\* A := of statements declares some names.
LEMMA DeclaredNames ==
  ASSUME TypeInv, Plain(source), NEW i \in 1 .. Size(source), TokOf(source, i) = ":="
  PROVE  /\ DOMAIN Declared(source, i) = 1 .. Len(Declared(source, i))
         /\ DOMAIN Declared(source, i) \subseteq DOMAIN source.tokens
         /\ DOMAIN Declared(source, i) \subseteq Int
<1> DEFINE n == CHOOSE n \in 1 .. i : IsList(source, i, n)
<1>1. n \in 1 .. i
  <2>1. \E m \in 1 .. i : Statement(source, i, m)
    BY PlainText
  <2> QED
    BY <2>1, Zenon DEF Statement
<1>2. Declared(source, i) = [k \in 1 .. n |-> LitOf(source, i - 1 - 2 * (n - k))]
  BY Zenon DEF Declared, LitOf
<1> HIDE DEF n
<1>3. Size(source) \in Nat /\ DOMAIN source.tokens = 1 .. Size(source) /\ n \in Nat
  BY <1>1, TextTyped
<1>4. DOMAIN Declared(source, i) = 1 .. n /\ Len(Declared(source, i)) = n
  BY <1>2, <1>3
<1> QED
  BY <1>1, <1>3, <1>4

\* What the text shows of a variable is what Parse has recorded.
LEMMA SpeltRecorded ==
  ASSUME TypeInv, RecordedInv, stage = "parsed", NEW v,
         SpeltVar(source, v), NamedInGo(VarType(source, v))
  PROVE  vars[v] = GoType(VarType(source, v))
<1>1. PICK p \in Places(source, v) : Places(source, v) = {p} /\ Fits(source, p[1])
  BY Zenon DEF SpeltVar
<1>2. Plain(source) /\ VarType(source, v) = Expected(source, p[1])[p[2]]
  BY <1>1, Zenon DEF SpeltVar, VarType
<1> PICK i, k : i = p[1] /\ k = p[2]
  OBVIOUS
<1>3. /\ p \in (DOMAIN source.tokens) \X (DOMAIN source.tokens)
      /\ TokOf(source, i) = ":=" /\ k \in DOMAIN Declared(source, i)
      /\ Declared(source, i)[k] = v /\ Fits(source, i)
  BY <1>1, Zenon DEF Places, TokOf
<1>4. /\ Size(source) \in Nat /\ DOMAIN source.tokens = 1 .. Size(source)
      /\ i \in 1 .. Size(source) /\ p = <<i, k>>
  BY <1>3, TextTyped
<1>5. ASSUME NEW j \in 1 .. Size(source), TokOf(source, j) = ":=",
             NEW l \in DOMAIN Declared(source, j), Declared(source, j)[l] = v
      PROVE  j = i /\ l = k
  <2>1. l \in DOMAIN source.tokens /\ j \in DOMAIN source.tokens
    BY <1>2, <1>4, <1>5, DeclaredNames
  <2>2. <<j, l>> \in Places(source, v)
    BY <1>5, <2>1, Zenon DEF Places, TokOf
  <2>3. <<j, l>> = <<i, k>>
    BY <1>1, <1>4, <2>2, Zenon
  <2> QED
    BY <2>3
<1>6. i \in 1 .. (at - 1) /\ at - 1 = Size(source) /\ i \in Int
  BY <1>4 DEF RecordedInv
<1>7. Recorded(i, k)
  BY <1>2, <1>3, <1>6, Zenon DEF RecordedInv, AllRecorded
<1>8. ~\E l \in (k + 1) .. Len(Declared(source, i)) : Declared(source, i)[l] = v
  <2>1. SUFFICES ASSUME NEW l \in (k + 1) .. Len(Declared(source, i)), Declared(source, i)[l] = v
                 PROVE  FALSE
    OBVIOUS
  <2>2. /\ DOMAIN Declared(source, i) = 1 .. Len(Declared(source, i)) /\ k \in Int
        /\ k \in 1 .. Len(Declared(source, i))
    BY <1>2, <1>3, <1>4, DeclaredNames
  <2>3. l \in 1 .. Len(Declared(source, i)) /\ l # k
    BY <2>1, <2>2
  <2> QED
    BY <1>3, <1>4, <1>5, <2>1, <2>2, <2>3, Zenon
<1>9. ~Again(i, v, at - 1)
  <2>1. SUFFICES ASSUME NEW j \in (i + 1) .. (at - 1), TokOf(source, j) = ":=",
                        Contains(Declared(source, j), v)
                 PROVE  FALSE
    BY Zenon DEF Again
  <2>2. j \in 1 .. Size(source) /\ j # i
    BY <1>4, <1>6, <2>1
  <2>3. DOMAIN Declared(source, j) = 1 .. Len(Declared(source, j))
    BY <1>2, <2>1, <2>2, DeclaredNames, Zenon
  <2>4. PICK l \in DOMAIN Declared(source, j) : Declared(source, j)[l] = v
    BY <2>1, <2>3, Zenon DEF Contains
  <2> QED
    BY <1>5, <2>1, <2>2, <2>4, Zenon
<1> QED
  BY <1>2, <1>3, <1>7, <1>8, <1>9, Zenon DEF Recorded, Right

LEMMA AccountedRun ==
  ASSUME TypeInv, RecordedInv, VarsAccounted, RunPlugin
  PROVE  VarsAccounted'
<1>1. /\ stage = "parsed" /\ vars' = vars /\ Stores
      /\ lost' = lost \ Own /\ unspelt' = (unspelt \ Own) \cup (Own \ Spelt)
  BY Zenon DEF RunPlugin, Finish, types
<1>2. PICK stored : /\ \A v \in vnames : stored[v] \in StoredVar(v)
                    /\ varMap' = [v \in DOMAIN varMap \cup vnames |->
                                    IF v \in vnames THEN stored[v] ELSE varMap[v]]
  BY <1>1, Zenon DEF Stores
<1>3. SUFFICES ASSUME NEW v \in DOMAIN vars
               PROVE  (v \in DOMAIN varMap' /\ varMap'[v] = vars[v])
                        \/ <<"var", v>> \in lost' \cup unspelt'
  BY <1>1, Zenon DEF VarsAccounted, FoundVar
<1>4. \A w : <<"var", w>> \in Own <=> w \in vnames
  BY Zenon DEF Own
<1>5. CASE v \notin vnames
  <2>1. v \notin defined /\ <<"var", v>> \notin Own
    BY <1>4, <1>5 DEF TypeInv, TypeOK
  <2>2. CASE FoundVar(v)
    BY <1>2, <1>5, <2>2 DEF FoundVar
  <2>3. CASE <<"var", v>> \in lost \cup unspelt
    BY <1>1, <2>1, <2>3
  <2> QED
    BY <2>1, <2>2, <2>3 DEF VarsAccounted
<1>6. CASE v \in vnames /\ <<"var", v>> \notin Spelt
  BY <1>1, <1>4, <1>6
<1>7. CASE v \in vnames /\ <<"var", v>> \in Spelt
  <2>1. SpeltVar(source, v) /\ NamedInGo(VarType(source, v))
    BY <1>7, Zenon DEF Spelt
  <2>2. vars[v] = GoType(VarType(source, v))
    BY <1>1, <2>1, SpeltRecorded
  <2>3. stored[v] = GoType(VarType(source, v))
    BY <1>2, <1>7, <2>1, Zenon DEF StoredVar
  <2>4. v \in DOMAIN varMap' /\ varMap'[v] = stored[v]
    BY <1>2, <1>7
  <2> QED
    BY <2>2, <2>3, <2>4
<1> QED
  BY <1>5, <1>6, <1>7

LEMMA AccountedStep ==
  ASSUME TypeInv, RecordedInv, VarsAccounted, [Next]_allVars
  PROVE  VarsAccounted'
<1>1. CASE StartKernel
  <2>1. DOMAIN vars' = {}
    BY <1>1 DEF StartKernel, NoMap
  <2> QED
    BY <2>1 DEF VarsAccounted
<1>2. CASE NewBlock
  <2>1. UNCHANGED <<vars, varMap, lost, unspelt>>
    BY <1>2, Zenon DEF NewBlock, types, kernel
  <2>2. defined = {}
    BY <1>2, Zenon DEF NewBlock, TypeInv, TypeOK
  <2> QED
    BY <2>1, <2>2 DEF VarsAccounted, FoundVar
<1>3. CASE Scanned
  <2>1. UNCHANGED <<varMap, lost, unspelt>>
    BY <1>3, ScannedSteps, Zenon DEF kernel
  <2>2. /\ \A v \in DOMAIN vars' : v \in defined' \/ (v \in DOMAIN vars /\ vars'[v] = vars[v])
        /\ defined \subseteq defined'
    BY <1>3, NamesStep
  <2> QED
    BY <2>1, <2>2 DEF VarsAccounted, FoundVar
<1>4. CASE SignPanics \/ LinePanics \/ DefineFails \/ EndOfFile \/ UNCHANGED allVars
  <2>1. UNCHANGED <<vars, varMap, lost, unspelt, defined>>
    BY <1>4, Zenon DEF SignPanics, LinePanics, DefineFails, EndOfFile, types, kernel, names,
                       parseVars, allVars
  <2> QED
    BY <2>1 DEF VarsAccounted, FoundVar
<1>5. CASE RunPlugin
  BY <1>5, AccountedRun
<1>6. CASE Drop
  <2>1. /\ UNCHANGED <<vars, varMap, unspelt>>
        /\ lost' = lost \cup ({"func"} \X ToSet(fnames)) \cup ({"var"} \X defined)
    BY <1>6, Zenon DEF Drop, Finish, types
  <2>2. \A v \in defined : <<"var", v>> \in lost'
    BY <2>1
  <2> QED
    BY <2>1, <2>2 DEF VarsAccounted, FoundVar
<1> QED
  BY <1>1, <1>2, <1>3, <1>4, <1>5, <1>6, NextSteps

\* A plugin finds each variable that it looks up, of the type that it asserts, if the last
\* block that stored it ran and shows its type.
THEOREM VarsFound == Spec => []VarsRebound
<1>1. Init => VarsAccounted
  BY DEF Init, NoMap, VarsAccounted
<1>2. IInv /\ RecordedInv /\ VarsAccounted /\ [Next]_allVars => VarsAccounted'
  BY AccountedStep, Zenon DEF IInv
<1>3. IInv /\ VarsAccounted => VarsRebound
  <2>1. SUFFICES ASSUME TypeInv, VarsAccounted, NEW v \in ReboundVars
                 PROVE  FoundVar(v) \/ <<"var", v>> \in lost \cup unspelt
    BY Zenon DEF IInv, VarsRebound
  <2>2. v \in DOMAIN vars /\ v \notin defined
    BY <2>1 DEF TypeInv, TypeOK, ReboundVars
  <2> QED
    BY <2>1, <2>2 DEF VarsAccounted
<1> QED
  BY <1>1, <1>2, <1>3, Inductive, Stated, PTL DEF Spec

=============================================================================
