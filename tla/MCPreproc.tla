----------------------------- MODULE MCPreproc -----------------------------
(***************************************************************************)
(* Instances of Preproc for TLC: blocks put together from lines of Go.     *)
(***************************************************************************)
EXTENDS Preproc

\* Tokens. The scanner puts a semicolon at the end of a line behind a name, a literal,
\* a ) and a }.
I(name) == [tok |-> "ident", lit |-> name]
K(t) == [tok |-> t, lit |-> t]
O(lit) == [tok |-> "other", lit |-> lit]

\* A line is its tokens, how many := are in its text, and the text behind the one; in no
\* token are a blank line, and one in the middle of a raw string.
Line(toks, tail) ==
    [toks |-> toks, tail |-> tail, blank |-> FALSE,
     defines |-> Cardinality({i \in DOMAIN toks : toks[i].tok = ":="})]
Blank == [Line(<<>>, <<>>) EXCEPT !.blank = TRUE]
InString == Line(<<>>, <<>>)

\* The lines of a block, and what the scanner takes for the line of each.
Numbered(lines, number) ==
    LET of(n) == [i \in DOMAIN lines[n].toks |->
                    [tok |-> lines[n].toks[i].tok, lit |-> lines[n].toks[i].lit,
                     line |-> number[n]]]
        written == {m \in DOMAIN lines : ~lines[m].blank}
    IN  [tokens |-> FlattenSeq([n \in DOMAIN lines |-> of(n)]),
         tails |-> [n \in written |-> lines[n].tail],
         defines |-> [n \in written |-> lines[n].defines],
         lines |-> Len(lines), directive |-> \E n \in DOMAIN lines : number[n] # n]
Content(lines) == Numbered(lines, [n \in DOMAIN lines |-> n])

\* //line b.go:n, and the lines behind it
Directed(n, lines) ==
    Numbered(<<Line(<<O("comment")>>, <<>>)>> \o lines,
             [m \in 1 .. (Len(lines) + 1) |-> IF m = 1 THEN 1 ELSE n + m - 2])

Value(form, of) == [form |-> form, of |-> of]
Call(f) == <<I(f), K("("), K(")"), K(";")>>

\* x := 1      x, y := 1, "s"      x, x := 1, "s"      x := f()      x, y := f()      x := y
Typed1(x, kind) == Line(<<I(x), K(":="), O(kind), K(";")>>, <<Value("literal", kind)>>)
Typed2(x, y) == Line(<<I(x), K(","), I(y), K(":="), O("1"), K(","), O("s"), K(";")>>,
                     <<Value("literal", "INT"), Value("literal", "STRING")>>)
Call1(x, f) == Line(<<I(x), K(":=")>> \o Call(f), <<Value("call", f)>>)
Call2(x, y, f) == Line(<<I(x), K(","), I(y), K(":=")>> \o Call(f), <<Value("call", f)>>)
Copy(x, y) == Line(<<I(x), K(":="), I(y), K(";")>>, <<Value("untyped", "")>>)

\* x := "a := b"
InText(x) == [Typed1(x, "STRING") EXCEPT !.defines = 2]

\* x, // := 1, "s"
Covert(x) == [Line(<<I(x), K(","), O("comment")>>,
                   <<Value("literal", "INT"), Value("literal", "STRING")>>) EXCEPT !.defines = 1]

\* x := T{}      x := &T{}      x := T{1,"s"}      x := p.F()
Struct(x, t) ==
    Line(<<I(x), K(":="), I(t), K("{"), K("}"), K(";")>>, <<Value("composite", t)>>)
Pointer(x, t) ==
    Line(<<I(x), K(":="), O("&"), I(t), K("{"), K("}"), K(";")>>, <<Value("pointer", t)>>)
StructOfTwo(x, t) ==
    Line(<<I(x), K(":="), I(t), K("{"), O("1"), K(","), O("s"), K("}"), K(";")>>,
         <<Value("garbage", ""), Value("garbage", "")>>)
Package(x, p, type) == Line(<<I(x), K(":="), I(p), O(".")>> \o Call("F"),
                            <<Value("packageCall", type)>>)

\* p.F(x)      var x string      return x      if true {      for {      }
\* type t struct {      x int
Use(p, x) == Line(<<I(p), O("."), I("F"), K("("), I(x), K(")"), K(";")>>, <<>>)
Variable(x, type) == Line(<<K("var"), I(x), I(type), K(";")>>, <<>>)
Return(x) == Line(<<O("return"), I(x), K(";")>>, <<>>)
If == Line(<<O("if"), I("true"), K("{")>>, <<>>)
For == Line(<<O("for"), K("{")>>, <<>>)
Close == Line(<<K("}"), K(";")>>, <<>>)
TypeStruct(t) == Line(<<K("type"), I(t), O("struct"), K("{")>>, <<>>)
Field(x, type) == Line(<<I(x), I(type), K(";")>>, <<>>)

\* func f() R {      func f(x int) {      func f() int { return 1 }      func (x t) f() {
\* func f(x interface{}) {
Fn(f, r) == Line(<<K("func"), I(f), K("("), K(")")>> \o r \o <<K("{")>>, <<>>)
FnOf(f, x, type) ==
    Line(<<K("func"), I(f), K("("), I(x), I(type), K(")"), K("{")>>, <<>>)
FnLine(f) == Line(<<K("func"), I(f), K("("), K(")"), I("int"), K("{"), O("return"),
                    O("1"), K(";"), K("}"), K(";")>>, <<>>)
Method(f) == Line(<<K("func"), K("("), I("x"), I("t"), K(")"), I(f), K("("), K(")"), K("{")>>,
                  <<>>)
FnOfAny(f, x) == Line(<<K("func"), I(f), K("("), I(x), O("interface"), K("{"), K("}"), K(")"),
                        K("{")>>, <<>>)

\* g := func() {      func f(x int
Closure(g) == Line(<<I(g), K(":="), K("func"), K("("), K(")"), K("{")>>,
                   <<Value("garbage", "")>>)
FnCut(f) == Line(<<K("func"), I(f), K("("), I("x"), I("int"), K(";")>>, <<>>)

OneInt == <<I("int")>>
Two == <<K("("), I("int"), K(","), I("string"), K(")")>>

x1 == Typed1("x", "INT")
Simple == {x1, Typed1("x", "STRING"), Typed1("x", "FLOAT"), Typed2("x", "y"), Typed2("x", "x"),
           InText("x"), Call1("x", "f"), Call2("x", "y", "f"), Copy("x", "y"), Use("fmt", "x"),
           Variable("x", "string"), Package("x", "fmt", "string")}

SessionSources ==
    {Content(<<a>>) : a \in Simple}
    \cup {Content(<<a, Use("rand", "x"), Blank, b>>) : a \in {x1, Copy("y", "x")},
                                                        b \in {Typed2("x", "y"), x1}}
    \cup {Content(<<Fn("f", r), a, Close>>) : r \in {<<>>, OneInt, Two}, a \in {Return("x"), x1}}
    \cup {Content(<<Fn("f", <<>>), loop, x1, Close, Use("fmt", "x"), Close>>) : loop \in {If, For}}
    \cup {Content(<<FnOf("f", "y", type), InString, Close>>) : type \in {"int", "error"}}
    \cup {Content(<<Fn("f", Two), Return("x"), Close, Call2("x", "y", "f")>>),
          Content(<<FnLine("f"), Call1("y", "f")>>),
          Content(<<Method("f"), Close>>), Content(<<FnLine("f"), Method("g"), Close>>),
          Content(<<TypeStruct("t"), Field("x", "int"), Close, Struct("y", "t")>>),
          Content(<<Pointer("y", "t")>>), Content(<<StructOfTwo("x", "t")>>),
          Content(<<Fn("f", <<>>), Covert("x"), Typed1("y", "INT"), Close>>),
          Content(<<FnCut("f")>>), Content(<<Closure("y"), Close>>),
          Content(<<FnOfAny("f", "y"), Return("y"), Close>>),
          Directed(1, <<x1>>), Directed(5, <<x1>>), Directed(5, <<Use("fmt", "x")>>)}

\* The types that a value has if its block does not show them.
KernelGoTypes == {<<"int">>, <<"func", "(", "error", ")">>}

\* The contents of the tests TestFunc and TestStruct.
TestSources == {
    Content(<<Fn("abc", Two), Line(<<O("return"), O("2"), K(","), O("3"), K(";")>>, <<>>),
              Close, Call2("a", "b", "abc")>>),
    Content(<<TypeStruct("AAA"), Field("a", "int"), Field("b", "string"), Close,
              StructOfTwo("a", "AAA")>>),
    Content(<<Use("fmt", "a")>>)}

\* A function with a closure in its body, and a statement behind it.
ClosureSources == {
    Content(<<Fn("f", <<>>), Line(<<O("go"), K("func"), K("("), K(")"), K("{")>>, <<>>),
              Use("fmt", "x"), Line(<<K("}"), K("("), K(")"), K(";")>>, <<>>),
              Use("fmt", "y"), Close>>)}

\* The blocks of the tests parse (preproc_test.go:157-158, 193-194).
TestsParse == stage # "failed"

=============================================================================
