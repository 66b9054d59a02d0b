----------------------------- MODULE MCGrammars -----------------------------
(***************************************************************************)
(* Constructors for small ABNF ASTs, and the grammars of the pruning runs. *)
(***************************************************************************)
EXTENDS AbnfCompile, TLC

Nd(kind, name, children) == [kind |-> kind, name |-> name, children |-> children]
Lit(vals)       == Nd("terminal", [form |-> "quoted", vals |-> vals], << >>)
Num(form, vals) == Nd("terminal", [form |-> form, vals |-> vals], << >>)
RepName(left, star, right) == [left |-> left, star |-> star, right |-> right]
Ref(name)       == Nd("reference", name, << >>)
Rule(name, body) == Nd("rule", name, <<body>>)
Seqn(children)  == Nd("sequence", "sequence", children)
Altn(children)  == Nd("alternation", "alternation", children)
Opt(child)      == Nd("optional", "optional", <<child>>)
Group(child)    == Nd("group", "group", <<child>>)

a == 97   b == 98   A == 65

\* URI  = [ user "@" ] host     user = 1*pct     pct = "a"     host = "b" / "ab"
\* (userinfo in its authority, the example of docs/overrides.md)
AuthorityAst ==
    [root |-> "URI", rules |-> <<"URI", "user", "pct", "host">>,
     nodes |-> ("URI" :> Rule("URI", "u")) @@ ("u" :> Seqn(<<"o", "h">>))
            @@ ("o" :> Opt("q")) @@ ("q" :> Seqn(<<"ru", "at">>))
            @@ ("ru" :> Ref("user")) @@ ("at" :> Lit(<<64>>)) @@ ("h" :> Ref("host"))
            @@ ("user" :> Rule("user", "us"))
            @@ ("us" :> Nd("repetition", RepName(1, TRUE, Blank), <<"p">>))
            @@ ("p" :> Ref("pct"))
            @@ ("pct" :> Rule("pct", "pt")) @@ ("pt" :> Lit(<<a>>))
            @@ ("host" :> Rule("host", "hs")) @@ ("hs" :> Altn(<<"h1", "h2">>))
            @@ ("h1" :> Lit(<<b>>)) @@ ("h2" :> Lit(<<a, b>>))]

\* URI = "a" ( "a" / "b" ) [ at ]     at = "@"
ChoiceAst ==
    [root |-> "URI", rules |-> <<"URI", "at">>,
     nodes |-> ("URI" :> Rule("URI", "u")) @@ ("u" :> Seqn(<<"x", "g", "o">>))
            @@ ("x" :> Lit(<<a>>)) @@ ("g" :> Group("c")) @@ ("c" :> Altn(<<"c1", "c2">>))
            @@ ("c1" :> Lit(<<a>>)) @@ ("c2" :> Lit(<<b>>))
            @@ ("o" :> Opt("r")) @@ ("r" :> Ref("at"))
            @@ ("at" :> Rule("at", "t")) @@ ("t" :> Lit(<<64>>))]

\* URI = one / many     one = "a"     many = 1*"a"     (an ambiguous grammar)
AmbiguousAst ==
    [root |-> "URI", rules |-> <<"URI", "one", "many">>,
     nodes |-> ("URI" :> Rule("URI", "u")) @@ ("u" :> Altn(<<"r1", "r2">>))
            @@ ("r1" :> Ref("one")) @@ ("r2" :> Ref("many"))
            @@ ("one" :> Rule("one", "t1")) @@ ("t1" :> Lit(<<a>>))
            @@ ("many" :> Rule("many", "m"))
            @@ ("m" :> Nd("repetition", RepName(1, TRUE, Blank), <<"t2">>))
            @@ ("t2" :> Lit(<<a>>))]

\* URI = "a" / *"b" / "@" tail more     tail = "b"     more = "a"
\* (a branch that describes the empty input, and one with a literal beside two rules)
BranchesAst ==
    [root |-> "URI", rules |-> <<"URI", "tail", "more">>,
     nodes |-> ("URI" :> Rule("URI", "u")) @@ ("u" :> Altn(<<"x", "m", "s">>))
            @@ ("x" :> Lit(<<a>>))
            @@ ("m" :> Nd("repetition", RepName(0, TRUE, Blank), <<"y">>)) @@ ("y" :> Lit(<<b>>))
            @@ ("s" :> Seqn(<<"at", "rt", "rm">>)) @@ ("at" :> Lit(<<64>>))
            @@ ("rt" :> Ref("tail")) @@ ("rm" :> Ref("more"))
            @@ ("tail" :> Rule("tail", "tb")) @@ ("tb" :> Lit(<<b>>))
            @@ ("more" :> Rule("more", "ma")) @@ ("ma" :> Lit(<<a>>))]

\* Cert  ::= SEQUENCE { ver [0] EXPLICIT Int DEFAULT 0, names SEQUENCE OF Name,
\*                      key CHOICE { rsa OCTET STRING, ec Point }, ext SET OF UTF8String OPTIONAL }
\* Int   ::= INTEGER    Name ::= UTF8String    Point ::= BIT STRING
Field(name, type) == Nd("named-type", <<name>>, <<type>>)
Leaf(kind, name)  == Nd(kind, name, << >>)
CertAst ==
    [root |-> "Cert", rules |-> <<"Cert", "Int", "Name", "Point">>,
     nodes |-> ("Cert" :> Rule(<<"Cert">>, "cs"))
            @@ ("cs" :> Nd("sequence", <<"SEQUENCE">>, <<"ver", "names", "key", "ext">>))
            @@ ("ver" :> Field("ver", "vo")) @@ ("vo" :> Nd("optional", <<"DEFAULT">>, <<"vt">>))
            @@ ("vt" :> Nd("tag", <<"[", "0", "]", "EXPLICIT">>, <<"vr">>))
            @@ ("vr" :> Leaf("reference", <<"Int">>))
            @@ ("names" :> Field("names", "nr"))
            @@ ("nr" :> Nd("repetition", <<"SEQUENCE", "OF">>, <<"nn">>))
            @@ ("nn" :> Leaf("reference", <<"Name">>))
            @@ ("key" :> Field("key", "kc"))
            @@ ("kc" :> Nd("alternation", <<"CHOICE">>, <<"rsa", "ec">>))
            @@ ("rsa" :> Field("rsa", "rt")) @@ ("rt" :> Leaf("terminal", <<"OCTET", "STRING">>))
            @@ ("ec" :> Field("ec", "er")) @@ ("er" :> Leaf("reference", <<"Point">>))
            @@ ("ext" :> Field("ext", "eo")) @@ ("eo" :> Nd("optional", <<"OPTIONAL">>, <<"es">>))
            @@ ("es" :> Nd("repetition", <<"SET", "OF">>, <<"et">>))
            @@ ("et" :> Leaf("string-type", <<"UTF8String">>))
            @@ ("Int" :> Rule(<<"Int">>, "it")) @@ ("it" :> Leaf("terminal", <<"INTEGER">>))
            @@ ("Name" :> Rule(<<"Name">>, "nt")) @@ ("nt" :> Leaf("string-type", <<"UTF8String">>))
            @@ ("Point" :> Rule(<<"Point">>, "pb")) @@ ("pb" :> Leaf("terminal", <<"BIT", "STRING">>))]

\* The nodes a walk over each of three certificates credits: one of every field, the
\* least there is, and one with the other key.
CertUses ==
    LET core == {"Cert", "cs", "names", "nr", "key", "kc"}
        name == {"nn", "Name", "nt"}
    IN  [full  |-> core \cup name \cup {"ver", "vo", "vt", "vr", "Int", "it", "rsa", "rt",
                                        "ext", "eo", "es", "et"},
         least |-> core \cup {"rsa", "rt"},
         ec    |-> core \cup name \cup {"ec", "er", "Point", "pb"}]
=============================================================================
