------------------------------ MODULE MCMatcher ------------------------------
(***************************************************************************)
(* Small grammars and inputs for Matcher, and the agreement of its verdict *)
(* with the operator form the other modules use (AbnfParse).               *)
(***************************************************************************)
EXTENDS Matcher, MCGrammars

P == INSTANCE AbnfParse

\* S = X Y    X = "a" / "ab"    Y = [ "b" ] "a"
BacktrackAst ==
    [root |-> "S",
     nodes |-> ("S" :> Nd("rule", "S", <<"s">>)) @@ ("s" :> Nd("sequence", "", <<"x", "y">>))
            @@ ("x" :> Nd("reference", "X", << >>)) @@ ("y" :> Nd("reference", "Y", << >>))
            @@ ("X" :> Nd("rule", "X", <<"xs">>))
            @@ ("xs" :> Nd("alternation", "", <<"x1", "x2">>))
            @@ ("x1" :> Lit(<<a>>)) @@ ("x2" :> Lit(<<a, b>>))
            @@ ("Y" :> Nd("rule", "Y", <<"ys">>))
            @@ ("ys" :> Nd("sequence", "", <<"yo", "y2">>))
            @@ ("yo" :> Nd("optional", "", <<"y1">>))
            @@ ("y1" :> Lit(<<b>>)) @@ ("y2" :> Lit(<<a>>))]

\* S = *1%x61-62 1*1%x61   (the first repetition must give a byte back, and no
\* more than two bytes can match)
GreedyAst ==
    [root |-> "S",
     nodes |-> ("S" :> Nd("rule", "S", <<"s">>)) @@ ("s" :> Nd("sequence", "", <<"p", "q">>))
            @@ ("p" :> Nd("repetition", RepName(Blank, TRUE, 1), <<"p1">>))
            @@ ("p1" :> Num("range", <<a, b>>))
            @@ ("q" :> Nd("repetition", RepName(1, TRUE, 1), <<"q1">>))
            @@ ("q1" :> Num("series", <<a>>))]

\* S = *( *"a" ) 0<...> "b"   (zero-width items; prose that must not be entered)
ZeroWidthAst ==
    [root |-> "S",
     nodes |-> ("S" :> Nd("rule", "S", <<"s">>)) @@ ("s" :> Nd("sequence", "", <<"r", "z", "e">>))
            @@ ("r" :> Nd("repetition", RepName(0, TRUE, Blank), <<"g">>))
            @@ ("g" :> Nd("group", "", <<"i">>))
            @@ ("i" :> Nd("repetition", RepName(Blank, TRUE, Blank), <<"i1">>))
            @@ ("i1" :> Lit(<<A>>))
            @@ ("z" :> Nd("repetition", RepName(0, FALSE, Blank), <<"z1">>))
            @@ ("z1" :> Num("prose", << >>))
            @@ ("e" :> Lit(<<b>>))]

\* S = S "b" / "a"   (left recursion: only the depth bound stops it)
LeftRecursiveAst ==
    [root |-> "S",
     nodes |-> ("S" :> Nd("rule", "S", <<"c">>)) @@ ("c" :> Nd("alternation", "", <<"l", "t">>))
            @@ ("l" :> Nd("sequence", "", <<"s", "u">>))
            @@ ("s" :> Nd("reference", "S", << >>))
            @@ ("u" :> Lit(<<b>>)) @@ ("t" :> Lit(<<a>>))]

\* S = %x61 S %x62 / ( )   (nesting, and a sequence without elements)
NestedAst ==
    [root |-> "S",
     nodes |-> ("S" :> Nd("rule", "S", <<"c">>)) @@ ("c" :> Nd("alternation", "", <<"l", "n">>))
            @@ ("l" :> Nd("sequence", "", <<"o", "s", "u">>))
            @@ ("o" :> Num("series", <<a>>)) @@ ("u" :> Num("series", <<b>>))
            @@ ("s" :> Nd("reference", "S", << >>))
            @@ ("n" :> Nd("sequence", "", << >>))]

\* S = 2*3[ "a" ] "b"   (items that count towards a minimum and can be empty: the
\* hypothesis CountedItemsConsume fails)
EmptyItemsAst ==
    [root |-> "S",
     nodes |-> ("S" :> Nd("rule", "S", <<"s">>)) @@ ("s" :> Nd("sequence", "", <<"r", "e">>))
            @@ ("r" :> Nd("repetition", RepName(2, TRUE, 3), <<"o">>))
            @@ ("o" :> Nd("optional", "", <<"o1">>))
            @@ ("o1" :> Lit(<<a>>)) @@ ("e" :> Lit(<<b>>))]

MCAsts   == {BacktrackAst, GreedyAst, ZeroWidthAst, LeftRecursiveAst, NestedAst, EmptyItemsAst}
MCInputs == UNION {[1..n -> {a, A, b}] : n \in 0..3}
-----------------------------------------------------------------------------
\* The verdict the other modules use is the recognizer's, credited nodes, their
\* order and the depth report included.
VerdictIsParse ==
    Returned => P!ParseBounded(code, root, input, MaxDepth) =
                  [matched        |-> Matched,
                   visited        |-> IF Matched THEN visited ELSE << >>,
                   depth_exceeded |-> DepthExceeded]
=============================================================================
