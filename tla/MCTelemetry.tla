---------------------------- MODULE MCTelemetry ----------------------------
(***************************************************************************)
(* Shards for Telemetry.  The grammar is S = X / "b" with X a rule that is *)
(* used through the reference x: x needs X, X needs its body t, S needs a. *)
(***************************************************************************)
EXTENDS Telemetry

CONSTANTS s1, s2, s3

Input(bytes, visited) == [kind |-> "input", bytes |-> bytes, matched |-> visited # << >>,
                          visited |-> visited]
Blank   == [kind |-> "blank", bytes |-> 0, matched |-> FALSE, visited |-> << >>]
ViaX    == Input(1, <<"t", "X", "x", "a", "S">>)
ViaB    == Input(1, <<"b", "a", "S">>)
TwiceX  == Input(2, <<"t", "X", "x", "t", "X", "x", "a", "S">>)
Foreign == Input(2, << >>)
Long    == Input(9, <<"t", "X", "x", "a", "S">>)

MCRequires == {<<"S", "a">>, <<"x", "X">>, <<"X", "t">>, <<"t", "a">>}

MCLines == {<<ViaX, ViaB>>, <<TwiceX, Blank>>, <<Foreign, Long, ViaB>>, << >>}
MCCorpora == [{s1, s2, s3} -> MCLines]

OneGrammar  == [s \in {s1, s2, s3} |-> "uri"]
TwoGrammars == [s \in {s1, s2, s3} |-> IF s = s3 THEN "x509" ELSE "uri"]
MCSetups == {[grammar |-> OneGrammar, der |-> {}], [grammar |-> TwoGrammars, der |-> {s3}]}
=============================================================================
