------------------------------ MODULE RefParser ------------------------------
(***************************************************************************)
(* The reference parser for text grammars (mvs-refparse lib.rs): it runs   *)
(* the full grammar and treats the pruned nodes as a deny list.            *)
(***************************************************************************)
EXTENDS AbnfParse

\* first_pruned: the first visited node, in credit order, that was pruned.
FirstPruned(visited, pruned) ==
    LET hit == {i \in 1..Len(visited) : visited[i] \in pruned}
    IN  visited[CHOOSE i \in hit : \A j \in hit : i <= j]

BoundsExceeded(bound) == [outcome |-> "BoundsExceeded", bound |-> bound]
Malformed             == [outcome |-> "Malformed"]
UnsupportedNode(n)    == [outcome |-> "UnsupportedNode", node |-> n]
Valid(visited)        == [outcome |-> "ok", visited |-> visited]

\* Mutant of Validate: the deny list is not consulted.
ValidateFull(ast, pruned, limits, input) ==
    LET result == ParseBounded(Compile(ast), ast.root, input, limits.max_depth)
    IN  IF Len(input) <= limits.max_input_len /\ result.matched THEN Valid(result.visited)
        ELSE Malformed

\* MvsTextParser::validate
Validate(ast, pruned, limits, input) ==
    LET result == ParseBounded(Compile(ast), ast.root, input, limits.max_depth)
    IN  IF Len(input) > limits.max_input_len THEN BoundsExceeded("max_input_len")
        ELSE IF result.depth_exceeded THEN BoundsExceeded("max_depth")
        ELSE IF ~ result.matched THEN Malformed
        ELSE IF \E i \in 1..Len(result.visited) : result.visited[i] \in pruned
             THEN UnsupportedNode(FirstPruned(result.visited, pruned))
        ELSE Valid(result.visited)
=============================================================================
