------------------------------ MODULE AbnfParse ------------------------------
(***************************************************************************)
(* The verdict of Grammar::parse_bounded (telemetry.rs) as a function of   *)
(* the compiled grammar, the input and the depth bound: what Matcher       *)
(* computes step by step, in one expression, for the modules that use a    *)
(* parse as a single event.  MCMatcher checks the two against each other.  *)
(*                                                                         *)
(* p == [code, root, input, max] is a parse; a continuation is a sequence  *)
(* as in Matcher; d counts the open calls of m.  A verdict is [ok,         *)
(* visited, refused]: whether the rest of the input was accepted, the      *)
(* nodes credited, in the order they are, and whether the bound was hit.   *)
(***************************************************************************)
EXTENDS AbnfCompile

Accepted(ok) == [ok |-> ok, visited |-> << >>, refused |-> FALSE]
Refused      == [ok |-> FALSE, visited |-> << >>, refused |-> TRUE]

\* v, or if it fails the next thing to try; a refusal is remembered.
OrElse(v, Next(_)) ==
    IF v.ok THEN v
    ELSE LET w == Next(v) IN [w EXCEPT !.refused = v.refused \/ @]

RECURSIVE M(_, _, _, _, _), RunCont(_, _, _, _), RepStep(_, _, _, _, _, _),
          Branches(_, _, _, _, _, _)

M(p, n, pos, cont, d) ==
    LET node == p.code[n]
        body ==
          CASE node.op = "Pass" -> M(p, node.kids[1], pos, cont, d + 1)
            [] node.op = "Term" ->
                 LET np == MatchAt(node.term, p.input, pos)
                 IN  IF np = NoMatch THEN Accepted(FALSE) ELSE RunCont(p, cont, np, d + 1)
            [] node.op = "Seq" -> RunCont(p, <<[node |-> n, k |-> 1, start |-> 0]>> \o cont,
                                          pos, d + 1)
            [] node.op = "Alt" -> Branches(p, n, 1, pos, cont, d + 1)
            [] node.op = "Opt" -> OrElse(M(p, node.kids[1], pos, cont, d + 1),
                                         LAMBDA v : RunCont(p, cont, pos, d + 1))
            [] node.op = "Rep" -> RepStep(p, n, 0, pos, cont, d + 1)
    IN  IF d >= p.max THEN Refused
        ELSE IF body.ok THEN [body EXCEPT !.visited = Append(@, n)] ELSE body

Branches(p, n, b, pos, cont, d) ==
    IF b > Len(p.code[n].kids) THEN Accepted(FALSE)
    ELSE OrElse(M(p, p.code[n].kids[b], pos, cont, d),
                LAMBDA v : Branches(p, n, b + 1, pos, cont, d))

RunCont(p, cont, pos, d) ==
    IF cont = << >> THEN Accepted(pos = Len(p.input))
    ELSE LET c    == Head(cont)
             rest == Tail(cont)
             node == p.code[c.node]
         IN  CASE node.op = "Seq" ->
                    IF c.k > Len(node.kids) THEN RunCont(p, rest, pos, d)
                    ELSE M(p, node.kids[c.k], pos, <<[c EXCEPT !.k = @ + 1]>> \o rest, d)
               [] node.op = "Rep" /\ pos # c.start -> RepStep(p, c.node, c.k, pos, rest, d)
               [] node.op = "Rep" /\ pos = c.start ->
                    IF c.k >= node.min THEN RunCont(p, rest, pos, d) ELSE Accepted(FALSE)

RepStep(p, n, count, pos, cont, d) ==
    LET node   == p.code[n]
        item   == IF node.max = NoMax \/ count < node.max
                  THEN M(p, node.kids[1], pos,
                         <<[node |-> n, k |-> count + 1, start |-> pos]>> \o cont, d)
                  ELSE Accepted(FALSE)
    IN  OrElse(item, LAMBDA v : IF count >= node.min THEN RunCont(p, cont, pos, d)
                                ELSE Accepted(FALSE))

\* ParseResult
ParseBounded(code, root, input, max) ==
    LET v == M([code |-> code, root |-> root, input |-> input, max |-> max], root, 0, << >>, 0)
    IN  [matched |-> v.ok, visited |-> v.visited, depth_exceeded |-> ~ v.ok /\ v.refused]
=============================================================================
