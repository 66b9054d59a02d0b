---------------------------- MODULE AbnfLanguage ----------------------------
(***************************************************************************)
(* What an ABNF grammar describes, independently of any recognizer: the    *)
(* least set of parts <<n, k, i, j>> such that node n derives the bytes of *)
(* the input from offset i to offset j.  For k > 0 it is what is left of a *)
(* sequence after its first k elements, of a repetition after k items.     *)
(* Used to judge the recognizer of Matcher.                                *)
(***************************************************************************)
EXTENDS AbnfCompile

Offsets(input) == 0..Len(input)

\* The last k of a node.  From there on the items of a repetition are all alike: it may
\* end, and takes more if it has no maximum.
LastPart(node) ==
    CASE node.op = "Seq" -> Len(node.kids)
      [] node.op = "Rep" -> IF node.max > node.min THEN node.max ELSE node.min
      [] OTHER           -> 0

After(node, k) == IF k < LastPart(node) THEN k ELSE LastPart(node)

Parts(code, input) ==
    UNION {{p \in {n} \X (0..LastPart(code[n])) \X Offsets(input) \X Offsets(input) :
                p[3] <= p[4]} : n \in DOMAIN code}

\* The part <<n, k, i, j>> follows from the parts S.
Derives(code, input, S, n, k, i, j) ==
    LET node == code[n]
        Whole(kid) == <<kid, 0, i, j>> \in S
        More(kid)  == \E h \in i..j : /\ <<kid, 0, i, h>> \in S
                                      /\ <<n, After(node, k + 1), h, j>> \in S
    IN  CASE node.op = "Pass" -> Whole(node.kids[1])
          [] node.op = "Term" -> j = MatchAt(node.term, input, i)
          [] node.op = "Alt"  -> \E b \in 1..Len(node.kids) : Whole(node.kids[b])
          [] node.op = "Opt"  -> i = j \/ Whole(node.kids[1])
          [] node.op = "Seq"  -> IF k = Len(node.kids) THEN i = j ELSE More(node.kids[k + 1])
          [] node.op = "Rep"  -> \/ k >= node.min /\ i = j
                                 \/ (node.max = NoMax \/ k < node.max) /\ More(node.kids[1])

Derivable(code, input) ==
    LET all == Parts(code, input)
        grow[S \in SUBSET all] ==
            LET more == {p \in all \ S : Derives(code, input, S, p[1], p[2], p[3], p[4])}
            IN  IF more = {} THEN S ELSE grow[S \cup more]
    IN  grow[{}]

InLanguage(code, root, input) == <<root, 0, 0, Len(input)>> \in Derivable(code, input)

\* What is left of a grammar that keeps the nodes V: nothing matches a node it has lost.
Keeping(table, V) ==
    [n \in DOMAIN table |->
        IF n \in V THEN table[n]
        ELSE [op |-> "Alt", kids |-> << >>, min |-> 0, max |-> NoMax, term |-> NoTerm]]
=============================================================================
