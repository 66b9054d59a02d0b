------------------------------- MODULE Matcher -------------------------------
(***************************************************************************)
(* The instrumented recognizer of the telemetry core (telemetry.rs):       *)
(* Grammar::parse_bounded over the mutually recursive m, run_cont and      *)
(* rep_step, written as a machine whose stack holds the Rust call frames   *)
(* that still have work to do when their callee returns.                   *)
(*                                                                         *)
(*   ctl     what happens next: call m ("m"), run_cont ("cont") or         *)
(*           rep_step ("rep"), or return true ("ok") / false ("fail")      *)
(*   stack   open frames of m, and of rep_step calls trying one more item  *)
(*   visited, depth, depth_exceeded   the fields of struct Matcher         *)
(*                                                                         *)
(* A continuation (enum Cont) is a sequence, innermost obligation first;   *)
(* the empty sequence is Cont::Done.  Offsets into the input count from 0. *)
(***************************************************************************)
EXTENDS AbnfLanguage, FiniteSets

CONSTANTS Asts,      \* the AST documents a parse may be given
          Inputs,    \* the inputs a parse may be given: sequences of bytes
          MaxDepth   \* --max-depth: frames of m that may be open at once

\* What a reader of the AST schema may rely on: names and children are of the
\* shape their kind asks for, children are nodes (mvs_schema: validate_references).
WellFormed(ast) ==
    /\ IsFiniteSet(DOMAIN ast.nodes)
    /\ \A n \in DOMAIN ast.nodes :
          LET node == ast.nodes[n]
          IN  /\ node.kind \in AbnfKind \cup Asn1Kind
              /\ node.children \in Seq(DOMAIN ast.nodes)
              /\ node.kind = "repetition" =>
                    node.name \in [left : Nat \cup {Blank}, star : BOOLEAN,
                                  right : Nat \cup {Blank}]
              /\ node.kind = "terminal" => /\ node.name.form \in STRING
                                          /\ node.name.vals \in Seq(Nat)

ASSUME AstsWellFormed == \A ast \in Asts : WellFormed(ast)
ASSUME InputsAreBytes == Inputs \subseteq Seq(0..MaxByte)
ASSUME DepthAssumption == MaxDepth \in Nat

VARIABLES code,            \* the compiled grammar (never changes)
          root,            \* its root node (never changes)
          input,           \* the bytes to match (never changes)
          ctl, stack, visited, depth, depth_exceeded

inputVars == <<code, root, input>>
vars == <<code, root, input, ctl, stack, visited, depth, depth_exceeded>>
-----------------------------------------------------------------------------
(***************************************************************************)
(* Control records and continuations.                                      *)
(***************************************************************************)
Call(n, pos, cont)           == [op |-> "m", node |-> n, pos |-> pos, cont |-> cont]
RunCont(cont, pos)           == [op |-> "cont", pos |-> pos, cont |-> cont]
RepStep(n, count, pos, cont) == [op |-> "rep", node |-> n, count |-> count,
                                 pos |-> pos, cont |-> cont]
ReturnTrue  == [op |-> "ok"]
ReturnFalse == [op |-> "fail"]

\* Cont::Seq(children of n, k, parent) and Cont::Rep(rep n, k, start, parent).
SeqCont(n, k)        == [node |-> n, k |-> k, start |-> 0]
RepCont(n, k, start) == [node |-> n, k |-> k, start |-> start]

\* The end of rep_step: enough items, or the repetition has failed.
Settle(n, count, pos, cont) ==
    IF count >= code[n].min THEN RunCont(cont, pos) ELSE ReturnFalse

Top       == stack[Len(stack)]
Below     == SubSeq(stack, 1, Len(stack) - 1)
Truncated == SubSeq(visited, 1, Top.mark)
-----------------------------------------------------------------------------
Init ==
    /\ \E ast \in Asts :
          /\ Compiles(ast)
          /\ code = Compile(ast)
          /\ root = ast.root
    /\ input \in Inputs
    /\ ctl = Call(root, 0, << >>)
    /\ stack = << >>
    /\ visited = << >>
    /\ depth = 0
    /\ depth_exceeded = FALSE
-----------------------------------------------------------------------------
(***************************************************************************)
(* m: entering a node.                                                     *)
(***************************************************************************)
\* Mutant of Refuse: the refusal leaves no trace in the result.
RefuseSilently == /\ ctl.op = "m" /\ depth >= MaxDepth
                  /\ ctl' = ReturnFalse
                  /\ UNCHANGED <<inputVars, stack, visited, depth, depth_exceeded>>

\* The depth bound: this call fails at once.
Refuse ==
    /\ ctl.op = "m"
    /\ depth >= MaxDepth
    /\ depth_exceeded' = TRUE
    /\ ctl' = ReturnFalse
    /\ UNCHANGED <<inputVars, stack, visited, depth>>

\* Mutant of Open: the node is credited when it is entered.
OpenAndCredit(op, more) ==
    /\ ctl.op = "m" /\ depth < MaxDepth /\ code[ctl.node].op = op
    /\ depth' = depth + 1
    /\ visited' = Append(visited, ctl.node)
    /\ stack' = Append(stack, [fn |-> "m", node |-> ctl.node, pos |-> ctl.pos,
                               cont |-> ctl.cont, mark |-> Len(visited), k |-> more])
    /\ UNCHANGED <<inputVars, depth_exceeded>>

\* Open a frame of m for a node of shape op.  more is what the frame has left
\* to go back to when its callee fails: the branches of an Alt already tried, 1
\* for an Opt that has not been skipped yet.
Open(op, more) ==
    /\ ctl.op = "m"
    /\ depth < MaxDepth
    /\ code[ctl.node].op = op
    /\ depth' = depth + 1
    /\ stack' = Append(stack, [fn |-> "m", node |-> ctl.node, pos |-> ctl.pos,
                               cont |-> ctl.cont, mark |-> Len(visited), k |-> more])
    /\ UNCHANGED <<inputVars, visited, depth_exceeded>>

EnterPass == /\ Open("Pass", 0)
             /\ ctl' = Call(code[ctl.node].kids[1], ctl.pos, ctl.cont)

EnterTerm == /\ Open("Term", 0)
             /\ LET np == MatchAt(code[ctl.node].term, input, ctl.pos)
                IN  ctl' = IF np = NoMatch THEN ReturnFalse ELSE RunCont(ctl.cont, np)

EnterSeq == /\ Open("Seq", 0)
            /\ LET kids == code[ctl.node].kids
               IN  ctl' = IF kids = << >> THEN RunCont(ctl.cont, ctl.pos)
                          ELSE Call(kids[1], ctl.pos, <<SeqCont(ctl.node, 2)>> \o ctl.cont)

EnterAlt == /\ Open("Alt", 1)
            /\ LET kids == code[ctl.node].kids
               IN  ctl' = IF kids = << >> THEN ReturnFalse
                          ELSE Call(kids[1], ctl.pos, ctl.cont)

EnterOpt == /\ Open("Opt", 1)
            /\ ctl' = Call(code[ctl.node].kids[1], ctl.pos, ctl.cont)

EnterRep == /\ Open("Rep", 0)
            /\ ctl' = RepStep(ctl.node, 0, ctl.pos, ctl.cont)
-----------------------------------------------------------------------------
(***************************************************************************)
(* run_cont: what remains after a matched element.                         *)
(***************************************************************************)
ContDone ==
    /\ ctl.op = "cont"
    /\ ctl.cont = << >>
    /\ ctl' = IF ctl.pos = Len(input) THEN ReturnTrue ELSE ReturnFalse
    /\ UNCHANGED <<inputVars, stack, visited, depth, depth_exceeded>>

\* Mutant of ContSeq: off by one, the last element is never matched.
ContSeqShort ==
    /\ ctl.op = "cont" /\ ctl.cont # << >>
    /\ LET c == Head(ctl.cont) IN
         /\ code[c.node].op = "Seq"
         /\ ctl' = IF c.k >= Len(code[c.node].kids)
                   THEN RunCont(Tail(ctl.cont), ctl.pos)
                   ELSE Call(code[c.node].kids[c.k], ctl.pos,
                             <<SeqCont(c.node, c.k + 1)>> \o Tail(ctl.cont))
    /\ UNCHANGED <<inputVars, stack, visited, depth, depth_exceeded>>

ContSeq ==
    /\ ctl.op = "cont"
    /\ ctl.cont # << >>
    /\ LET c == Head(ctl.cont) IN
         /\ code[c.node].op = "Seq"
         /\ ctl' = IF c.k > Len(code[c.node].kids)
                   THEN RunCont(Tail(ctl.cont), ctl.pos)
                   ELSE Call(code[c.node].kids[c.k], ctl.pos,
                             <<SeqCont(c.node, c.k + 1)>> \o Tail(ctl.cont))
    /\ UNCHANGED <<inputVars, stack, visited, depth, depth_exceeded>>

\* A zero-width item ends the repetition instead of looping for ever.
ContRep ==
    /\ ctl.op = "cont"
    /\ ctl.cont # << >>
    /\ LET c == Head(ctl.cont) IN
         /\ code[c.node].op = "Rep"
         /\ ctl' = IF ctl.pos = c.start
                   THEN Settle(c.node, c.k, ctl.pos, Tail(ctl.cont))
                   ELSE RepStep(c.node, c.k, ctl.pos, Tail(ctl.cont))
    /\ UNCHANGED <<inputVars, stack, visited, depth, depth_exceeded>>
-----------------------------------------------------------------------------
(***************************************************************************)
(* rep_step: one more item if the maximum allows, else settle.             *)
(***************************************************************************)
\* Mutant of UnderMax: off by one.
UpToMax(n, count) == code[n].max = NoMax \/ count <= code[n].max

UnderMax(n, count) == code[n].max = NoMax \/ count < code[n].max

RepTry ==
    /\ ctl.op = "rep"
    /\ UnderMax(ctl.node, ctl.count)
    /\ stack' = Append(stack, [fn |-> "rep", node |-> ctl.node, pos |-> ctl.pos,
                               cont |-> ctl.cont, mark |-> Len(visited), k |-> ctl.count])
    /\ ctl' = Call(code[ctl.node].kids[1], ctl.pos,
                   <<RepCont(ctl.node, ctl.count + 1, ctl.pos)>> \o ctl.cont)
    /\ UNCHANGED <<inputVars, visited, depth, depth_exceeded>>

RepFull ==
    /\ ctl.op = "rep"
    /\ ~ UnderMax(ctl.node, ctl.count)
    /\ ctl' = Settle(ctl.node, ctl.count, ctl.pos, ctl.cont)
    /\ UNCHANGED <<inputVars, stack, visited, depth, depth_exceeded>>
-----------------------------------------------------------------------------
(***************************************************************************)
(* Returning.                                                              *)
(***************************************************************************)
\* m returns true: the node is credited after everything that followed it.
CloseTrue ==
    /\ ctl.op = "ok"
    /\ stack # << >>
    /\ stack' = Below
    /\ IF Top.fn = "m"
       THEN /\ depth' = depth - 1
            /\ visited' = Append(visited, Top.node)
       ELSE UNCHANGED <<depth, visited>>
    /\ UNCHANGED <<inputVars, ctl, depth_exceeded>>

\* Mutant of HasBranch: off by one, the last branch is never tried.
HasBranchButLast == /\ Top.fn = "m" /\ code[Top.node].op = "Alt"
                    /\ Top.k + 1 < Len(code[Top.node].kids)

HasBranch == Top.fn = "m" /\ code[Top.node].op = "Alt" /\ Top.k < Len(code[Top.node].kids)
CanSkip   == Top.fn = "m" /\ code[Top.node].op = "Opt" /\ Top.k = 1

\* The next branch of an Alt, against the same continuation.
NextBranch ==
    /\ ctl.op = "fail"
    /\ stack # << >>
    /\ HasBranch
    /\ visited' = Truncated
    /\ stack' = [stack EXCEPT ![Len(stack)].k = @ + 1]
    /\ ctl' = Call(code[Top.node].kids[Top.k + 1], Top.pos, Top.cont)
    /\ UNCHANGED <<inputVars, depth, depth_exceeded>>

\* Mutant of SkipOpt: the option may be skipped again and again.
SkipOptAgain ==
    /\ ctl.op = "fail" /\ stack # << >> /\ CanSkip
    /\ visited' = Truncated
    /\ ctl' = RunCont(Top.cont, Top.pos)
    /\ UNCHANGED <<inputVars, stack, depth, depth_exceeded>>

\* An Opt whose child failed is skipped.
SkipOpt ==
    /\ ctl.op = "fail"
    /\ stack # << >>
    /\ CanSkip
    /\ visited' = Truncated
    /\ stack' = [stack EXCEPT ![Len(stack)].k = 0]
    /\ ctl' = RunCont(Top.cont, Top.pos)
    /\ UNCHANGED <<inputVars, depth, depth_exceeded>>

\* rep_step after its extra item failed.
RepBack ==
    /\ ctl.op = "fail"
    /\ stack # << >>
    /\ Top.fn = "rep"
    /\ visited' = Truncated
    /\ stack' = Below
    /\ ctl' = Settle(Top.node, Top.k, Top.pos, Top.cont)
    /\ UNCHANGED <<inputVars, depth, depth_exceeded>>

\* Mutant of CloseFalse: the depth is restored on success only.
CloseFalseDeep ==
    /\ ctl.op = "fail" /\ stack # << >>
    /\ Top.fn = "m" /\ ~ HasBranch /\ ~ CanSkip
    /\ visited' = Truncated
    /\ stack' = Below
    /\ UNCHANGED <<inputVars, ctl, depth, depth_exceeded>>

\* m returns false: nothing left to try here.
CloseFalse ==
    /\ ctl.op = "fail"
    /\ stack # << >>
    /\ Top.fn = "m" /\ ~ HasBranch /\ ~ CanSkip
    /\ visited' = Truncated
    /\ stack' = Below
    /\ depth' = depth - 1
    /\ UNCHANGED <<inputVars, ctl, depth_exceeded>>
-----------------------------------------------------------------------------
Enter  == EnterPass \/ EnterTerm \/ EnterSeq \/ EnterAlt \/ EnterOpt \/ EnterRep
Next   == \/ Refuse \/ Enter
          \/ ContDone \/ ContSeq \/ ContRep \/ RepTry \/ RepFull
          \/ CloseTrue \/ NextBranch \/ SkipOpt \/ RepBack \/ CloseFalse

Spec     == Init /\ [][Next]_vars
\* The recognizer is sequential code: it runs until it returns.
FairSpec == Spec /\ WF_vars(Next)

\* parse_bounded's ParseResult, once m(root) has returned.
Returned      == stack = << >> /\ ctl.op \in {"ok", "fail"}
Matched       == Returned /\ ctl.op = "ok"
VisitedNodes  == {visited[i] : i \in 1..Len(visited)}
ResultVisited == IF Matched THEN VisitedNodes ELSE {}
DepthExceeded == Returned /\ ~ Matched /\ depth_exceeded
-----------------------------------------------------------------------------
(***************************************************************************)
(* Properties.                                                             *)
(***************************************************************************)
ContItem == [node : DOMAIN code, k : Nat \ {0}, start : Nat]

TypeOK ==
    /\ root \in DOMAIN code
    /\ input \in Inputs
    /\ \/ ctl \in [op : {"m"}, node : DOMAIN code, pos : Nat, cont : Seq(ContItem)]
       \/ ctl \in [op : {"cont"}, pos : Nat, cont : Seq(ContItem)]
       \/ ctl \in [op : {"rep"}, node : DOMAIN code, count : Nat, pos : Nat,
                   cont : Seq(ContItem)]
       \/ ctl \in [op : {"ok", "fail"}]
    /\ stack \in Seq([fn : {"m", "rep"}, node : DOMAIN code, pos : Nat,
                      cont : Seq(ContItem), mark : Nat, k : Nat])
    /\ visited \in Seq(DOMAIN code)
    /\ depth \in Nat
    /\ depth_exceeded \in BOOLEAN

\* Nothing is credited before the whole input has been accepted: the rollbacks
\* of m, Alt, Opt and rep_step never have a credited node to drop, so a node
\* of an abandoned branch cannot leak into the hits.
NothingToUndo == ctl.op # "ok" => visited = << >>

\* The depth counter of struct Matcher is the number of open frames of m on
\* every path, early failures included, and never passes the bound.
OpenFrames == {i \in 1..Len(stack) : stack[i].fn = "m"}
DepthIsOpenFrames == depth = Cardinality(OpenFrames) /\ depth <= MaxDepth

\* What crediting node n asks of the other nodes X credited for the same input:
\* its child if it passes through, every element of a sequence (those from a
\* pending Cont::Seq on excepted), a branch of an alternation, the element of a
\* repetition that must occur.
Covered(table, n, X, cont) ==
    LET kids == table[n].kids
    IN  CASE table[n].op = "Pass" -> kids[1] \in X
          [] table[n].op = "Seq"  -> \A j \in 1..Len(kids) :
                                        \/ kids[j] \in X
                                        \/ \E c \in 1..Len(cont) : /\ cont[c].node = n
                                                                   /\ cont[c].k <= j
          [] table[n].op = "Alt"  -> \E j \in 1..Len(kids) : kids[j] \in X
          [] table[n].op = "Rep"  -> table[n].min > 0 => kids[1] \in X
          [] OTHER                -> TRUE

\* The node-hit invariant the pruner and the code generator rest on
\* (codegen.py: "a reference is only credited when its target rule is"): the
\* nodes reported for a matched input hold the root and a whole derivation, and
\* the grammar that keeps no others still describes the input.
HitsAreDerivation ==
    Matched => /\ root \in VisitedNodes
               /\ \A n \in VisitedNodes : Covered(code, n, VisitedNodes, << >>)
               /\ InLanguage(Keeping(code, VisitedNodes), root, input)

\* A repetition that needs two items or more has none that can be empty.  (run_cont ends a
\* repetition at an empty item without counting further ones towards the minimum.)
CountedItemsConsume ==
    \A n \in DOMAIN code :
        code[n].op = "Rep" /\ code[n].min > 1 =>
            \A i \in Offsets(input) : <<code[n].kids[1], 0, i, i>> \notin Derivable(code, input)

\* The verdict is the language's: a parse the depth bound did not cut short matches
\* exactly the inputs the grammar describes (telemetry.rs: "accepts the same language
\* the ABNF describes rather than a first-match approximation").  The bound can only
\* lose inputs: it never makes a foreign one accepted.
AcceptsTheLanguage ==
    Returned => /\ Matched => InLanguage(code, root, input)
                /\ InLanguage(code, root, input) /\ CountedItemsConsume
                      => Matched \/ DepthExceeded

\* The recognizer returns for every grammar, left-recursive and zero-width
\* ones included, once the depth is bounded.
Terminates == <>Returned
=============================================================================
