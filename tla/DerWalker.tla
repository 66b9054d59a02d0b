------------------------------ MODULE DerWalker ------------------------------
(***************************************************************************)
(* The instrumented DER walker of the telemetry core (der.rs):             *)
(* DerWalker::walk over the mutually recursive match_type and match_value, *)
(* written as a machine whose stack holds the open Rust call frames.       *)
(*                                                                         *)
(* DER bytes are abstracted to what read_tlv makes of them: a buffer is    *)
(* the values it can be cut into, in order, and whether bytes are left     *)
(* behind the last one that are no value (torn).  A position is the number *)
(* of values passed; every call that succeeds passes exactly one.          *)
(*                                                                         *)
(* An AST is [root, nodes] as in AbnfCompile; the name of a tag node is    *)
(* abstracted to its number (NoTag when it cannot be read) and its mode.   *)
(***************************************************************************)
EXTENDS Integers, Sequences, FiniteSets

CONSTANTS Asts,      \* the ASN.1 ASTs
          Tlvs,      \* the values that occur, at any depth
          Inputs,    \* the buffers walk may be given
          MaxDepth,  \* frames of match_type that may be open at once
          NoTlv

NoTag   == -1
Buffers == [items : Seq(Tlvs), torn : BOOLEAN]

Wrapping == {"rule", "named-type", "group", "optional"}
Walkable == Wrapping \cup {"reference", "sequence", "alternation", "repetition", "tag",
                           "terminal", "string-type"}
Modes    == {"IMPLICIT", "EXPLICIT", "unstated"}

WellFormed(ast) ==
    /\ ast.root \in DOMAIN ast.nodes
    /\ \A n \in DOMAIN ast.nodes :
          LET node == ast.nodes[n]
          IN  /\ node.kind \in Walkable
              /\ node.children \in Seq(DOMAIN ast.nodes)
              /\ node.kind = "tag" => node.name \in [num : Nat \cup {NoTag}, mode : Modes]

ASSUME AstsWellFormed == \A ast \in Asts : WellFormed(ast)
ASSUME TlvsNested ==
    \A t \in Tlvs : /\ t.class \in 0..3 /\ t.constructed \in BOOLEAN /\ t.tag \in Nat
                    /\ t.content \in Buffers
ASSUME InputsAreBuffers == Inputs \subseteq Buffers
ASSUME DepthAssumption  == MaxDepth \in Nat
ASSUME NoTlvAssumption  == NoTlv \notin Tlvs

VARIABLES ast, input,   \* what is walked (never changes)
          ctl,          \* the call to make, or what the last one returned
          stack, visited, depth, depth_exceeded

fixed == <<ast, input>>
vars  == <<ast, input, ctl, stack, visited, depth, depth_exceeded>>
-----------------------------------------------------------------------------
(***************************************************************************)
(* The schema.                                                             *)
(***************************************************************************)
Kind(n)   == ast.nodes[n].kind
Kids(n)   == ast.nodes[n].children
RulesNamed(name) == {r \in DOMAIN ast.nodes : /\ ast.nodes[r].kind = "rule"
                                              /\ ast.nodes[r].name = name}

\* The node a wrapper or a reference stands for: none when a wrapper has no child or
\* no rule has the name.
Targets(n) ==
    IF Kind(n) = "reference" THEN RulesNamed(ast.nodes[n].name)
    ELSE IF Kids(n) = << >> THEN {} ELSE {Kids(n)[1]}
Target(n) == CHOOSE t \in Targets(n) : TRUE

\* A component is optional when its type is an optional node.
IsOptional(n) == Kids(n) # << >> /\ Kind(Kids(n)[1]) = "optional"

\* string_type_tag and terminal_tag; a terminal of any other name matches any value.
StringTags == {<<"UTF8String", 12>>, <<"NumericString", 18>>, <<"PrintableString", 19>>,
               <<"TeletexString", 20>>, <<"T61String", 20>>, <<"VideotexString", 21>>,
               <<"IA5String", 22>>, <<"GraphicString", 25>>, <<"VisibleString", 26>>,
               <<"ISO646String", 26>>, <<"GeneralString", 27>>, <<"UniversalString", 28>>,
               <<"BMPString", 30>>}
TerminalTags == {<<"INTEGER", 2>>, <<"BOOLEAN", 1>>, <<"BIT STRING", 3>>,
                 <<"OCTET STRING", 4>>, <<"OBJECT IDENTIFIER", 6>>, <<"NULL", 5>>,
                 <<"UTCTime", 23>>, <<"GeneralizedTime", 24>>}
TagsOf(table, name) == {entry[2] : entry \in {e \in table : e[1] = name}}

SetTag      == 17
SequenceTag == 16
BodyTag(name) == IF name \in {"SET", "SET OF"} THEN SetTag ELSE SequenceTag

Universal(t) == t # NoTlv /\ t.class = 0
IsBody(n, t) == Universal(t) /\ t.constructed /\ t.tag = BodyTag(ast.nodes[n].name)

\* The checks that refuse a value before anything below n is looked at.
Fits(n, t) ==
    LET node == ast.nodes[n]
    IN  CASE node.kind \in Wrapping \cup {"reference"} -> Targets(n) # {}
          [] node.kind = "sequence"    -> IsBody(n, t)
          [] node.kind = "repetition"  -> IsBody(n, t) /\ Kids(n) # << >>
          [] node.kind = "alternation" -> t # NoTlv
          [] node.kind = "tag" -> /\ t # NoTlv /\ t.class = 2
                                  /\ t.tag = node.name.num /\ Kids(n) # << >>
          [] node.kind = "string-type" ->
                Universal(t) /\ t.tag \in TagsOf(StringTags, node.name)
          [] node.kind = "terminal" ->
                /\ t # NoTlv
                /\ TagsOf(TerminalTags, node.name) # {} =>
                      Universal(t) /\ t.tag \in TagsOf(TerminalTags, node.name)

\* match_tag: EXPLICIT, or unstated with a constructed value.
IsExplicit(n, t) == \/ ast.nodes[n].name.mode = "EXPLICIT"
                    \/ ast.nodes[n].name.mode = "unstated" /\ t.constructed
-----------------------------------------------------------------------------
(***************************************************************************)
(* Calls, frames and positions.                                            *)
(***************************************************************************)
\* read_tlv at position p: the value there, or none.
At(buf, p)    == IF p < Len(buf.items) THEN buf.items[p + 1] ELSE NoTlv
AtEnd(buf, p) == p = Len(buf.items) /\ ~ buf.torn

Call(op, n, t) == [op |-> op, node |-> n, tlv |-> t]
ReturnTrue     == [op |-> "ok"]
ReturnFalse    == [op |-> "fail"]
Loop           == [op |-> "loop"]   \* the loop head of the topmost frame

\* A frame: the call, the length of visited when it was made, and for the loops the
\* next child k and the position p in the content.
Top   == stack[Len(stack)]
Below == SubSeq(stack, 1, Len(stack) - 1)
Open  == /\ stack' = Append(stack, [fn |-> ctl.op, node |-> ctl.node, tlv |-> ctl.tlv,
                                    mark |-> Len(visited), k |-> 1, p |-> 0])
         /\ depth' = IF ctl.op = "type" THEN depth + 1 ELSE depth

Truncated == SubSeq(visited, 1, Top.mark)
Outer     == IF Top.fn = "type" THEN depth - 1 ELSE depth

Init == /\ ast \in Asts /\ input \in Inputs
        /\ ctl = Call("type", ast.root, At(input, 0))
        /\ stack = << >> /\ visited = << >> /\ depth = 0 /\ depth_exceeded = FALSE
-----------------------------------------------------------------------------
(***************************************************************************)
(* Entering a node, by match_type or match_value.                          *)
(***************************************************************************)
Refuse ==
    /\ ctl.op = "type" /\ depth >= MaxDepth
    /\ depth_exceeded' = TRUE
    /\ ctl' = ReturnFalse
    /\ UNCHANGED <<fixed, stack, visited, depth>>

\* Mutant of Entering: off by one.
EnteringAtBound(kinds) == /\ ctl.op = "value" \/ (ctl.op = "type" /\ depth <= MaxDepth)
                          /\ Kind(ctl.node) \in kinds

\* Only match_type is bounded.
Entering(kinds) == /\ \/ ctl.op = "value"
                      \/ ctl.op = "type" /\ depth < MaxDepth
                   /\ Kind(ctl.node) \in kinds

Reject ==
    /\ Entering(Walkable)
    /\ ~ Fits(ctl.node, ctl.tlv)
    /\ ctl' = ReturnFalse
    /\ UNCHANGED <<fixed, stack, visited, depth, depth_exceeded>>

\* The child, or the rule named, stands for the same value.
EnterWrapper ==
    /\ Entering(Wrapping \cup {"reference"})
    /\ Fits(ctl.node, ctl.tlv)
    /\ Open
    /\ ctl' = Call(ctl.op, Target(ctl.node), ctl.tlv)
    /\ UNCHANGED <<fixed, visited, depth_exceeded>>

EnterLoop ==
    /\ Entering({"sequence", "repetition", "alternation"})
    /\ Fits(ctl.node, ctl.tlv)
    /\ Open
    /\ ctl' = Loop
    /\ UNCHANGED <<fixed, visited, depth_exceeded>>

EnterExplicit ==
    /\ Entering({"tag"})
    /\ Fits(ctl.node, ctl.tlv) /\ IsExplicit(ctl.node, ctl.tlv)
    /\ Open
    /\ ctl' = Call("type", Kids(ctl.node)[1], At(ctl.tlv.content, 0))
    /\ UNCHANGED <<fixed, visited, depth_exceeded>>

\* Mutant of EnterImplicit: the type behind the tag is not credited.
EnterImplicitTag ==
    /\ Entering({"tag"})
    /\ Fits(ctl.node, ctl.tlv) /\ ~ IsExplicit(ctl.node, ctl.tlv)
    /\ visited' = Append(visited, ctl.node)
    /\ ctl' = ReturnTrue
    /\ UNCHANGED <<fixed, stack, depth, depth_exceeded>>

\* The body is tagged anew and not decoded: the inner node is credited as it stands.
EnterImplicit ==
    /\ Entering({"tag"})
    /\ Fits(ctl.node, ctl.tlv) /\ ~ IsExplicit(ctl.node, ctl.tlv)
    /\ visited' = visited \o <<Kids(ctl.node)[1], ctl.node>>
    /\ ctl' = ReturnTrue
    /\ UNCHANGED <<fixed, stack, depth, depth_exceeded>>

EnterLeaf ==
    /\ Entering({"terminal", "string-type"})
    /\ Fits(ctl.node, ctl.tlv)
    /\ visited' = Append(visited, ctl.node)
    /\ ctl' = ReturnTrue
    /\ UNCHANGED <<fixed, stack, depth, depth_exceeded>>
-----------------------------------------------------------------------------
(***************************************************************************)
(* The loops of walk_components, match_repetition and match_choice.        *)
(***************************************************************************)
InLoop(kinds) == ctl.op = "loop" /\ stack # << >> /\ Kind(Top.node) \in kinds

\* What the loop calls next: components and elements one level deeper, alternatives for
\* the value itself.
MoreToDo == CASE Kind(Top.node) = "sequence" -> /\ Top.k <= Len(Kids(Top.node))
                                                /\ ~ AtEnd(Top.tlv.content, Top.p)
              [] Kind(Top.node) = "repetition"  -> ~ AtEnd(Top.tlv.content, Top.p)
              [] Kind(Top.node) = "alternation" -> Top.k <= Len(Kids(Top.node))

NextComponent == /\ InLoop({"sequence"}) /\ MoreToDo
                 /\ ctl' = Call("type", Kids(Top.node)[Top.k], At(Top.tlv.content, Top.p))
                 /\ UNCHANGED <<fixed, stack, visited, depth, depth_exceeded>>

NextElement == /\ InLoop({"repetition"}) /\ MoreToDo
               /\ ctl' = Call("type", Kids(Top.node)[1], At(Top.tlv.content, Top.p))
               /\ UNCHANGED <<fixed, stack, visited, depth, depth_exceeded>>

NextAlternative == /\ InLoop({"alternation"}) /\ MoreToDo
                   /\ ctl' = Call("value", Kids(Top.node)[Top.k], Top.tlv)
                   /\ UNCHANGED <<fixed, stack, visited, depth, depth_exceeded>>

\* The topmost call returns true: its node is credited after what is below it.
Credit == /\ visited' = Append(visited, Top.node)
          /\ stack' = Below /\ depth' = Outer
          /\ ctl' = ReturnTrue
          /\ UNCHANGED <<fixed, depth_exceeded>>

\* A loop that runs out succeeds: of a CHOICE, no alternative need have matched.
LoopDone == /\ InLoop({"sequence", "repetition", "alternation"})
            /\ ~ MoreToDo
            /\ Credit
-----------------------------------------------------------------------------
(***************************************************************************)
(* Returning to the topmost frame.                                         *)
(***************************************************************************)
Returning(op, kinds) == ctl.op = op /\ stack # << >> /\ Kind(Top.node) \in kinds
SingleKinds == Wrapping \cup {"reference", "tag"}

Advance(dk, dp) == /\ stack' = [stack EXCEPT ![Len(stack)].k = @ + dk,
                                             ![Len(stack)].p = @ + dp]
                   /\ ctl' = Loop
                   /\ UNCHANGED <<fixed, depth, depth_exceeded>>

Succeed == Returning("ok", SingleKinds \cup {"alternation"}) /\ Credit

ItemMatched == /\ Returning("ok", {"sequence", "repetition"})
               /\ Advance(1, 1) /\ UNCHANGED visited

\* The failed component may be missing here.
Missing == Kind(Top.node) = "sequence" /\ IsOptional(Kids(Top.node)[Top.k])

\* Mutant of Absent: a missing component takes the value with it.
AbsentTakes == /\ Returning("fail", {"sequence"}) /\ Missing
               /\ Advance(1, 1) /\ UNCHANGED visited

Absent == /\ Returning("fail", {"sequence"}) /\ Missing
          /\ Advance(1, 0) /\ UNCHANGED visited

\* Mutant of PassOver: the component is skipped and its value is not.
PassOverField == /\ Returning("fail", {"sequence", "repetition"}) /\ ~ Missing
                 /\ Top.p < Len(Top.tlv.content.items)
                 /\ Advance(1, IF Kind(Top.node) = "sequence" THEN 0 ELSE 1)
                 /\ UNCHANGED visited

\* Mutant of PassOver: the same value again.
PassOverStill == /\ Returning("fail", {"sequence", "repetition"}) /\ ~ Missing
                 /\ Top.p < Len(Top.tlv.content.items)
                 /\ Advance(0, 0) /\ UNCHANGED visited

\* A value of a shape that is not modelled is passed over.
PassOver == /\ Returning("fail", {"sequence", "repetition"}) /\ ~ Missing
            /\ Top.p < Len(Top.tlv.content.items)
            /\ Advance(1, 1) /\ UNCHANGED visited

\* What follows cannot be read: the loop is left, and the call succeeds.
Unreadable == /\ Returning("fail", {"sequence", "repetition"}) /\ ~ Missing
              /\ Top.p >= Len(Top.tlv.content.items)
              /\ Credit

NotThisOne == /\ Returning("fail", {"alternation"})
              /\ visited' = Truncated
              /\ Advance(1, 0)

Fail == /\ Returning("fail", SingleKinds)
        /\ visited' = Truncated
        /\ stack' = Below /\ depth' = Outer
        /\ UNCHANGED <<fixed, ctl, depth_exceeded>>
-----------------------------------------------------------------------------
Next == \/ Refuse \/ Reject
        \/ EnterWrapper \/ EnterLoop \/ EnterExplicit \/ EnterImplicit \/ EnterLeaf
        \/ NextComponent \/ NextElement \/ NextAlternative \/ LoopDone
        \/ Succeed \/ ItemMatched \/ Absent \/ PassOver \/ Unreadable
        \/ NotThisOne \/ Fail

Spec     == Init /\ [][Next]_vars
\* The walker is sequential code: it runs until it returns.
FairSpec == Spec /\ WF_vars(Next)

\* walk's DerResult, once match_type(root) has returned.
Returned     == stack = << >> /\ ctl.op \in {"ok", "fail"}
Walked       == Returned /\ ctl.op = "ok"
Matched      == Walked /\ Len(input.items) = 1 /\ ~ input.torn
VisitedNodes == {visited[i] : i \in 1..Len(visited)}
-----------------------------------------------------------------------------
(***************************************************************************)
(* Properties.                                                             *)
(***************************************************************************)
Value  == Tlvs \cup {NoTlv}
Frames == [fn : {"type", "value"}, node : DOMAIN ast.nodes, tlv : Value,
           mark : Nat, k : Nat \ {0}, p : Nat]

TypeOK ==
    /\ ast \in Asts /\ input \in Inputs
    /\ \/ ctl \in [op : {"type", "value"}, node : DOMAIN ast.nodes, tlv : Value]
       \/ ctl \in [op : {"ok", "fail", "loop"}]
    /\ stack \in Seq(Frames)
    /\ visited \in Seq(DOMAIN ast.nodes)
    /\ depth \in Nat /\ depth_exceeded \in BOOLEAN

\* The depth counter is the number of open calls of match_type on every path, those
\* that give up early included, and never passes the bound.
OpenTypes == {i \in 1..Len(stack) : stack[i].fn = "type"}
DepthIsOpenCalls == depth = Cardinality(OpenTypes) /\ depth <= MaxDepth

\* What the code generator rests on (codegen.py: "a reference is only credited when its
\* target rule is"), for DER: at every moment, whatever has been rolled back, a wrapper,
\* reference or tag is credited with the node it stands for.
Needs(n) == IF Kind(n) \in Wrapping \cup {"reference"} THEN {Target(n)}
            ELSE IF Kind(n) = "tag" THEN {Kids(n)[1]} ELSE {}
CreditsClosed == \A n \in VisitedNodes : Needs(n) \subseteq VisitedNodes

\* It holds of every schema whose IMPLICIT tags are on types written out in full.
Plain == {"sequence", "alternation", "repetition", "terminal", "string-type"}
ImplicitOnPlain ==
    \A n \in DOMAIN ast.nodes :
        Kind(n) = "tag" /\ ast.nodes[n].name.mode # "EXPLICIT" /\ Kids(n) # << >> =>
            Kind(Kids(n)[1]) \in Plain
PlainCreditsClosed == ImplicitOnPlain => CreditsClosed

\* codegen.py on references, for every schema.
ReferenceHasRule ==
    Matched => \A n \in VisitedNodes : Kind(n) = "reference" => Target(n) \in VisitedNodes

\* Every walk returns once the depth is bounded, whatever the value.
Returns == <>Returned
=============================================================================
