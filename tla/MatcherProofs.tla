---------------------------- MODULE MatcherProofs ----------------------------
(***************************************************************************)
(* Theorems about Matcher, for every AST, input and depth bound: its       *)
(* types and the depth counter, then what a match credits, that its        *)
(* verdict is the language of the grammar, and that the nodes credited     *)
(* alone derive the input.                                                 *)
(***************************************************************************)
EXTENDS Matcher, FiniteSetTheorems, SequenceTheorems, TLAPS

-----------------------------------------------------------------------------
(***************************************************************************)
(* What compile guarantees of the table the machine runs.                  *)
(***************************************************************************)
Ops == {"Pass", "Seq", "Alt", "Opt", "Rep", "Term"}

NodeOK(table, n) ==
    /\ table[n].op \in Ops
    /\ table[n].kids \in Seq(DOMAIN table)
    /\ table[n].op \in {"Pass", "Opt", "Rep"} => table[n].kids # << >>
    /\ table[n].min \in Nat
    /\ table[n].max \in Nat \cup {NoMax}
    /\ table[n].term.vals \in Seq(Nat)

CodeOK == IsFiniteSet(DOMAIN code) /\ \A n \in DOMAIN code : NodeOK(code, n)

LEMMA SingletonSeq ==
    ASSUME NEW S, NEW e \in S
    PROVE  <<e>> \in Seq(S) /\ <<e>> # << >>
OBVIOUS

LEMMA CompileOK ==
    ASSUME NEW ast \in Asts, Compiles(ast), NEW n \in DOMAIN ast.nodes
    PROVE  LET c == CompiledNode(ast, n)
           IN  /\ c.op \in Ops
               /\ c.kids \in Seq(DOMAIN ast.nodes)
               /\ c.op \in {"Pass", "Opt", "Rep"} => c.kids # << >>
               /\ c.min \in Nat
               /\ c.max \in Nat \cup {NoMax}
               /\ c.term.vals \in Seq(Nat)
<1> DEFINE node == ast.nodes[n]
           c == CompiledNode(ast, n)
<1>1. /\ node.kind \in AbnfKind
      /\ node.children \in Seq(DOMAIN ast.nodes)
      /\ node.kind \in NeedsChild => node.children # << >>
      /\ node.kind = "reference" => RulesNamed(ast, node.name) # {}
      /\ node.kind = "repetition" =>
            /\ node.name \in [left : Nat \cup {Blank}, star : BOOLEAN, right : Nat \cup {Blank}]
            /\ GoodRepeat(node.name)
      /\ node.kind = "terminal" => node.name.vals \in Seq(Nat)
  BY AstsWellFormed DEF WellFormed, Compiles
<1>2. << >> \in Seq(Nat) /\ << >> \in Seq(DOMAIN ast.nodes)
  OBVIOUS
<1>3. CASE node.kind \in {"rule", "group"}
  BY <1>1, <1>2, <1>3 DEF CompiledNode, NoTerm, Ops, NeedsChild
<1>4. CASE node.kind = "reference"
  <2> DEFINE r == CHOOSE r \in RulesNamed(ast, node.name) : TRUE
  <2>1. r \in DOMAIN ast.nodes
    BY <1>1, <1>4 DEF RulesNamed
  <2>2. c = [op |-> "Pass", kids |-> <<r>>, min |-> 0, max |-> NoMax, term |-> NoTerm]
    BY <1>4 DEF CompiledNode
  <2>3. <<r>> \in Seq(DOMAIN ast.nodes) /\ <<r>> # << >>
    BY <2>1, SingletonSeq
  <2>4. /\ c.op = "Pass" /\ c.kids = <<r>> /\ c.min = 0 /\ c.max = NoMax /\ c.term.vals = << >>
    BY <2>2 DEF NoTerm
  <2>5. QED
    BY <1>2, <2>3, <2>4 DEF Ops
<1>5. CASE node.kind \in {"sequence", "alternation", "optional"}
  BY <1>1, <1>2, <1>5 DEF CompiledNode, NoTerm, Ops, NeedsChild
<1>6. CASE node.kind = "repetition"
  <2>1. ParseRepeat(node.name).min \in Nat /\ ParseRepeat(node.name).max \in Nat \cup {NoMax}
    BY <1>1, <1>6 DEF ParseRepeat, GoodRepeat, Blank, NoMax
  <2>2. QED
    BY <1>1, <1>2, <1>6, <2>1 DEF CompiledNode, NoTerm, Ops, NeedsChild
<1>7. CASE node.kind = "terminal"
  BY <1>1, <1>2, <1>7 DEF CompiledNode, Ops
<1>8. QED
  BY <1>1, <1>3, <1>4, <1>5, <1>6, <1>7 DEF AbnfKind

LEMMA InitCodeOK == Init => CodeOK /\ root \in DOMAIN code
<1> SUFFICES ASSUME Init PROVE CodeOK /\ root \in DOMAIN code
  OBVIOUS
<1>1. PICK ast \in Asts : Compiles(ast) /\ code = Compile(ast) /\ root = ast.root
  BY DEF Init
<1>2. DOMAIN code = DOMAIN ast.nodes
  BY <1>1 DEF Compile
<1>3. \A n \in DOMAIN code : code[n] = CompiledNode(ast, n)
  BY <1>1 DEF Compile
<1>4. IsFiniteSet(DOMAIN code)
  BY <1>1, <1>2, AstsWellFormed DEF WellFormed
<1>5. QED
  BY <1>1, <1>2, <1>3, <1>4, CompileOK DEF CodeOK, NodeOK, Compiles

LEMMA MatchAtType ==
    ASSUME NEW t, t.vals \in Seq(Nat), NEW inp \in Seq(0..MaxByte), NEW p \in Nat
    PROVE  MatchAt(t, inp, p) \in Nat \cup {NoMatch}
<1>1. Len(t.vals) \in Nat
  OBVIOUS
<1>2. QED
  BY <1>1 DEF MatchAt, Width
-----------------------------------------------------------------------------
(***************************************************************************)
(* Sequences.                                                              *)
(***************************************************************************)
LEMMA ConsSeq ==
    ASSUME NEW S, NEW e \in S, NEW s \in Seq(S)
    PROVE  <<e>> \o s \in Seq(S)
OBVIOUS

LEMMA TailSeq ==
    ASSUME NEW S, NEW s \in Seq(S), s # << >>
    PROVE  Head(s) \in S /\ Tail(s) \in Seq(S)
OBVIOUS

LEMMA FrontSeq ==
    ASSUME NEW S, NEW s \in Seq(S), s # << >>
    PROVE  /\ Len(s) \in Nat \ {0}
           /\ s[Len(s)] \in S
           /\ SubSeq(s, 1, Len(s) - 1) \in Seq(S)
           /\ Len(SubSeq(s, 1, Len(s) - 1)) = Len(s) - 1
           /\ \A i \in 1..(Len(s) - 1) : SubSeq(s, 1, Len(s) - 1)[i] = s[i]
<1>1. Len(s) \in Nat \ {0} /\ s[Len(s)] \in S
  OBVIOUS
<1>2. \A i \in 1..(Len(s) - 1) : s[i] \in S
  OBVIOUS
<1> DEFINE n == Len(s) - 1
<1>3. n \in Nat
  BY <1>1
<1>4. /\ SubSeq(s, 1, n) \in Seq(S)
      /\ Len(SubSeq(s, 1, n)) = IF 1 <= n THEN n - 1 + 1 ELSE 0
      /\ \A i \in 1..(n - 1 + 1) : SubSeq(s, 1, n)[i] = s[1 + i - 1]
  <2> HIDE DEF n
  <2>1. n \in Int /\ 1 \in Int
    BY <1>3
  <2>2. \A i \in 1..n : s[i] \in S
    BY <1>2 DEF n
  <2>3. QED
    BY <2>1, <2>2, SubSeqProperties
<1>5. Len(SubSeq(s, 1, n)) = n
  <2> HIDE DEF n
  <2>1. QED
    BY <1>3, <1>4
<1>6. \A i \in 1..n : SubSeq(s, 1, n)[i] = s[i]
  <2> HIDE DEF n
  <2>1. QED
    BY <1>3, <1>4
<1>7. QED
  BY <1>1, <1>4, <1>5, <1>6

LEMMA PushSeq ==
    ASSUME NEW S, NEW s \in Seq(S), NEW e \in S
    PROVE  /\ Append(s, e) \in Seq(S)
           /\ Len(Append(s, e)) = Len(s) + 1
           /\ \A i \in 1..Len(s) : Append(s, e)[i] = s[i]
           /\ Append(s, e)[Len(s) + 1] = e
OBVIOUS
-----------------------------------------------------------------------------
(***************************************************************************)
(* Type correctness and depth.  TInv strengthens TypeOK to what makes it   *)
(* inductive: the compiled table is well formed, nothing is credited while *)
(* matching goes on (so every mark a rollback truncates to is 0), and the  *)
(* depth counts the open frames (so returning never takes it below 0).     *)
(***************************************************************************)
Frame == [fn : {"m", "rep"}, node : DOMAIN code, pos : Nat,
          cont : Seq(ContItem), mark : Nat, k : Nat]
CallCtl == [op : {"m"}, node : DOMAIN code, pos : Nat, cont : Seq(ContItem)]
ContCtl == [op : {"cont"}, pos : Nat, cont : Seq(ContItem)]
RepCtl  == [op : {"rep"}, node : DOMAIN code, count : Nat, pos : Nat, cont : Seq(ContItem)]
RetCtl  == [op : {"ok", "fail"}]

\* A rep_step, running or waiting for its extra item, belongs to a repetition.
StackOK ==
    /\ stack \in Seq(Frame)
    /\ \A i \in 1..Len(stack) : /\ stack[i].mark = 0
                                /\ stack[i].fn = "rep" => code[stack[i].node].op = "Rep"
CtlOK ==
    \/ ctl \in CallCtl \cup ContCtl \cup RetCtl
    \/ ctl \in RepCtl /\ code[ctl.node].op = "Rep"

TInv == /\ CodeOK
        /\ root \in DOMAIN code
        /\ input \in Inputs
        /\ CtlOK
        /\ StackOK
        /\ visited \in Seq(DOMAIN code)
        /\ NothingToUndo
        /\ depth \in Nat
        /\ DepthIsOpenFrames
        /\ depth_exceeded \in BOOLEAN

LEMMA TInvTypeOK == TInv => TypeOK
BY DEF TInv, TypeOK, CtlOK, StackOK, CallCtl, ContCtl, RepCtl, RetCtl, Frame

LEMMA CtlShape ==
    ASSUME CtlOK
    PROVE  /\ ctl.op = "m"    => ctl \in CallCtl
           /\ ctl.op = "cont" => ctl \in ContCtl
           /\ ctl.op = "rep"  => ctl \in RepCtl /\ code[ctl.node].op = "Rep"
           /\ ctl.op \in {"m", "cont", "rep", "ok", "fail"}
BY DEF CtlOK, CallCtl, ContCtl, RepCtl, RetCtl

LEMMA SettleType ==
    ASSUME CodeOK, NEW n \in DOMAIN code, NEW count \in Nat, NEW pos \in Nat,
           NEW cont \in Seq(ContItem)
    PROVE  /\ Settle(n, count, pos, cont) \in ContCtl \cup RetCtl
           /\ Settle(n, count, pos, cont).op # "ok"
BY DEF Settle, RunCont, ReturnFalse, ContCtl, RetCtl

LEMMA OpenFinite ==
    ASSUME stack \in Seq(Frame)
    PROVE  IsFiniteSet(OpenFrames) /\ Cardinality(OpenFrames) \in Nat
<1>1. Len(stack) \in Nat /\ OpenFrames \subseteq 1..Len(stack)
  BY DEF OpenFrames
<1>2. IsFiniteSet(1..Len(stack))
  BY <1>1, FS_Interval
<1>3. QED
  BY <1>1, <1>2, FS_Subset, FS_CardinalityType

\* Pushing a frame.
LEMMA Push ==
    ASSUME StackOK, NEW f \in Frame, f.mark = 0, UNCHANGED code,
           f.fn = "rep" => code[f.node].op = "Rep",
           stack' = Append(stack, f)
    PROVE  /\ StackOK'
           /\ f.fn = "m"   => Cardinality(OpenFrames') = Cardinality(OpenFrames) + 1
           /\ f.fn = "rep" => OpenFrames' = OpenFrames
<1>1. /\ stack \in Seq(Frame) /\ stack' \in Seq(Frame)
      /\ Len(stack') = Len(stack) + 1 /\ Len(stack) \in Nat
      /\ \A i \in 1..Len(stack) : stack'[i] = stack[i]
      /\ stack'[Len(stack) + 1] = f
  BY PushSeq DEF StackOK
<1>2. Frame' = Frame
  BY DEF Frame, ContItem
<1>3. StackOK'
  BY <1>1, <1>2 DEF StackOK
<1>4. CASE f.fn = "m"
  <2>1. OpenFrames' = OpenFrames \cup {Len(stack) + 1}
    BY <1>1, <1>4 DEF OpenFrames
  <2>2. Len(stack) + 1 \notin OpenFrames
    BY <1>1 DEF OpenFrames
  <2>3. QED
    BY <1>1, <1>3, <1>4, <2>1, <2>2, OpenFinite, FS_AddElement
<1>5. CASE f.fn = "rep"
  BY <1>1, <1>3, <1>5 DEF OpenFrames
<1>6. QED
  BY <1>1, <1>3, <1>4, <1>5 DEF Frame

\* Popping the top frame.
LEMMA Pop ==
    ASSUME StackOK, stack # << >>, UNCHANGED code, stack' = Below
    PROVE  /\ StackOK'
           /\ Top.fn = "m"   => /\ Cardinality(OpenFrames) \in Nat \ {0}
                                /\ Cardinality(OpenFrames') = Cardinality(OpenFrames) - 1
           /\ Top.fn = "rep" => OpenFrames' = OpenFrames
<1>1. /\ stack \in Seq(Frame) /\ stack' \in Seq(Frame)
      /\ Len(stack) \in Nat \ {0}
      /\ Len(stack') = Len(stack) - 1
      /\ \A i \in 1..(Len(stack) - 1) : stack'[i] = stack[i]
      /\ Top \in Frame
  BY FrontSeq DEF StackOK, Below, Top
<1>2. Frame' = Frame
  BY DEF Frame, ContItem
<1>3. StackOK'
  BY <1>1, <1>2 DEF StackOK
<1>4. CASE Top.fn = "m"
  <2>1. OpenFrames' = OpenFrames \ {Len(stack)}
    BY <1>1 DEF OpenFrames
  <2>2. Len(stack) \in OpenFrames
    BY <1>1, <1>4 DEF OpenFrames, Top
  <2>3. QED
    BY <1>1, <1>3, <1>4, <2>1, <2>2, OpenFinite, FS_RemoveElement, FS_EmptySet
<1>5. CASE Top.fn = "rep"
  BY <1>1, <1>3, <1>5 DEF OpenFrames, Top
<1>6. QED
  BY <1>1, <1>3, <1>4, <1>5 DEF Frame

\* Trying the next thing in the top frame.
LEMMA Retry ==
    ASSUME StackOK, stack # << >>, UNCHANGED code, NEW k \in Nat,
           stack' = [stack EXCEPT ![Len(stack)].k = k]
    PROVE  StackOK' /\ OpenFrames' = OpenFrames
<1>1. /\ stack \in Seq(Frame) /\ Len(stack) \in Nat \ {0} /\ Top \in Frame
  BY FrontSeq DEF StackOK, Top
<1>2. [Top EXCEPT !.k = k] \in Frame
  BY <1>1 DEF Frame
<1>3. stack' = [stack EXCEPT ![Len(stack)] = [Top EXCEPT !.k = k]]
  BY <1>1 DEF Top
<1>4. /\ stack' \in Seq(Frame) /\ Len(stack') = Len(stack)
      /\ \A i \in 1..Len(stack) : /\ stack'[i].mark = stack[i].mark
                                  /\ stack'[i].fn = stack[i].fn
                                  /\ stack'[i].node = stack[i].node
  <2> DEFINE new == [Top EXCEPT !.k = k]
  <2>1. new.mark = Top.mark /\ new.fn = Top.fn /\ new.node = Top.node
    BY <1>1 DEF Frame
  <2> HIDE DEF new
  <2>2. new \in Frame /\ stack' = [stack EXCEPT ![Len(stack)] = new]
    BY <1>2, <1>3 DEF new
  <2>3. /\ stack' \in Seq(Frame) /\ Len(stack') = Len(stack)
        /\ \A i \in 1..Len(stack) : stack'[i] = IF i = Len(stack) THEN new ELSE stack[i]
    BY <1>1, <2>2
  <2> QED BY <1>1, <2>1, <2>3 DEF Top
<1>5. Frame' = Frame
  BY DEF Frame, ContItem
<1>6. QED
  BY <1>4, <1>5 DEF StackOK, OpenFrames

LEMMA TInvInit == Init => TInv
<1> SUFFICES ASSUME Init PROVE TInv
  OBVIOUS
<1>1. CodeOK /\ root \in DOMAIN code
  BY InitCodeOK
<1>2. CtlOK
  BY <1>1 DEF Init, CtlOK, Call, CallCtl
<1>3. StackOK /\ OpenFrames = {}
  BY DEF Init, StackOK, OpenFrames
<1>4. depth = Cardinality(OpenFrames) /\ depth <= MaxDepth /\ depth \in Nat
  BY <1>3, FS_EmptySet, DepthAssumption DEF Init
<1>5. visited = << >> /\ input \in Inputs /\ depth_exceeded \in BOOLEAN
  BY DEF Init
<1>6. << >> \in Seq(DOMAIN code)
  OBVIOUS
<1>7. QED
  BY <1>1, <1>2, <1>3, <1>4, <1>5, <1>6 DEF TInv, NothingToUndo, DepthIsOpenFrames

LEMMA NextCtl ==
    ASSUME UNCHANGED code,
           \/ ctl' \in CallCtl \cup ContCtl \cup RetCtl
           \/ ctl' \in RepCtl /\ code[ctl'.node].op = "Rep"
    PROVE  CtlOK'
BY DEF CtlOK, CallCtl, ContCtl, RepCtl, RetCtl, ContItem

\* A step that only moves the control on.
LEMMA Quiet ==
    ASSUME TInv, ctl.op # "ok", CtlOK',
           UNCHANGED <<inputVars, stack, visited, depth>>, depth_exceeded' \in BOOLEAN
    PROVE  TInv'
<1>1. visited = << >> /\ visited' = << >>
  BY DEF TInv, NothingToUndo
<1>2. CodeOK' /\ root' \in DOMAIN code' /\ input' \in Inputs
  BY DEF TInv, CodeOK, NodeOK, inputVars
<1>3. StackOK' /\ OpenFrames' = OpenFrames
  BY DEF TInv, StackOK, OpenFrames, Frame, ContItem, inputVars
<1>4. DepthIsOpenFrames' /\ depth' \in Nat
  BY <1>3 DEF TInv, DepthIsOpenFrames
<1>5. visited' \in Seq(DOMAIN code')
  BY DEF TInv, inputVars
<1>6. QED
  BY <1>1, <1>2, <1>3, <1>4, <1>5 DEF TInv, NothingToUndo

\* A step that opens a frame of m.
LEMMA Opens ==
    ASSUME TInv, NEW op, NEW more \in Nat, Open(op, more), CtlOK'
    PROVE  TInv'
<1> DEFINE f == [fn |-> "m", node |-> ctl.node, pos |-> ctl.pos,
                 cont |-> ctl.cont, mark |-> Len(visited), k |-> more]
<1>1. ctl \in CallCtl /\ ctl.op = "m" /\ depth < MaxDepth /\ depth' = depth + 1
      /\ stack' = Append(stack, f)
      /\ UNCHANGED <<inputVars, visited, depth_exceeded>>
  BY CtlShape DEF TInv, Open
<1>2. visited = << >>
  BY <1>1 DEF TInv, NothingToUndo
<1>3. f \in Frame /\ f.mark = 0 /\ f.fn = "m"
  BY <1>1, <1>2 DEF Frame, CallCtl
<1>4. StackOK' /\ Cardinality(OpenFrames') = Cardinality(OpenFrames) + 1
  <2> HIDE DEF f
  <2>1. QED
    BY <1>1, <1>3, Push DEF TInv, inputVars
<1>5. DepthIsOpenFrames' /\ depth' \in Nat
  BY <1>1, <1>4, DepthAssumption DEF TInv, DepthIsOpenFrames
<1>6. CodeOK' /\ root' \in DOMAIN code' /\ input' \in Inputs
      /\ visited' \in Seq(DOMAIN code') /\ depth_exceeded' \in BOOLEAN
  BY <1>1 DEF TInv, CodeOK, NodeOK, inputVars
<1>7. QED
  BY <1>1, <1>2, <1>4, <1>5, <1>6 DEF TInv, NothingToUndo

LEMMA TruncatedEmpty ==
    ASSUME TInv, ctl.op = "fail", stack # << >>
    PROVE  /\ Truncated = << >> /\ visited = << >>
           /\ Top \in Frame
           /\ Top.fn = "rep" => code[Top.node].op = "Rep"
<1>1. stack \in Seq(Frame) /\ Len(stack) \in 1..Len(stack) /\ Top \in Frame
  BY FrontSeq DEF TInv, StackOK, Top
<1>2. Top.mark = 0 /\ (Top.fn = "rep" => code[Top.node].op = "Rep")
  BY <1>1 DEF TInv, StackOK, Top
<1>3. visited = << >>
  BY DEF TInv, NothingToUndo
<1>4. QED
  BY <1>1, <1>2, <1>3 DEF Truncated

LEMMA TInvNext == TInv /\ [Next]_vars => TInv'
<1> SUFFICES ASSUME TInv, [Next]_vars PROVE TInv'
  OBVIOUS
<1> USE DEF TInv
<1>1. CASE UNCHANGED vars
  <2>1. Frame' = Frame /\ OpenFrames' = OpenFrames /\ StackOK' /\ CtlOK' /\ CodeOK'
    BY <1>1 DEF vars, Frame, ContItem, OpenFrames, StackOK, CtlOK, CodeOK, NodeOK,
                CallCtl, ContCtl, RepCtl, RetCtl
  <2>2. QED
    BY <1>1, <2>1 DEF vars, NothingToUndo, DepthIsOpenFrames
<1>2. CASE Refuse
  <2>1. ctl' \in RetCtl /\ UNCHANGED code
    BY <1>2 DEF Refuse, ReturnFalse, RetCtl, inputVars
  <2>2. CtlOK'
    BY <2>1, NextCtl
  <2>3. QED
    BY <1>2, <2>2, Quiet DEF Refuse
<1>3. CASE Enter
  <2>1. ctl \in CallCtl /\ UNCHANGED code
    BY <1>3, CtlShape DEF Enter, EnterPass, EnterTerm, EnterSeq, EnterAlt, EnterOpt,
                          EnterRep, Open, inputVars
  <2>2. /\ ctl.node \in DOMAIN code /\ ctl.pos \in Nat /\ ctl.cont \in Seq(ContItem)
        /\ code[ctl.node].kids \in Seq(DOMAIN code)
        /\ code[ctl.node].op \in {"Pass", "Opt", "Rep"} => code[ctl.node].kids # << >>
        /\ code[ctl.node].kids # << >> => code[ctl.node].kids[1] \in DOMAIN code
    BY <2>1 DEF CallCtl, CodeOK, NodeOK
  <2>3. CASE EnterPass
    <3>1. ctl' \in CallCtl
      BY <2>2, <2>3 DEF EnterPass, Open, Call, CallCtl
    <3>2. QED
      BY <2>1, <2>3, <3>1, NextCtl, Opens DEF EnterPass
  <2>4. CASE EnterTerm
    <3>1. MatchAt(code[ctl.node].term, input, ctl.pos) \in Nat \cup {NoMatch}
      BY <2>2, MatchAtType, InputsAreBytes DEF CodeOK, NodeOK
    <3>2. ctl' \in ContCtl \cup RetCtl
      BY <2>2, <2>4, <3>1 DEF EnterTerm, RunCont, ReturnFalse, ContCtl, RetCtl
    <3>3. QED
      BY <2>1, <2>4, <3>2, NextCtl, Opens DEF EnterTerm
  <2>5. CASE EnterSeq
    <3>1. SeqCont(ctl.node, 2) \in ContItem
      BY <2>2 DEF SeqCont, ContItem
    <3>2. <<SeqCont(ctl.node, 2)>> \o ctl.cont \in Seq(ContItem)
      BY <2>2, <3>1, ConsSeq
    <3>3. ctl' \in CallCtl \cup ContCtl
      BY <2>2, <2>5, <3>2 DEF EnterSeq, Call, RunCont, CallCtl, ContCtl
    <3>4. QED
      BY <2>1, <2>5, <3>3, NextCtl, Opens DEF EnterSeq
  <2>6. CASE EnterAlt
    <3>1. ctl' \in CallCtl \cup RetCtl
      BY <2>2, <2>6 DEF EnterAlt, Call, ReturnFalse, CallCtl, RetCtl
    <3>2. QED
      BY <2>1, <2>6, <3>1, NextCtl, Opens DEF EnterAlt
  <2>7. CASE EnterOpt
    <3>1. ctl' \in CallCtl
      BY <2>2, <2>7 DEF EnterOpt, Open, Call, CallCtl
    <3>2. QED
      BY <2>1, <2>7, <3>1, NextCtl, Opens DEF EnterOpt
  <2>8. CASE EnterRep
    <3>1. ctl' \in RepCtl /\ code[ctl'.node].op = "Rep"
      BY <2>2, <2>8 DEF EnterRep, Open, RepStep, RepCtl
    <3>2. QED
      BY <2>1, <2>8, <3>1, NextCtl, Opens DEF EnterRep
  <2>9. QED
    BY <1>3, <2>3, <2>4, <2>5, <2>6, <2>7, <2>8 DEF Enter
<1>4. CASE ContDone \/ ContSeq \/ ContRep
  <2>1. ctl \in ContCtl /\ UNCHANGED code
    BY <1>4, CtlShape DEF ContDone, ContSeq, ContRep, inputVars
  <2>2. ctl.pos \in Nat /\ ctl.cont \in Seq(ContItem)
    BY <2>1 DEF ContCtl
  <2>3. CASE ContDone
    <3>1. ctl' \in RetCtl
      BY <2>3 DEF ContDone, ReturnTrue, ReturnFalse, RetCtl
    <3>2. QED
      BY <2>1, <2>3, <3>1, NextCtl, Quiet DEF ContDone
  <2> DEFINE c == Head(ctl.cont)
             rest == Tail(ctl.cont)
  <2>4. ASSUME ctl.cont # << >>
        PROVE  /\ c \in ContItem /\ rest \in Seq(ContItem)
               /\ c.node \in DOMAIN code /\ c.k \in Nat \ {0} /\ c.start \in Nat
    <3>1. c \in ContItem /\ rest \in Seq(ContItem)
      BY <2>2, <2>4, TailSeq
    <3>2. QED
      BY <3>1 DEF ContItem
  <2>5. CASE ContSeq
    <3> HIDE DEF c, rest
    <3>1. /\ c \in ContItem /\ rest \in Seq(ContItem)
          /\ c.node \in DOMAIN code /\ c.k \in Nat \ {0}
      BY <2>4, <2>5 DEF ContSeq
    <3>2. SeqCont(c.node, c.k + 1) \in ContItem
      BY <3>1 DEF SeqCont, ContItem
    <3>3. <<SeqCont(c.node, c.k + 1)>> \o rest \in Seq(ContItem)
      BY <3>1, <3>2, ConsSeq
    <3>4. ctl' = IF c.k > Len(code[c.node].kids) THEN RunCont(rest, ctl.pos)
                 ELSE Call(code[c.node].kids[c.k], ctl.pos,
                           <<SeqCont(c.node, c.k + 1)>> \o rest)
      BY <2>5 DEF ContSeq, c, rest
    <3>5. c.k <= Len(code[c.node].kids) => code[c.node].kids[c.k] \in DOMAIN code
      BY <3>1 DEF CodeOK, NodeOK
    <3>6. Len(code[c.node].kids) \in Nat
      BY <3>1 DEF CodeOK, NodeOK
    <3>7. ctl' \in CallCtl \cup ContCtl
      BY <2>2, <3>1, <3>3, <3>4, <3>5, <3>6 DEF Call, RunCont, CallCtl, ContCtl
    <3>8. CtlOK'
      BY <2>1, <3>7, NextCtl
    <3>9. QED
      BY <2>5, <3>8, Quiet DEF ContSeq
  <2>6. CASE ContRep
    <3> HIDE DEF c, rest
    <3>1. /\ c \in ContItem /\ rest \in Seq(ContItem)
          /\ c.node \in DOMAIN code /\ c.k \in Nat \ {0}
      BY <2>4, <2>6 DEF ContRep
    <3>2. /\ code[c.node].op = "Rep"
          /\ ctl' = IF ctl.pos = c.start THEN Settle(c.node, c.k, ctl.pos, rest)
                    ELSE RepStep(c.node, c.k, ctl.pos, rest)
      BY <2>6 DEF ContRep, c, rest
    <3>3. Settle(c.node, c.k, ctl.pos, rest) \in ContCtl \cup RetCtl
      BY <2>2, <3>1, SettleType
    <3>4. RepStep(c.node, c.k, ctl.pos, rest) \in RepCtl
          /\ RepStep(c.node, c.k, ctl.pos, rest).node = c.node
      BY <2>2, <3>1 DEF RepStep, RepCtl
    <3>5. CtlOK'
      BY <2>1, <3>2, <3>3, <3>4, NextCtl
    <3>6. QED
      BY <2>6, <3>5, Quiet DEF ContRep
  <2>7. QED
    BY <1>4, <2>3, <2>5, <2>6
<1>5. CASE RepTry
  <2>1. /\ ctl \in RepCtl /\ code[ctl.node].op = "Rep" /\ UNCHANGED code
        /\ visited = << >> /\ visited' = visited /\ depth' = depth
    BY <1>5, CtlShape DEF RepTry, NothingToUndo, inputVars
  <2>2. /\ ctl.node \in DOMAIN code /\ ctl.count \in Nat /\ ctl.pos \in Nat
        /\ ctl.cont \in Seq(ContItem)
        /\ code[ctl.node].kids[1] \in DOMAIN code
    BY <2>1 DEF RepCtl, CodeOK, NodeOK
  <2> DEFINE f == [fn |-> "rep", node |-> ctl.node, pos |-> ctl.pos,
                   cont |-> ctl.cont, mark |-> Len(visited), k |-> ctl.count]
  <2>3. f \in Frame /\ f.mark = 0 /\ f.fn = "rep" /\ code[f.node].op = "Rep"
    BY <2>1, <2>2 DEF Frame
  <2>4. StackOK' /\ OpenFrames' = OpenFrames
    <3>1. stack' = Append(stack, f)
      BY <1>5 DEF RepTry
    <3> HIDE DEF f
    <3>2. QED
      BY <2>1, <2>3, <3>1, Push
  <2>5. RepCont(ctl.node, ctl.count + 1, ctl.pos) \in ContItem
    BY <2>2 DEF RepCont, ContItem
  <2>6. <<RepCont(ctl.node, ctl.count + 1, ctl.pos)>> \o ctl.cont \in Seq(ContItem)
    BY <2>2, <2>5, ConsSeq
  <2>7. ctl' \in CallCtl
    BY <1>5, <2>2, <2>6 DEF RepTry, Call, CallCtl
  <2>8. CtlOK'
    BY <2>1, <2>7, NextCtl
  <2>9. CodeOK' /\ root' \in DOMAIN code' /\ input' \in Inputs
        /\ visited' \in Seq(DOMAIN code') /\ depth_exceeded' \in BOOLEAN
    BY <1>5 DEF RepTry, CodeOK, NodeOK, inputVars
  <2>10. QED
    BY <2>1, <2>4, <2>8, <2>9 DEF NothingToUndo, DepthIsOpenFrames
<1>6. CASE RepFull
  <2>1. ctl \in RepCtl /\ UNCHANGED code
    BY <1>6, CtlShape DEF RepFull, inputVars
  <2>2. Settle(ctl.node, ctl.count, ctl.pos, ctl.cont) \in ContCtl \cup RetCtl
    BY <2>1, SettleType DEF RepCtl
  <2>3. CtlOK'
    BY <1>6, <2>1, <2>2, NextCtl DEF RepFull
  <2>4. QED
    BY <1>6, <2>3, Quiet DEF RepFull
<1>7. CASE CloseTrue
  <2>1. UNCHANGED <<code, ctl, root, input, depth_exceeded>> /\ stack # << >>
        /\ stack' = Below /\ ctl.op = "ok"
    BY <1>7 DEF CloseTrue, inputVars
  <2>2. Top \in Frame
    BY <2>1, FrontSeq DEF StackOK, Top
  <2>3. StackOK'
    BY <2>1, Pop
  <2>4. CtlOK' /\ CodeOK'
    BY <2>1 DEF CtlOK, CodeOK, NodeOK, CallCtl, ContCtl, RepCtl, RetCtl, ContItem
  <2>5. CASE Top.fn = "m"
    <3>1. depth' = depth - 1 /\ visited' = Append(visited, Top.node)
      BY <1>7, <2>5 DEF CloseTrue
    <3>2. visited' \in Seq(DOMAIN code')
      BY <2>1, <2>2, <3>1 DEF Frame
    <3>3. DepthIsOpenFrames' /\ depth' \in Nat
      BY <2>1, <2>5, <3>1, Pop, DepthAssumption DEF DepthIsOpenFrames
    <3>4. QED
      BY <2>1, <2>3, <2>4, <3>2, <3>3 DEF NothingToUndo
  <2>6. CASE Top.fn # "m"
    <3>1. depth' = depth /\ visited' = visited /\ Top.fn = "rep"
      BY <1>7, <2>2, <2>6 DEF CloseTrue, Frame
    <3>2. OpenFrames' = OpenFrames
      BY <2>1, <3>1, Pop
    <3>3. QED
      BY <2>1, <2>3, <2>4, <3>1, <3>2 DEF NothingToUndo, DepthIsOpenFrames
  <2>7. QED
    BY <2>5, <2>6
<1>8. CASE NextBranch \/ SkipOpt
  <2>1. /\ ctl.op = "fail" /\ stack # << >> /\ visited' = Truncated
        /\ UNCHANGED <<code, root, input, depth, depth_exceeded>>
    BY <1>8 DEF NextBranch, SkipOpt, inputVars
  <2>2. Truncated = << >> /\ visited = << >> /\ Top \in Frame
    BY <2>1, TruncatedEmpty
  <2>3. /\ Top.node \in DOMAIN code /\ Top.pos \in Nat /\ Top.k \in Nat
        /\ Top.cont \in Seq(ContItem)
        /\ code[Top.node].kids \in Seq(DOMAIN code)
    BY <2>2 DEF Frame, CodeOK, NodeOK
  <2>4. \E k \in Nat : stack' = [stack EXCEPT ![Len(stack)].k = k]
    <3>1. CASE NextBranch
      <4>1. stack' = [stack EXCEPT ![Len(stack)].k = Top.k + 1]
        BY <3>1 DEF NextBranch, Top
      <4>2. Top.k + 1 \in Nat
        BY <2>3
      <4>3. QED
        BY <4>1, <4>2
    <3>2. CASE SkipOpt
      BY <3>2 DEF SkipOpt
    <3>3. QED
      BY <1>8, <3>1, <3>2
  <2>5. StackOK' /\ OpenFrames' = OpenFrames
    BY <2>1, <2>4, Retry
  <2>6. ctl' \in CallCtl \cup ContCtl
    <3>1. CASE NextBranch
      BY <2>3, <3>1 DEF NextBranch, HasBranch, Call, CallCtl
    <3>2. CASE SkipOpt
      BY <2>3, <3>2 DEF SkipOpt, RunCont, ContCtl
    <3>3. QED
      BY <1>8, <3>1, <3>2
  <2>7. CtlOK'
    BY <2>1, <2>6, NextCtl
  <2>8. CodeOK' /\ << >> \in Seq(DOMAIN code')
    BY <2>1 DEF CodeOK, NodeOK
  <2>9. QED
    BY <2>1, <2>2, <2>5, <2>7, <2>8 DEF NothingToUndo, DepthIsOpenFrames
<1>9. CASE RepBack
  <2>1. /\ ctl.op = "fail" /\ stack # << >> /\ visited' = Truncated /\ Top.fn = "rep"
        /\ stack' = Below
        /\ UNCHANGED <<code, root, input, depth, depth_exceeded>>
        /\ ctl' = Settle(Top.node, Top.k, Top.pos, Top.cont)
    BY <1>9 DEF RepBack, inputVars
  <2>2. Truncated = << >> /\ visited = << >> /\ Top \in Frame
    BY <2>1, TruncatedEmpty
  <2>3. StackOK' /\ OpenFrames' = OpenFrames
    BY <2>1, Pop
  <2>4. ctl' \in ContCtl \cup RetCtl
    BY <2>1, <2>2, SettleType DEF Frame
  <2>5. CtlOK'
    BY <2>1, <2>4, NextCtl
  <2>6. CodeOK' /\ << >> \in Seq(DOMAIN code')
    BY <2>1 DEF CodeOK, NodeOK
  <2>7. QED
    BY <2>1, <2>2, <2>3, <2>5, <2>6 DEF NothingToUndo, DepthIsOpenFrames
<1>10. CASE CloseFalse
  <2>1. /\ ctl.op = "fail" /\ stack # << >> /\ visited' = Truncated /\ Top.fn = "m"
        /\ stack' = Below /\ depth' = depth - 1
        /\ UNCHANGED <<code, root, input, ctl, depth_exceeded>>
    BY <1>10 DEF CloseFalse, inputVars
  <2>2. Truncated = << >> /\ visited = << >>
    BY <2>1, TruncatedEmpty
  <2>3. StackOK' /\ DepthIsOpenFrames' /\ depth' \in Nat
    BY <2>1, Pop, DepthAssumption DEF DepthIsOpenFrames
  <2>4. CtlOK' /\ CodeOK' /\ << >> \in Seq(DOMAIN code')
    BY <2>1 DEF CtlOK, CodeOK, NodeOK, CallCtl, ContCtl, RepCtl, RetCtl, ContItem
  <2>5. QED
    BY <2>1, <2>2, <2>3, <2>4 DEF NothingToUndo
<1>11. QED
  BY <1>1, <1>2, <1>3, <1>4, <1>5, <1>6, <1>7, <1>8, <1>9, <1>10 DEF Next

\* Every reachable state of the recognizer is type-correct, it credits nothing
\* before it has accepted the input, and its depth counter is the number of open
\* frames and within the bound.
THEOREM TypeCorrect == Spec => []TypeOK
<1>1. TInv => TypeOK
  BY TInvTypeOK
<1>2. QED
  BY <1>1, TInvInit, TInvNext, PTL DEF Spec

THEOREM CreditsOnlyWhenAccepted == Spec => []NothingToUndo
<1>1. TInv => NothingToUndo
  BY DEF TInv
<1>2. QED
  BY <1>1, TInvInit, TInvNext, PTL DEF Spec

THEOREM DepthBounded == Spec => []DepthIsOpenFrames
<1>1. TInv => DepthIsOpenFrames
  BY DEF TInv
<1>2. QED
  BY <1>1, TInvInit, TInvNext, PTL DEF Spec
-----------------------------------------------------------------------------
(***************************************************************************)
(* The node-hit invariant of the recognizer, for every grammar, input and  *)
(* depth bound: what a matched input credits is closed under derivation.   *)
(*                                                                         *)
(* The argument follows the call frames.  While the matcher runs, every    *)
(* open frame of m has what it needs either in the frames above it (they   *)
(* are credited when the call returns true) or still pending in the        *)
(* continuation.  When a branch fails the frames above it go, and the      *)
(* continuation saved in the frame is what was pending when it was opened. *)
(***************************************************************************)
\* The nodes of the open frames of m above frame i, up to frame t.
Above(s, i, t) == {s[j].node : j \in {l \in (i + 1)..t : s[l].fn = "m"}}

\* Frame t is the first rep_step of the repetition frame i has just entered:
\* nothing has been matched for frame i yet.
Fresh(s, i, t) == s[t].fn = "rep" /\ s[t].k = 0 /\ i = t - 1

\* When the work above frame t is given up, the frames below are covered.
Prefixes(table, s) ==
    \A t \in 1..Len(s) :
        /\ \A i \in 1..(t - 1) :
              s[i].fn = "m" /\ ~ Fresh(s, i, t)
                => Covered(table, s[i].node, Above(s, i, t), s[t].cont)
        /\ s[t].fn = "rep" /\ s[t].k = 0 => t > 1 /\ s[t - 1].node = s[t].node

\* Every frame up to t is covered by the frames above it, X and cont.
AllCovered(table, s, t, X, cont) ==
    \A i \in 1..t : s[i].fn = "m" =>
        Covered(table, s[i].node, Above(s, i, Len(s)) \cup X, cont)

NowCovered ==
    LET top == Len(stack)
    IN  /\ ctl.op = "m"    => AllCovered(code, stack, top, {ctl.node}, ctl.cont)
        /\ ctl.op = "cont" => AllCovered(code, stack, top, {}, ctl.cont)
        /\ ctl.op = "rep"  => IF ctl.count = 0
                              THEN /\ AllCovered(code, stack, top - 1, {}, ctl.cont)
                                   /\ top > 0 /\ stack[top].node = ctl.node
                              ELSE AllCovered(code, stack, top, {}, ctl.cont)
        /\ ctl.op = "ok"   => /\ AllCovered(code, stack, top, VisitedNodes, << >>)
                              /\ \A v \in VisitedNodes : Covered(code, v, VisitedNodes, << >>)

\* The first frame is the root's.
RootFirst ==
    /\ stack # << >> => stack[1].node = root /\ stack[1].fn = "m"
    /\ stack = << >> => \/ ctl.op = "m" /\ ctl.node = root
                        \/ ctl.op = "fail"
                        \/ ctl.op = "ok" /\ root \in VisitedNodes

HInv == TInv /\ Prefixes(code, stack) /\ NowCovered /\ RootFirst
-----------------------------------------------------------------------------
(***************************************************************************)
(* Covered: more nodes and more continuation can only help; running a      *)
(* continuation item trades it for the node it starts.                     *)
(***************************************************************************)
LEMMA CoveredMono ==
    ASSUME NEW table, NEW n, NEW X, NEW Y, NEW cont, X \subseteq Y,
           Covered(table, n, X, cont)
    PROVE  Covered(table, n, Y, cont)
BY DEF Covered

LEMMA CoveredCons ==
    ASSUME NEW table, NEW n, NEW X, NEW S, NEW c \in S, NEW cont \in Seq(S),
           Covered(table, n, X, cont)
    PROVE  Covered(table, n, X, <<c>> \o cont)
<1>1. \A p \in 1..Len(cont) : /\ p + 1 \in 1..Len(<<c>> \o cont)
                              /\ (<<c>> \o cont)[p + 1] = cont[p]
  OBVIOUS
<1>2. QED
  BY <1>1 DEF Covered

\* A continuation without its head c loses only what c stood for.
LEMMA CoveredTail ==
    ASSUME NEW table, NEW n, NEW X, NEW S, NEW cont \in Seq(S), cont # << >>,
           Covered(table, n, X, cont),
           \/ table[Head(cont).node].op # "Seq"
           \/ /\ Head(cont).k \in Nat
              /\ Len(table[Head(cont).node].kids) \in Nat
              /\ Head(cont).k > Len(table[Head(cont).node].kids)
    PROVE  Covered(table, n, X, Tail(cont))
<1>1. \A p \in 1..Len(cont) : \/ cont[p] = Head(cont)
                              \/ /\ p - 1 \in 1..Len(Tail(cont))
                                 /\ Tail(cont)[p - 1] = cont[p]
  OBVIOUS
<1>2. CASE table[n].op = "Seq"
  <2> SUFFICES ASSUME NEW j \in 1..Len(table[n].kids), table[n].kids[j] \notin X
               PROVE  \E c \in 1..Len(Tail(cont)) : Tail(cont)[c].node = n /\ Tail(cont)[c].k <= j
    BY <1>2 DEF Covered
  <2>1. PICK p \in 1..Len(cont) : cont[p].node = n /\ cont[p].k <= j
    BY <1>2 DEF Covered
  <2>2. cont[p] # Head(cont)
    BY <1>2, <2>1
  <2>3. QED
    BY <1>1, <2>1, <2>2
<1>3. CASE table[n].op # "Seq"
  BY <1>3 DEF Covered
<1>4. QED
  BY <1>2, <1>3

\* Cont::Seq moves on: child k of c.node starts, c.k + 1 on stays pending.
LEMMA CoveredAdvance ==
    ASSUME NEW table, NEW n, NEW X, NEW S, NEW cont \in Seq(S), cont # << >>,
           Covered(table, n, X, cont), NEW m, NEW k \in Nat, NEW e \in S,
           Head(cont).node = m, Head(cont).k = k, e.node = m, e.k = k + 1,
           Tail(cont) \in Seq(S)
    PROVE  Covered(table, n, X \cup {table[m].kids[k]}, <<e>> \o Tail(cont))
<1> DEFINE next == <<e>> \o Tail(cont)
<1>1. \A p \in 2..Len(cont) : p \in 1..Len(next) /\ next[p] = cont[p]
  OBVIOUS
<1>2. 1 \in 1..Len(next) /\ next[1] = e /\ cont[1] = Head(cont)
  OBVIOUS
<1>3. CASE table[n].op = "Seq"
  <2> HIDE DEF next
  <2> SUFFICES ASSUME NEW j \in 1..Len(table[n].kids),
                      table[n].kids[j] \notin X \cup {table[m].kids[k]}
               PROVE  \E c \in 1..Len(next) : next[c].node = n /\ next[c].k <= j
    BY <1>3 DEF Covered, next
  <2>1. PICK p \in 1..Len(cont) : cont[p].node = n /\ cont[p].k <= j
    BY <1>3 DEF Covered
  <2>2. CASE p = 1
    <3>1. n = m /\ k <= j /\ k # j
      BY <1>2, <2>1, <2>2
    <3>2. k + 1 <= j
      BY <3>1
    <3>3. QED
      BY <1>2, <3>1, <3>2
  <2>3. CASE p # 1
    BY <1>1, <2>1, <2>3
  <2>4. QED
    BY <2>2, <2>3
<1>4. CASE table[n].op # "Seq"
  BY <1>4 DEF Covered
<1>5. QED
  BY <1>3, <1>4
-----------------------------------------------------------------------------
(***************************************************************************)
(* Above and Prefixes when a frame is pushed or popped.                    *)
(***************************************************************************)
Credit(f) == IF f.fn = "m" THEN {f.node} ELSE {}

LEMMA AbovePush ==
    ASSUME NEW S, NEW s \in Seq(S), NEW f \in S
    PROVE  /\ \A i \in 1..Len(s) : Above(Append(s, f), i, Len(s) + 1)
                                     = Above(s, i, Len(s)) \cup Credit(f)
           /\ \A t \in 1..Len(s) : \A i \in 1..t : Above(Append(s, f), i, t) = Above(s, i, t)
<1> DEFINE s2 == Append(s, f)
           L == Len(s)
<1>1. /\ L \in Nat /\ Len(s2) = L + 1 /\ s2[L + 1] = f
      /\ \A i \in 1..L : s2[i] = s[i]
  BY PushSeq
<1> HIDE DEF s2, L
<1>2. ASSUME NEW t \in 1..L, NEW i \in 1..t
      PROVE  Above(s2, i, t) = Above(s, i, t)
  <2>1. \A j \in (i + 1)..t : s2[j] = s[j]
    BY <1>1, <1>2
  <2>2. QED
    BY <2>1 DEF Above
<1>3. ASSUME NEW i \in 1..L
      PROVE  Above(s2, i, L + 1) = Above(s, i, L) \cup Credit(f)
  <2>1. (i + 1)..(L + 1) = ((i + 1)..L) \cup {L + 1} /\ L + 1 \notin (i + 1)..L
    BY <1>1, <1>3
  <2>2. \A j \in (i + 1)..L : s2[j] = s[j]
    BY <1>1, <1>3
  <2>3. ASSUME NEW x
        PROVE  x \in Above(s2, i, L + 1) <=> x \in Above(s, i, L) \cup Credit(f)
    <3>1. x \in Above(s2, i, L + 1) <=> \E j \in (i + 1)..(L + 1) : s2[j].fn = "m" /\ x = s2[j].node
      BY DEF Above
    <3>2. x \in Above(s, i, L) <=> \E j \in (i + 1)..L : s[j].fn = "m" /\ x = s[j].node
      BY DEF Above
    <3>3. x \in Credit(f) <=> f.fn = "m" /\ x = f.node
      BY DEF Credit
    <3>4. QED
      BY <1>1, <2>1, <2>2, <3>1, <3>2, <3>3
  <2>4. QED
    BY <2>3
<1>4. QED
  BY <1>2, <1>3 DEF s2, L

LEMMA AboveSelf == \A s, t \in Nat : Above(s, t, t) = {}
BY DEF Above

\* Pushing frame f: the frames below must be covered by what stays above them.
LEMMA PrefixesPush ==
    ASSUME NEW table, NEW S, NEW s \in Seq(S), NEW f \in S, Prefixes(table, s),
           \A i \in 1..Len(s) :
              s[i].fn = "m" /\ ~ (f.fn = "rep" /\ f.k = 0 /\ i = Len(s))
                => Covered(table, s[i].node, Above(s, i, Len(s)) \cup Credit(f), f.cont),
           f.fn = "rep" /\ f.k = 0 => Len(s) > 0 /\ s[Len(s)].node = f.node
    PROVE  Prefixes(table, Append(s, f))
<1> DEFINE s2 == Append(s, f)
           L == Len(s)
<1>1. /\ L \in Nat /\ Len(s2) = L + 1 /\ s2[L + 1] = f
      /\ \A i \in 1..L : s2[i] = s[i]
  BY PushSeq
<1>2. /\ \A i \in 1..L : Above(s2, i, L + 1) = Above(s, i, L) \cup Credit(f)
      /\ \A t \in 1..L : \A i \in 1..t : Above(s2, i, t) = Above(s, i, t)
  BY AbovePush
<1>3. \A i \in 1..L :
         s[i].fn = "m" /\ ~ (f.fn = "rep" /\ f.k = 0 /\ i = L)
           => Covered(table, s[i].node, Above(s, i, L) \cup Credit(f), f.cont)
  OBVIOUS
<1>4. f.fn = "rep" /\ f.k = 0 => L > 0 /\ s[L].node = f.node
  OBVIOUS
<1> HIDE DEF s2, L
<1>5. ASSUME NEW t \in 1..(L + 1), NEW i \in 1..(t - 1), s2[i].fn = "m", ~ Fresh(s2, i, t)
      PROVE  Covered(table, s2[i].node, Above(s2, i, t), s2[t].cont)
  <2>1. CASE t = L + 1
    <3>1. i \in 1..L /\ i = t - 1 <=> i = L
      BY <1>1, <2>1
    <3>2. i \in 1..L /\ s2[i] = s[i] /\ s2[t] = f
      BY <1>1, <2>1
    <3>3. ~ (f.fn = "rep" /\ f.k = 0 /\ i = L)
      BY <1>1, <1>5, <2>1, <3>2 DEF Fresh
    <3>4. QED
      BY <1>2, <1>3, <1>5, <2>1, <3>2, <3>3
  <2>2. CASE t \in 1..L
    <3>1. i \in 1..L /\ s2[i] = s[i] /\ s2[t] = s[t]
      BY <1>1, <2>2
    <3>2. ~ Fresh(s, i, t)
      BY <1>5, <3>1 DEF Fresh
    <3>3. Covered(table, s[i].node, Above(s, i, t), s[t].cont)
      BY <1>5, <2>2, <3>1, <3>2 DEF Prefixes, L
    <3>4. i \in 1..t
      BY <1>1, <2>2
    <3>5. QED
      BY <1>2, <2>2, <3>1, <3>3, <3>4
  <2>3. QED
    BY <1>1, <2>1, <2>2
<1>6. ASSUME NEW t \in 1..(L + 1), s2[t].fn = "rep", s2[t].k = 0
      PROVE  t > 1 /\ s2[t - 1].node = s2[t].node
  <2>1. CASE t = L + 1
    BY <1>1, <1>4, <1>6, <2>1
  <2>2. CASE t \in 1..L
    <3>1. t > 1 /\ s[t - 1].node = s[t].node
      BY <1>1, <1>6, <2>2 DEF Prefixes, L
    <3>2. QED
      BY <1>1, <2>2, <3>1
  <2>3. QED
    BY <1>1, <2>1, <2>2
<1>7. QED
  BY <1>1, <1>5, <1>6 DEF Prefixes, s2

\* Popping the top frame.
LEMMA Unpush ==
    ASSUME NEW S, NEW s \in Seq(S), s # << >>
    PROVE  LET r == SubSeq(s, 1, Len(s) - 1)
           IN  r \in Seq(S) /\ s[Len(s)] \in S /\ s = Append(r, s[Len(s)])
<1> DEFINE r == SubSeq(s, 1, Len(s) - 1)
<1>1. /\ r \in Seq(S) /\ Len(r) = Len(s) - 1 /\ Len(s) \in Nat \ {0}
      /\ \A i \in 1..(Len(s) - 1) : r[i] = s[i]
      /\ s[Len(s)] \in S
  BY FrontSeq
<1> HIDE DEF r
<1>2. Append(r, s[Len(s)]) \in Seq(S) /\ Len(Append(r, s[Len(s)])) = Len(s)
  BY <1>1
<1>3. \A i \in 1..Len(s) : Append(r, s[Len(s)])[i] = s[i]
  BY <1>1
<1>4. s = Append(r, s[Len(s)])
  BY <1>2, <1>3, SeqEqual
<1>5. QED
  BY <1>1, <1>4 DEF r

LEMMA PrefixesPop ==
    ASSUME NEW table, NEW s, NEW r, Len(r) \in Nat, Len(s) = Len(r) + 1,
           \A i \in 1..Len(r) : r[i] = s[i], Prefixes(table, s)
    PROVE  Prefixes(table, r)
<1>1. \A t \in 1..Len(r) : \A i \in 1..t : Above(s, i, t) = Above(r, i, t)
  BY DEF Above
<1>2. ASSUME NEW t \in 1..Len(r), NEW i \in 1..(t - 1), r[i].fn = "m", ~ Fresh(r, i, t)
      PROVE  Covered(table, r[i].node, Above(r, i, t), r[t].cont)
  <2>1. t \in 1..Len(s) /\ r[i] = s[i] /\ r[t] = s[t] /\ ~ Fresh(s, i, t) /\ i \in 1..t
    BY <1>2 DEF Fresh
  <2>2. QED
    BY <1>1, <1>2, <2>1 DEF Prefixes
<1>3. ASSUME NEW t \in 1..Len(r), r[t].fn = "rep", r[t].k = 0
      PROVE  t > 1 /\ r[t - 1].node = r[t].node
  <2>1. t \in 1..Len(s) /\ r[t] = s[t]
    OBVIOUS
  <2>2. t > 1 /\ s[t - 1].node = s[t].node
    BY <1>3, <2>1 DEF Prefixes
  <2>3. QED
    BY <2>1, <2>2
<1>4. QED
  BY <1>2, <1>3 DEF Prefixes
-----------------------------------------------------------------------------
(***************************************************************************)
(* The steps of the machine.                                               *)
(***************************************************************************)
\* Covered frames stay covered when X grows or the continuation gets longer.
LEMMA AllCoveredMono ==
    ASSUME NEW table, NEW s, NEW t \in Nat, NEW u \in Nat, u <= t, NEW X, NEW Y, X \subseteq Y,
           NEW cont, AllCovered(table, s, t, X, cont)
    PROVE  AllCovered(table, s, u, Y, cont)
<1> SUFFICES ASSUME NEW i \in 1..u, s[i].fn = "m"
             PROVE  Covered(table, s[i].node, Above(s, i, Len(s)) \cup Y, cont)
  BY DEF AllCovered
<1>1. i \in 1..t
  OBVIOUS
<1>2. Covered(table, s[i].node, Above(s, i, Len(s)) \cup X, cont)
  BY <1>1 DEF AllCovered
<1>3. Above(s, i, Len(s)) \cup X \subseteq Above(s, i, Len(s)) \cup Y
  OBVIOUS
<1>4. QED
  BY <1>2, <1>3, CoveredMono

LEMMA AllCoveredCons ==
    ASSUME NEW table, NEW s, NEW t, NEW X, NEW S, NEW c \in S, NEW cont \in Seq(S),
           AllCovered(table, s, t, X, cont)
    PROVE  AllCovered(table, s, t, X, <<c>> \o cont)
BY CoveredCons DEF AllCovered

\* After entering node n with a frame of m, the frames below are covered ...
LEMMA EnteredBelow ==
    ASSUME NEW table, NEW S, NEW s \in Seq(S), NEW f \in S, f.fn = "m",
           AllCovered(table, s, Len(s), {f.node}, f.cont),
           NEW s2, s2 = Append(s, f)
    PROVE  AllCovered(table, s2, Len(s), {}, f.cont)
<1>1. /\ Len(s) \in Nat /\ Len(s2) = Len(s) + 1
      /\ \A i \in 1..Len(s) : s2[i] = s[i]
  BY PushSeq
<1>2. \A i \in 1..Len(s) : Above(s2, i, Len(s) + 1) = Above(s, i, Len(s)) \cup {f.node}
  BY AbovePush DEF Credit
<1> SUFFICES ASSUME NEW i \in 1..Len(s), s2[i].fn = "m"
             PROVE  Covered(table, s2[i].node, Above(s2, i, Len(s2)) \cup {}, f.cont)
  BY DEF AllCovered
<1>3. Above(s2, i, Len(s2)) \cup {} = Above(s, i, Len(s)) \cup {f.node}
  BY <1>1, <1>2
<1>4. Covered(table, s[i].node, Above(s, i, Len(s)) \cup {f.node}, f.cont)
  BY <1>1 DEF AllCovered
<1>5. QED
  BY <1>1, <1>3, <1>4

\* ... and so is the new frame, if what n asks for is in X or pending.
LEMMA EnteredTop ==
    ASSUME NEW table, NEW S, NEW s \in Seq(S), NEW f \in S,
           NEW s2, s2 = Append(s, f), NEW X, NEW cont,
           AllCovered(table, s2, Len(s), X, cont), Covered(table, f.node, X, cont)
    PROVE  AllCovered(table, s2, Len(s2), X, cont)
<1>1. Len(s) \in Nat /\ Len(s2) = Len(s) + 1 /\ s2[Len(s) + 1] = f
  BY PushSeq
<1> SUFFICES ASSUME NEW i \in 1..Len(s2), s2[i].fn = "m"
             PROVE  Covered(table, s2[i].node, Above(s2, i, Len(s2)) \cup X, cont)
  BY DEF AllCovered
<1>2. CASE i = Len(s) + 1
  <2>1. X \subseteq Above(s2, i, Len(s2)) \cup X
    OBVIOUS
  <2>2. QED
    BY <1>1, <1>2, <2>1, CoveredMono
<1>3. CASE i # Len(s) + 1
  <2>1. i \in 1..Len(s)
    BY <1>1, <1>3
  <2>2. QED
    BY <2>1 DEF AllCovered
<1>4. QED
  BY <1>2, <1>3

\* Giving up the top frame uncovers nothing below it.
LEMMA Abandoned ==
    ASSUME NEW table, NEW s, NEW t, t = Len(s), t \in Nat, t > 0, Prefixes(table, s),
           NEW X, s[t].fn = "rep" => s[t].k # 0
    PROVE  AllCovered(table, s, t - 1, X, s[t].cont)
<1> SUFFICES ASSUME NEW i \in 1..(t - 1), s[i].fn = "m"
             PROVE  Covered(table, s[i].node, Above(s, i, Len(s)) \cup X, s[t].cont)
  BY DEF AllCovered
<1>1. Covered(table, s[i].node, Above(s, i, t), s[t].cont)
  BY DEF Prefixes, Fresh
<1>2. QED
  BY <1>1, CoveredMono
-----------------------------------------------------------------------------
LEMMA HInvInit == Init => HInv
<1> SUFFICES ASSUME Init PROVE HInv
  OBVIOUS
<1>1. TInv
  BY TInvInit
<1>2. stack = << >> /\ ctl = Call(root, 0, << >>)
  BY DEF Init
<1>3. Prefixes(code, stack) /\ RootFirst
  BY <1>2 DEF Prefixes, RootFirst, Call
<1>4. NowCovered
  BY <1>2 DEF NowCovered, AllCovered, Call
<1>5. QED
  BY <1>1, <1>3, <1>4 DEF HInv

LEMMA InputConstant == [Next]_vars => UNCHANGED inputVars
BY DEF Next, vars, inputVars, Refuse, Enter, EnterPass, EnterTerm, EnterSeq, EnterAlt,
       EnterOpt, EnterRep, Open, ContDone, ContSeq, ContRep, RepTry, RepFull, CloseTrue,
       NextBranch, SkipOpt, RepBack, CloseFalse

\* What the next control record makes NowCovered ask for.
LEMMA NowCall ==
    ASSUME NEW n, NEW pos, NEW cont, ctl' = Call(n, pos, cont), UNCHANGED code,
           AllCovered(code, stack', Len(stack'), {n}, cont)
    PROVE  NowCovered'
BY DEF NowCovered, Call

LEMMA NowCont ==
    ASSUME NEW pos, NEW cont, ctl' = RunCont(cont, pos), UNCHANGED code,
           AllCovered(code, stack', Len(stack'), {}, cont)
    PROVE  NowCovered'
BY DEF NowCovered, RunCont

LEMMA NowFail == ctl'.op = "fail" => NowCovered'
BY DEF NowCovered

\* Entering a node: the frames below keep their cover, whatever comes next.
LEMMA EnterFrame ==
    ASSUME HInv, NEW op, NEW more \in Nat, Open(op, more)
    PROVE  /\ \E f \in Frame : /\ f.fn = "m" /\ f.node = ctl.node /\ f.cont = ctl.cont
                               /\ stack' = Append(stack, f)
           /\ code[ctl.node].op = op /\ UNCHANGED inputVars
           /\ Prefixes(code, stack')
           /\ AllCovered(code, stack', Len(stack), {}, ctl.cont)
           /\ RootFirst'
           /\ Len(stack') = Len(stack) + 1 /\ Len(stack) \in Nat
           /\ ctl.node \in DOMAIN code /\ ctl.cont \in Seq(ContItem)
<1> DEFINE f == [fn |-> "m", node |-> ctl.node, pos |-> ctl.pos,
                 cont |-> ctl.cont, mark |-> Len(visited), k |-> more]
<1>1. /\ ctl \in CallCtl /\ ctl.op = "m" /\ stack' = Append(stack, f)
      /\ UNCHANGED inputVars /\ code[ctl.node].op = op
      /\ stack \in Seq(Frame) /\ Len(stack) \in Nat
  BY CtlShape DEF HInv, TInv, Open, StackOK
<1>2. f \in Frame /\ f.fn = "m" /\ f.node = ctl.node /\ f.cont = ctl.cont
  <2>1. Len(visited) \in Nat
    BY DEF HInv, TInv
  <2>2. QED
    BY <1>1, <2>1 DEF Frame, CallCtl
<1>3. AllCovered(code, stack, Len(stack), {f.node}, f.cont)
  BY <1>1, <1>2 DEF HInv, NowCovered
<1> HIDE DEF f
<1>4. Prefixes(code, Append(stack, f))
  <2>1. \A i \in 1..Len(stack) : stack[i].fn = "m" =>
           Covered(code, stack[i].node, Above(stack, i, Len(stack)) \cup Credit(f), f.cont)
    BY <1>2, <1>3 DEF AllCovered, Credit
  <2>2. Prefixes(code, stack)
    BY DEF HInv
  <2>3. QED
    BY <1>1, <1>2, <2>1, <2>2, PrefixesPush
<1>5. AllCovered(code, stack', Len(stack), {}, f.cont)
  BY <1>1, <1>2, <1>3, EnteredBelow
<1>6. /\ Len(stack') = Len(stack) + 1
      /\ \A i \in 1..Len(stack) : stack'[i] = stack[i]
      /\ stack'[Len(stack) + 1] = f
  BY <1>1, <1>2, PushSeq
<1>7. RootFirst'
  <2>1. stack' # << >> /\ root' = root
    BY <1>1, <1>6 DEF inputVars
  <2>2. CASE stack = << >>
    <3>1. stack'[1] = f /\ ctl.node = root
      BY <1>1, <1>6, <2>2 DEF HInv, RootFirst
    <3>2. QED
      BY <1>2, <2>1, <3>1 DEF RootFirst
  <2>3. CASE stack # << >>
    <3>1. 1 \in 1..Len(stack)
      BY <1>1, <2>3
    <3>2. stack'[1] = stack[1]
      BY <1>6, <3>1
    <3>3. QED
      BY <2>1, <2>3, <3>2 DEF HInv, RootFirst
  <2>4. QED
    BY <2>2, <2>3
<1>8. ctl.node \in DOMAIN code /\ ctl.cont \in Seq(ContItem)
  BY <1>1 DEF CallCtl
<1>9. QED
  BY <1>1, <1>2, <1>4, <1>5, <1>6, <1>7, <1>8

\* Entering, then calling a child: X = {kid}; entering, then going on: X = {}.
LEMMA EnterThen ==
    ASSUME HInv, NEW op, NEW more \in Nat, Open(op, more), NEW X, NEW cont,
           Covered(code, ctl.node, X, cont),
           AllCovered(code, stack', Len(stack), X, cont)
    PROVE  AllCovered(code, stack', Len(stack'), X, cont)
<1>1. PICK f \in Frame : f.node = ctl.node /\ stack' = Append(stack, f)
  BY EnterFrame
<1>2. stack \in Seq(Frame)
  BY DEF HInv, TInv, StackOK
<1>3. QED
  BY <1>1, <1>2, EnteredTop
-----------------------------------------------------------------------------
\* Frames only change their k when a branch is retried.
LEMMA Rekey ==
    ASSUME NEW table, NEW s, NEW s2, Len(s) \in Nat \ {0}, Len(s2) = Len(s),
           \A i \in 1..Len(s) : /\ s2[i].fn = s[i].fn /\ s2[i].node = s[i].node
                                /\ s2[i].cont = s[i].cont
                                /\ s2[i].fn = "rep" => s2[i].k = s[i].k,
           Prefixes(table, s)
    PROVE  Prefixes(table, s2)
<1>1. Len(s2) = Len(s) /\ Len(s) \in Nat \ {0}
  OBVIOUS
<1>3. \A i \in 1..Len(s) : /\ s2[i].fn = s[i].fn /\ s2[i].node = s[i].node
                           /\ s2[i].cont = s[i].cont
                           /\ s2[i].fn = "rep" => s2[i].k = s[i].k
  OBVIOUS
<1>4. \A i \in 1..Len(s) : \A t \in 1..Len(s) : Above(s2, i, t) = Above(s, i, t)
  BY <1>1, <1>3 DEF Above
<1>5. Prefixes(table, s2)
  <2>1. ASSUME NEW t \in 1..Len(s2), NEW i \in 1..(t - 1), s2[i].fn = "m", ~ Fresh(s2, i, t)
        PROVE  Covered(table, s2[i].node, Above(s2, i, t), s2[t].cont)
    <3>1. t \in 1..Len(s) /\ i \in 1..Len(s)
      BY <1>1
    <3>2. s[i].fn = "m" /\ ~ Fresh(s, i, t)
      BY <1>3, <2>1, <3>1 DEF Fresh
    <3>3. Covered(table, s[i].node, Above(s, i, t), s[t].cont)
      BY <3>1, <3>2 DEF Prefixes
    <3>4. QED
      BY <1>3, <1>4, <3>1, <3>3
  <2>2. ASSUME NEW t \in 1..Len(s2), s2[t].fn = "rep", s2[t].k = 0
        PROVE  t > 1 /\ s2[t - 1].node = s2[t].node
    <3>1. t \in 1..Len(s) /\ s[t].fn = "rep" /\ s[t].k = 0
      BY <1>1, <1>3, <2>2
    <3>2. t > 1 /\ s[t - 1].node = s[t].node
      BY <3>1 DEF Prefixes
    <3>3. t - 1 \in 1..Len(s)
      BY <3>1, <3>2
    <3>4. QED
      BY <1>3, <3>1, <3>2, <3>3
  <2>3. QED
    BY <2>1, <2>2 DEF Prefixes
<1>6. QED
  BY <1>5

\* A retried frame: what was below stays covered, the frame itself by X.
LEMMA Retried ==
    ASSUME NEW table, NEW s \in Seq(Frame), s # << >>, s[Len(s)].fn = "m", Prefixes(table, s),
           NEW X, Covered(table, s[Len(s)].node, X, s[Len(s)].cont)
    PROVE  AllCovered(table, s, Len(s), X, s[Len(s)].cont)
<1>1. Len(s) \in Nat /\ Len(s) > 0
  OBVIOUS
<1>2. AllCovered(table, s, Len(s) - 1, X, s[Len(s)].cont)
  BY <1>1, Abandoned
<1> SUFFICES ASSUME NEW i \in 1..Len(s), s[i].fn = "m"
             PROVE  Covered(table, s[i].node, Above(s, i, Len(s)) \cup X, s[Len(s)].cont)
  BY DEF AllCovered
<1>3. CASE i = Len(s)
  <2>1. X \subseteq Above(s, i, Len(s)) \cup X
    OBVIOUS
  <2>2. QED
    BY <1>3, <2>1, CoveredMono
<1>4. CASE i # Len(s)
  <2>1. i \in 1..(Len(s) - 1)
    BY <1>1, <1>4
  <2>2. QED
    BY <1>2, <2>1 DEF AllCovered
<1>5. QED
  BY <1>3, <1>4
-----------------------------------------------------------------------------
\* Entering a node.
LEMMA HInvEnter == ASSUME HInv, Enter PROVE Prefixes(code', stack') /\ RootFirst' /\ NowCovered'
<1> DEFINE n == ctl.node
           kids == code[n].kids
<1>1. CASE EnterPass
  <2>1. Open("Pass", 0) /\ ctl' = Call(kids[1], ctl.pos, ctl.cont)
    BY <1>1 DEF EnterPass
  <2>2. /\ Prefixes(code, stack') /\ RootFirst' /\ UNCHANGED code
        /\ AllCovered(code, stack', Len(stack), {}, ctl.cont) /\ Len(stack) \in Nat
        /\ code[n].op = "Pass"
    BY <2>1, EnterFrame DEF inputVars
  <2>3. AllCovered(code, stack', Len(stack), {kids[1]}, ctl.cont)
    BY <2>2, AllCoveredMono
  <2>4. Covered(code, n, {kids[1]}, ctl.cont)
    BY <2>2 DEF Covered
  <2>5. AllCovered(code, stack', Len(stack'), {kids[1]}, ctl.cont)
    BY <2>1, <2>3, <2>4, EnterThen
  <2> HIDE DEF kids
  <2>6. QED
    BY <2>1, <2>2, <2>5, NowCall
<1>2. CASE EnterTerm
  <2>1. Open("Term", 0)
    BY <1>2 DEF EnterTerm
  <2>2. /\ Prefixes(code, stack') /\ RootFirst' /\ UNCHANGED code
        /\ AllCovered(code, stack', Len(stack), {}, ctl.cont)
        /\ code[n].op = "Term"
    BY <2>1, EnterFrame DEF inputVars
  <2>3. Covered(code, n, {}, ctl.cont)
    BY <2>2 DEF Covered
  <2>4. AllCovered(code, stack', Len(stack'), {}, ctl.cont)
    BY <2>1, <2>2, <2>3, EnterThen
  <2>5. ctl'.op = "fail" \/ \E np : ctl' = RunCont(ctl.cont, np)
    BY <1>2 DEF EnterTerm, ReturnFalse
  <2>6. QED
    BY <2>2, <2>4, <2>5, NowCont, NowFail
<1>3. CASE EnterSeq
  <2>1. /\ Open("Seq", 0)
        /\ ctl' = IF kids = << >> THEN RunCont(ctl.cont, ctl.pos)
                  ELSE Call(kids[1], ctl.pos, <<SeqCont(n, 2)>> \o ctl.cont)
    BY <1>3 DEF EnterSeq
  <2>2. /\ Prefixes(code, stack') /\ RootFirst' /\ UNCHANGED code
        /\ AllCovered(code, stack', Len(stack), {}, ctl.cont) /\ Len(stack) \in Nat
        /\ code[n].op = "Seq" /\ n \in DOMAIN code /\ ctl.cont \in Seq(ContItem)
    BY <2>1, EnterFrame DEF inputVars
  <2>3. kids \in Seq(DOMAIN code)
    BY <2>2 DEF HInv, TInv, CodeOK, NodeOK
  <2>4. CASE kids = << >>
    <3>1. Covered(code, n, {}, ctl.cont)
      BY <2>2, <2>4 DEF Covered
    <3>2. AllCovered(code, stack', Len(stack'), {}, ctl.cont)
      BY <2>1, <2>2, <3>1, EnterThen
    <3>3. ctl' = RunCont(ctl.cont, ctl.pos)
      BY <2>1, <2>4
    <3>4. QED
      BY <2>2, <3>2, <3>3, NowCont
  <2>5. CASE kids # << >>
    <3> DEFINE c == SeqCont(n, 2)
               next == <<c>> \o ctl.cont
               kid == kids[1]
    <3>1. c \in ContItem /\ c.node = n /\ c.k = 2
      BY <2>2 DEF SeqCont, ContItem
    <3>2. 1 \in 1..Len(next) /\ next[1] = c
      <4> HIDE DEF c
      <4>1. QED
        BY <2>2, <3>1
    <3>3. Covered(code, n, {kid}, next)
      <4> HIDE DEF c, next, kid
      <4>1. \A j \in 1..Len(kids) : j = 1 \/ 2 <= j
        BY <2>3
      <4>2. \A j \in 1..Len(kids) : \/ kids[j] \in {kid}
                                    \/ \E q \in 1..Len(next) : next[q].node = n /\ next[q].k <= j
        BY <3>1, <3>2, <4>1 DEF kid
      <4>3. QED
        BY <2>2, <4>2 DEF Covered
    <3>4. AllCovered(code, stack', Len(stack), {kid}, ctl.cont)
      <4> HIDE DEF kid
      <4>1. QED
        BY <2>2, AllCoveredMono
    <3>5. AllCovered(code, stack', Len(stack), {kid}, next)
      <4> HIDE DEF c, kid
      <4>1. QED
        BY <2>2, <3>1, <3>4, AllCoveredCons
    <3>6. ctl' = Call(kid, ctl.pos, next)
      BY <2>1, <2>5
    <3> HIDE DEF c, next, kid
    <3>7. AllCovered(code, stack', Len(stack'), {kid}, next)
      BY <2>1, <3>3, <3>5, EnterThen
    <3>8. QED
      BY <2>2, <3>6, <3>7, NowCall
  <2>6. QED
    BY <2>4, <2>5
<1>4. CASE EnterAlt
  <2>1. /\ Open("Alt", 1)
        /\ ctl' = IF kids = << >> THEN ReturnFalse ELSE Call(kids[1], ctl.pos, ctl.cont)
    BY <1>4 DEF EnterAlt
  <2>2. /\ Prefixes(code, stack') /\ RootFirst' /\ UNCHANGED code
        /\ AllCovered(code, stack', Len(stack), {}, ctl.cont) /\ Len(stack) \in Nat
        /\ code[n].op = "Alt" /\ n \in DOMAIN code
    BY <2>1, EnterFrame DEF inputVars
  <2>3. CASE kids = << >>
    BY <2>1, <2>2, <2>3, NowFail DEF ReturnFalse
  <2>4. CASE kids # << >>
    <3>1. kids \in Seq(DOMAIN code)
      BY <2>2 DEF HInv, TInv, CodeOK, NodeOK
    <3>2. 1 \in 1..Len(kids)
      BY <2>4, <3>1
    <3>3. Covered(code, n, {kids[1]}, ctl.cont)
      BY <2>2, <3>2 DEF Covered
    <3>4. AllCovered(code, stack', Len(stack), {kids[1]}, ctl.cont)
      BY <2>2, AllCoveredMono
    <3>5. AllCovered(code, stack', Len(stack'), {kids[1]}, ctl.cont)
      BY <2>1, <3>3, <3>4, EnterThen
    <3>6. ctl' = Call(kids[1], ctl.pos, ctl.cont)
      BY <2>1, <2>4
    <3> HIDE DEF kids
    <3>7. QED
      BY <2>2, <3>5, <3>6, NowCall
  <2>5. QED
    BY <2>3, <2>4
<1>5. CASE EnterOpt
  <2>1. Open("Opt", 1) /\ ctl' = Call(kids[1], ctl.pos, ctl.cont)
    BY <1>5 DEF EnterOpt
  <2>2. /\ Prefixes(code, stack') /\ RootFirst' /\ UNCHANGED code
        /\ AllCovered(code, stack', Len(stack), {}, ctl.cont) /\ Len(stack) \in Nat
        /\ code[n].op = "Opt"
    BY <2>1, EnterFrame DEF inputVars
  <2>3. AllCovered(code, stack', Len(stack), {kids[1]}, ctl.cont)
    BY <2>2, AllCoveredMono
  <2>4. Covered(code, n, {kids[1]}, ctl.cont)
    BY <2>2 DEF Covered
  <2>5. AllCovered(code, stack', Len(stack'), {kids[1]}, ctl.cont)
    BY <2>1, <2>3, <2>4, EnterThen
  <2> HIDE DEF kids
  <2>6. QED
    BY <2>1, <2>2, <2>5, NowCall
<1>6. CASE EnterRep
  <2>1. Open("Rep", 0) /\ ctl' = RepStep(n, 0, ctl.pos, ctl.cont)
    BY <1>6 DEF EnterRep
  <2>2. /\ Prefixes(code, stack') /\ RootFirst' /\ UNCHANGED code
        /\ AllCovered(code, stack', Len(stack), {}, ctl.cont)
        /\ Len(stack') = Len(stack) + 1 /\ Len(stack) \in Nat
    BY <2>1, EnterFrame DEF inputVars
  <2>3. stack'[Len(stack) + 1].node = n
    <3>1. PICK f \in Frame : f.node = n /\ stack' = Append(stack, f)
      BY <2>1, EnterFrame
    <3>2. stack \in Seq(Frame)
      BY DEF HInv, TInv, StackOK
    <3>3. QED
      BY <3>1, <3>2, PushSeq
  <2>4. Len(stack') - 1 = Len(stack) /\ Len(stack') > 0
    BY <2>2
  <2>5. QED
    BY <2>1, <2>2, <2>3, <2>4 DEF NowCovered, RepStep
<1>7. QED
  BY <1>1, <1>2, <1>3, <1>4, <1>5, <1>6 DEF Enter

\* Running a continuation.
LEMMA HInvCont ==
    ASSUME HInv, ContDone \/ ContSeq \/ ContRep
    PROVE  Prefixes(code', stack') /\ RootFirst' /\ NowCovered'
<1> DEFINE c == Head(ctl.cont)
           rest == Tail(ctl.cont)
<1>1. /\ ctl.op = "cont" /\ UNCHANGED <<code, root, stack, visited>>
      /\ ctl \in ContCtl /\ stack \in Seq(Frame)
  BY CtlShape DEF HInv, TInv, StackOK, ContDone, ContSeq, ContRep, inputVars
<1>2. Prefixes(code', stack') /\ stack # << >>
  BY <1>1 DEF HInv, RootFirst
<1>3. RootFirst'
  BY <1>1, <1>2 DEF HInv, RootFirst
<1>4. AllCovered(code, stack, Len(stack), {}, ctl.cont) /\ Len(stack) \in Nat
  BY <1>1 DEF HInv, NowCovered
<1>5. CASE ContDone
  <2>1. ctl.cont = << >> /\ (ctl' = ReturnTrue \/ ctl' = ReturnFalse)
    BY <1>5 DEF ContDone
  <2>2. visited' = << >>
    BY <1>1 DEF HInv, TInv, NothingToUndo
  <2>3. VisitedNodes' = {}
    BY <2>2 DEF VisitedNodes
  <2>4. AllCovered(code', stack', Len(stack'), VisitedNodes', << >>)
    BY <1>1, <1>4, <2>1, <2>3
  <2>5. NowCovered'
    BY <2>1, <2>3, <2>4 DEF NowCovered, ReturnTrue, ReturnFalse
  <2>6. QED
    BY <1>2, <1>3, <2>5
<1>6. ASSUME ctl.cont # << >>
      PROVE  /\ c \in ContItem /\ rest \in Seq(ContItem) /\ ctl.cont \in Seq(ContItem)
             /\ c.node \in DOMAIN code /\ c.k \in Nat \ {0} /\ code[c.node].kids \in Seq(DOMAIN code)
  <2>1. ctl.cont \in Seq(ContItem)
    BY <1>1 DEF ContCtl
  <2>2. c \in ContItem /\ rest \in Seq(ContItem)
    BY <1>6, <2>1, TailSeq
  <2>3. QED
    BY <2>1, <2>2 DEF ContItem, HInv, TInv, CodeOK, NodeOK
<1>7. CASE ContSeq
  <2>1. /\ ctl.cont # << >>
        /\ ctl' = IF c.k > Len(code[c.node].kids) THEN RunCont(rest, ctl.pos)
                  ELSE Call(code[c.node].kids[c.k], ctl.pos, <<SeqCont(c.node, c.k + 1)>> \o rest)
    BY <1>7 DEF ContSeq
  <2>2. CASE c.k > Len(code[c.node].kids)
    <3>1. AllCovered(code, stack, Len(stack), {}, rest)
      <4>1. Len(code[c.node].kids) \in Nat /\ c.k \in Nat
        BY <1>6, <2>1
      <4>2. QED
        BY <1>4, <1>6, <2>1, <2>2, <4>1, CoveredTail DEF AllCovered
    <3>2. ctl' = RunCont(rest, ctl.pos)
      BY <2>1, <2>2
    <3> HIDE DEF rest
    <3>3. QED
      BY <1>1, <1>2, <1>3, <3>1, <3>2, NowCont
  <2>3. CASE ~ (c.k > Len(code[c.node].kids))
    <3> DEFINE e == SeqCont(c.node, c.k + 1)
               kid == code[c.node].kids[c.k]
    <3>1. e \in ContItem /\ e.node = c.node /\ e.k = c.k + 1
      <4> HIDE DEF c
      <4>1. QED
        BY <1>6, <2>1 DEF SeqCont, ContItem
    <3>2. AllCovered(code, stack, Len(stack), {kid}, <<e>> \o rest)
      <4> SUFFICES ASSUME NEW i \in 1..Len(stack), stack[i].fn = "m"
                   PROVE  Covered(code, stack[i].node, Above(stack, i, Len(stack)) \cup {kid},
                                  <<e>> \o rest)
        BY DEF AllCovered
      <4>1. Covered(code, stack[i].node, Above(stack, i, Len(stack)), ctl.cont)
        BY <1>4 DEF AllCovered
      <4> HIDE DEF e
      <4>2. QED
        BY <1>6, <2>1, <3>1, <4>1, CoveredAdvance
    <3>3. ctl' = Call(kid, ctl.pos, <<e>> \o rest)
      BY <2>1, <2>3
    <3> HIDE DEF e, kid, rest
    <3>4. QED
      BY <1>1, <1>2, <1>3, <3>2, <3>3, NowCall
  <2>4. QED
    BY <2>2, <2>3
<1>8. CASE ContRep
  <2>1. /\ ctl.cont # << >> /\ code[c.node].op = "Rep"
        /\ ctl' = IF ctl.pos = c.start THEN Settle(c.node, c.k, ctl.pos, rest)
                  ELSE RepStep(c.node, c.k, ctl.pos, rest)
    BY <1>8 DEF ContRep
  <2>2. AllCovered(code, stack, Len(stack), {}, rest)
    BY <1>4, <1>6, <2>1, CoveredTail DEF AllCovered
  <2>3. c.k \in Nat \ {0}
    BY <1>6, <2>1
  <2> HIDE DEF c, rest
  <2>4. \/ ctl' = RunCont(rest, ctl.pos) \/ ctl' = ReturnFalse
        \/ ctl' = RepStep(c.node, c.k, ctl.pos, rest)
    BY <2>1 DEF Settle
  <2>5. CASE ctl' = RepStep(c.node, c.k, ctl.pos, rest)
    <3>1. ctl'.op = "rep" /\ ctl'.count # 0 /\ ctl'.cont = rest
      BY <2>3, <2>5 DEF RepStep
    <3>2. NowCovered'
      BY <1>1, <2>2, <3>1 DEF NowCovered
    <3>3. QED
      BY <1>2, <1>3, <3>2
  <2>6. QED
    BY <1>1, <1>2, <1>3, <2>2, <2>4, <2>5, NowCont, NowFail DEF ReturnFalse
<1>9. QED
  BY <1>5, <1>7, <1>8

\* rep_step: one more item, or none.
LEMMA HInvRep ==
    ASSUME HInv, RepTry \/ RepFull
    PROVE  Prefixes(code', stack') /\ RootFirst' /\ NowCovered'
<1> DEFINE n == ctl.node
           L == Len(stack)
<1>1. /\ ctl.op = "rep" /\ ctl \in RepCtl /\ code[n].op = "Rep" /\ UNCHANGED <<code, root>>
      /\ stack \in Seq(Frame) /\ L \in Nat /\ stack # << >>
      /\ n \in DOMAIN code /\ code[n].min \in Nat
  <2>1. ctl \in RepCtl /\ ctl.op = "rep" /\ code[n].op = "Rep"
    BY CtlShape DEF HInv, TInv, RepTry, RepFull
  <2>2. QED
    BY <2>1 DEF HInv, TInv, StackOK, CodeOK, NodeOK, RootFirst, RepTry, RepFull, inputVars, RepCtl
<1>2. /\ ctl.count = 0 => /\ AllCovered(code, stack, L - 1, {}, ctl.cont)
                          /\ L > 0 /\ stack[L].node = n
      /\ ctl.count # 0 => AllCovered(code, stack, L, {}, ctl.cont)
  BY <1>1 DEF HInv, NowCovered
\* Whatever the count, all frames but the one just entered are covered.
<1>3. \A i \in 1..L : stack[i].fn = "m" /\ ~ (ctl.count = 0 /\ i = L)
         => Covered(code, stack[i].node, Above(stack, i, L), ctl.cont)
  <2> SUFFICES ASSUME NEW i \in 1..L, stack[i].fn = "m", ~ (ctl.count = 0 /\ i = L)
               PROVE  Covered(code, stack[i].node, Above(stack, i, L) \cup {}, ctl.cont)
    OBVIOUS
  <2>1. CASE ctl.count = 0
    <3>1. i \in 1..(L - 1)
      BY <1>1, <2>1
    <3>2. QED
      BY <1>2, <2>1, <3>1 DEF AllCovered
  <2>2. CASE ctl.count # 0
    BY <1>2, <2>2 DEF AllCovered
  <2>3. QED
    BY <2>1, <2>2
<1>4. CASE RepTry
  <2> DEFINE f == [fn |-> "rep", node |-> n, pos |-> ctl.pos,
                   cont |-> ctl.cont, mark |-> Len(visited), k |-> ctl.count]
             e == RepCont(n, ctl.count + 1, ctl.pos)
             kid == code[n].kids[1]
  <2>1. /\ stack' = Append(stack, f)
        /\ ctl' = Call(kid, ctl.pos, <<e>> \o ctl.cont)
    BY <1>4 DEF RepTry
  <2>2. /\ f \in Frame /\ f.fn = "rep" /\ f.k = ctl.count /\ f.node = n /\ f.cont = ctl.cont
        /\ e \in ContItem /\ ctl.cont \in Seq(ContItem)
    <3>1. Len(visited) \in Nat
      BY DEF HInv, TInv
    <3>2. /\ n \in DOMAIN code /\ ctl.count \in Nat /\ ctl.pos \in Nat
          /\ ctl.cont \in Seq(ContItem)
      BY <1>1 DEF RepCtl
    <3> HIDE DEF n
    <3>3. QED
      BY <3>1, <3>2 DEF Frame, RepCont, ContItem
  <2> HIDE DEF f
  <2>3. Credit(f) = {}
    BY <2>2 DEF Credit
  <2>4. Prefixes(code, Append(stack, f))
    <3>1. Prefixes(code, stack)
      BY DEF HInv
    <3>2. \A i \in 1..L :
             stack[i].fn = "m" /\ ~ (f.fn = "rep" /\ f.k = 0 /\ i = L)
               => Covered(code, stack[i].node, Above(stack, i, L) \cup Credit(f), f.cont)
      BY <1>3, <2>2, <2>3
    <3>3. f.fn = "rep" /\ f.k = 0 => L > 0 /\ stack[L].node = f.node
      BY <1>2, <2>2
    <3>4. QED
      BY <1>1, <2>2, <3>1, <3>2, <3>3, PrefixesPush
  <2>5. /\ Len(stack') = L + 1 /\ stack'[L + 1] = f
        /\ \A i \in 1..L : stack'[i] = stack[i]
    BY <1>1, <2>1, <2>2, PushSeq
  <2>6. \A i \in 1..L : Above(stack', i, L + 1) = Above(stack, i, L)
    <3>1. \A i \in 1..L : Above(Append(stack, f), i, L + 1) = Above(stack, i, L) \cup Credit(f)
      BY <1>1, <2>2, AbovePush
    <3>2. QED
      BY <2>1, <2>3, <3>1
  <2>7. RootFirst'
    <3>1. 1 \in 1..L /\ stack' # << >>
      BY <1>1, <2>5
    <3>2. stack'[1] = stack[1]
      BY <2>5, <3>1
    <3>3. QED
      BY <1>1, <3>1, <3>2 DEF HInv, RootFirst
  <2>8. AllCovered(code, stack', Len(stack'), {kid}, ctl.cont)
    <3> SUFFICES ASSUME NEW i \in 1..Len(stack'), stack'[i].fn = "m"
                 PROVE  Covered(code, stack'[i].node, Above(stack', i, Len(stack')) \cup {kid},
                                ctl.cont)
      BY DEF AllCovered
    <3>1. i \in 1..L /\ stack'[i] = stack[i] /\ stack[i].fn = "m"
      BY <1>1, <2>2, <2>5
    <3>2. Above(stack', i, Len(stack')) = Above(stack, i, L)
      BY <2>5, <2>6, <3>1
    <3>3. CASE ctl.count = 0 /\ i = L
      <4>1. stack[i].node = n
        BY <1>2, <3>3
      <4>2. QED
        BY <1>1, <3>1, <4>1 DEF Covered
    <3>4. CASE ~ (ctl.count = 0 /\ i = L)
      <4>1. Covered(code, stack[i].node, Above(stack, i, L), ctl.cont)
        BY <1>3, <3>1, <3>4
      <4>2. Above(stack, i, L) \subseteq Above(stack', i, Len(stack')) \cup {kid}
        BY <3>2
      <4> HIDE DEF kid
      <4>3. QED
        BY <3>1, <4>1, <4>2, CoveredMono
    <3>5. QED
      BY <3>3, <3>4
  <2> HIDE DEF e, kid
  <2>9. AllCovered(code, stack', Len(stack'), {kid}, <<e>> \o ctl.cont)
    BY <2>2, <2>8, AllCoveredCons
  <2>10. QED
    BY <1>1, <2>1, <2>4, <2>7, <2>9, NowCall
<1>5. CASE RepFull
  <2>1. UNCHANGED <<stack, visited>> /\ ctl' = Settle(n, ctl.count, ctl.pos, ctl.cont)
    BY <1>5 DEF RepFull
  <2>2. Prefixes(code', stack') /\ RootFirst'
    BY <1>1, <2>1 DEF HInv, RootFirst
  <2>3. CASE ctl.count >= code[n].min
    <3>1. AllCovered(code, stack, L, {}, ctl.cont)
      <4> SUFFICES ASSUME NEW i \in 1..L, stack[i].fn = "m"
                   PROVE  Covered(code, stack[i].node, Above(stack, i, L) \cup {}, ctl.cont)
        BY DEF AllCovered
      <4>1. CASE ctl.count = 0 /\ i = L
        <5>1. stack[i].node = n /\ ~ (code[n].min > 0)
          BY <1>1, <1>2, <2>3, <4>1
        <5>2. QED
          BY <1>1, <5>1 DEF Covered
      <4>2. CASE ~ (ctl.count = 0 /\ i = L)
        <5>1. Covered(code, stack[i].node, Above(stack, i, L), ctl.cont)
          BY <1>3, <4>2
        <5>2. Above(stack, i, L) \cup {} = Above(stack, i, L)
          OBVIOUS
        <5>3. QED
          BY <5>1, <5>2
      <4>3. QED
        BY <4>1, <4>2
    <3>2. ctl' = RunCont(ctl.cont, ctl.pos)
      BY <2>1, <2>3 DEF Settle
    <3>3. QED
      BY <1>1, <2>1, <2>2, <3>1, <3>2, NowCont
  <2>4. CASE ~ (ctl.count >= code[n].min)
    <3>1. ctl'.op = "fail"
      BY <2>1, <2>4 DEF Settle, ReturnFalse
    <3>2. QED
      BY <2>2, <3>1, NowFail
  <2>5. QED
    BY <2>3, <2>4
<1>6. QED
  BY <1>4, <1>5

\* m or rep_step returns true.
LEMMA HInvTrue ==
    ASSUME HInv, CloseTrue
    PROVE  Prefixes(code', stack') /\ RootFirst' /\ NowCovered'
<1> DEFINE L == Len(stack)
           f == Top
           r == Below
           V == VisitedNodes
<1>1. /\ ctl.op = "ok" /\ stack # << >> /\ stack' = r /\ ctl' = ctl
      /\ UNCHANGED <<code, root>> /\ stack \in Seq(Frame)
      /\ visited \in Seq(DOMAIN code)
      /\ f.fn = "m" => visited' = Append(visited, f.node)
      /\ f.fn # "m" => visited' = visited
  BY DEF CloseTrue, inputVars, HInv, TInv, StackOK
<1>2. r \in Seq(Frame) /\ f \in Frame /\ stack = Append(r, f)
  BY <1>1, Unpush DEF Top, Below
<1>3. Prefixes(code, stack)
  BY DEF HInv
<1> HIDE DEF f, r
<1>4. /\ Len(r) \in Nat /\ L = Len(r) + 1 /\ stack[L] = f
      /\ \A i \in 1..Len(r) : r[i] = stack[i]
  BY <1>2, PushSeq
<1>5. /\ Prefixes(code, r)
      /\ \A i \in 1..Len(r) : Above(stack, i, L) = Above(r, i, Len(r)) \cup Credit(f)
  <2>1. Prefixes(code, r)
    BY <1>2, <1>3, <1>4, PrefixesPop
  <2>2. \A i \in 1..Len(r) : Above(Append(r, f), i, Len(r) + 1) = Above(r, i, Len(r)) \cup Credit(f)
    BY <1>2, AbovePush
  <2>3. QED
    BY <1>2, <1>4, <2>1, <2>2
<1>6. VisitedNodes' = V \cup Credit(f)
  <2>1. CASE f.fn = "m"
    <3>1. f.node \in DOMAIN code
      BY <1>2 DEF Frame
    <3>2. /\ Len(visited') = Len(visited) + 1 /\ visited'[Len(visited) + 1] = f.node
          /\ \A i \in 1..Len(visited) : visited'[i] = visited[i]
          /\ Len(visited) \in Nat
      BY <1>1, <2>1, <3>1, PushSeq
    <3>3. \A i : i \in 1..Len(visited') <=> i \in 1..Len(visited) \/ i = Len(visited) + 1
      BY <3>2
    <3>4. QED
      BY <2>1, <3>2, <3>3 DEF VisitedNodes, Credit
  <2>2. CASE f.fn # "m"
    BY <1>1, <2>2 DEF VisitedNodes, Credit
  <2>3. QED
    BY <2>1, <2>2
<1>7. AllCovered(code, stack, L, V, << >>) /\ \A v \in V : Covered(code, v, V, << >>)
  BY <1>1 DEF HInv, NowCovered
<1>8. \A v \in VisitedNodes' : Covered(code, v, VisitedNodes', << >>)
  <2> SUFFICES ASSUME NEW v \in V \cup Credit(f)
               PROVE  Covered(code, v, V \cup Credit(f), << >>)
    BY <1>6
  <2>1. Covered(code, v, V, << >>)
    <3>1. CASE v \in V
      BY <1>7, <3>1
    <3>2. CASE v \in Credit(f)
      <4>1. f.fn = "m" /\ v = f.node
        BY <3>2 DEF Credit
      <4>2. Above(stack, L, L) = {}
        BY <1>4 DEF Above
      <4>3. Covered(code, v, Above(stack, L, L) \cup V, << >>)
        <5>1. L \in 1..L /\ stack[L].fn = "m" /\ stack[L].node = v
          BY <1>4, <4>1
        <5>2. QED
          BY <1>7, <5>1 DEF AllCovered
      <4>4. Above(stack, L, L) \cup V = V
        BY <4>2
      <4>5. QED
        BY <4>3, <4>4
    <3>3. QED
      BY <3>1, <3>2
  <2>2. V \subseteq V \cup Credit(f)
    OBVIOUS
  <2> HIDE DEF V
  <2>3. QED
    BY <2>1, <2>2, CoveredMono
<1>9. AllCovered(code, r, Len(r), VisitedNodes', << >>)
  <2> SUFFICES ASSUME NEW i \in 1..Len(r), r[i].fn = "m"
               PROVE  Covered(code, r[i].node, Above(r, i, Len(r)) \cup VisitedNodes', << >>)
    BY DEF AllCovered
  <2>1. i \in 1..L /\ r[i] = stack[i]
    BY <1>4
  <2>2. Covered(code, r[i].node, Above(stack, i, L) \cup V, << >>)
    BY <1>7, <2>1 DEF AllCovered
  <2>3. Above(stack, i, L) \cup V = Above(r, i, Len(r)) \cup VisitedNodes'
    BY <1>5, <1>6
  <2>4. QED
    BY <2>2, <2>3
<1>10. NowCovered'
  BY <1>1, <1>8, <1>9 DEF NowCovered
<1>11. RootFirst'
  <2>1. stack[1].node = root /\ stack[1].fn = "m"
    BY <1>1 DEF HInv, RootFirst
  <2>2. CASE r = << >>
    <3>1. f.node = root /\ f.fn = "m"
      BY <1>4, <2>1, <2>2
    <3>2. root \in VisitedNodes'
      BY <1>6, <3>1 DEF Credit
    <3>3. QED
      BY <1>1, <2>2, <3>2 DEF RootFirst
  <2>3. CASE r # << >>
    <3>1. 1 \in 1..Len(r)
      BY <1>2, <1>4, <2>3
    <3>2. r[1] = stack[1]
      BY <1>4, <3>1
    <3>3. QED
      BY <1>1, <2>1, <2>3, <3>2 DEF RootFirst
  <2>4. QED
    BY <2>2, <2>3
<1>12. QED
  BY <1>1, <1>5, <1>10, <1>11

\* m tries its next branch, or skips an optional child.
LEMMA HInvRetry ==
    ASSUME HInv, NextBranch \/ SkipOpt
    PROVE  Prefixes(code', stack') /\ RootFirst' /\ NowCovered'
<1> DEFINE L == Len(stack)
           n == Top.node
           kid == code[n].kids[Top.k + 1]
<1>1. /\ ctl.op = "fail" /\ stack # << >> /\ stack \in Seq(Frame) /\ L \in Nat \ {0}
      /\ UNCHANGED <<code, root>> /\ Top.fn = "m" /\ Top = stack[L] /\ Top \in Frame
      /\ Prefixes(code, stack)
  <2>1. stack \in Seq(Frame) /\ stack # << >>
    BY DEF HInv, TInv, StackOK, NextBranch, SkipOpt
  <2>2. QED
    BY <2>1, FrontSeq DEF HInv, NextBranch, SkipOpt, HasBranch, CanSkip, inputVars, Top
<1>2. \E k \in Nat : stack' = [stack EXCEPT ![L].k = k]
  <2>1. CASE NextBranch
    <3>1. stack' = [stack EXCEPT ![L].k = Top.k + 1] /\ Top.k + 1 \in Nat
      BY <1>1, <2>1 DEF NextBranch, Top, Frame
    <3>2. QED
      BY <3>1
  <2>2. CASE SkipOpt
    BY <2>2 DEF SkipOpt
  <2>3. QED
    BY <2>1, <2>2
<1>3. /\ Len(stack') = L /\ stack'[1].fn = stack[1].fn /\ stack'[1].node = stack[1].node
      /\ stack'[L].fn = "m" /\ stack'[L].cont = Top.cont /\ stack'[L].node = n
      /\ Prefixes(code, stack')
  <2>1. PICK k \in Nat : stack' = [stack EXCEPT ![L].k = k]
    BY <1>2
  <2>2. /\ Len(stack') = L
        /\ \A i \in 1..L : i # L => stack'[i] = stack[i]
        /\ stack'[L] = [stack[L] EXCEPT !.k = k]
    BY <1>1, <2>1
  <2>3. /\ stack'[L].fn = "m" /\ stack'[L].cont = Top.cont /\ stack'[L].node = n
    BY <1>1, <2>2 DEF Frame
  <2>4. \A i \in 1..L : /\ stack'[i].fn = stack[i].fn /\ stack'[i].node = stack[i].node
                        /\ stack'[i].cont = stack[i].cont
                        /\ stack'[i].fn = "rep" => stack'[i].k = stack[i].k
    BY <1>1, <2>2, <2>3
  <2>5. Prefixes(code, stack')
    BY <1>1, <2>2, <2>4, Rekey
  <2>6. 1 \in 1..L
    BY <1>1
  <2>7. QED
    BY <2>2, <2>3, <2>4, <2>5, <2>6
<1>4. stack' \in Seq(Frame) /\ stack' # << >>
  <2>1. TInv'
    BY TInvNext DEF HInv, Next
  <2>2. Frame' = Frame
    BY <1>1 DEF Frame, ContItem
  <2>3. stack' \in Seq(Frame)
    BY <2>1, <2>2 DEF TInv, StackOK
  <2>4. QED
    BY <1>1, <1>3, <2>3
<1>5. RootFirst'
  BY <1>1, <1>3, <1>4 DEF HInv, RootFirst
<1>6. ASSUME NEW X, Covered(code, n, X, Top.cont)
      PROVE  AllCovered(code, stack', Len(stack'), X, Top.cont)
  BY <1>3, <1>4, <1>6, Retried
<1>7. CASE NextBranch
  <2>1. /\ code[n].op = "Alt" /\ Top.k < Len(code[n].kids)
        /\ ctl' = Call(kid, Top.pos, Top.cont)
    BY <1>7 DEF NextBranch, HasBranch
  <2>2. Top.k \in Nat /\ n \in DOMAIN code
    BY <1>1 DEF Frame
  <2>3. Len(code[n].kids) \in Nat
    BY <2>2 DEF HInv, TInv, CodeOK, NodeOK
  <2>4. Top.k + 1 \in 1..Len(code[n].kids)
    BY <2>1, <2>2, <2>3
  <2>5. Covered(code, n, {kid}, Top.cont)
    BY <2>1, <2>4 DEF Covered
  <2> HIDE DEF kid, n
  <2>6. QED
    BY <1>1, <1>3, <1>5, <1>6, <2>1, <2>5, NowCall
<1>8. CASE SkipOpt
  <2>1. code[n].op = "Opt" /\ ctl' = RunCont(Top.cont, Top.pos)
    BY <1>8 DEF SkipOpt, CanSkip
  <2>2. Covered(code, n, {}, Top.cont)
    BY <2>1 DEF Covered
  <2>3. QED
    BY <1>1, <1>3, <1>5, <1>6, <2>1, <2>2, NowCont
<1>9. QED
  BY <1>7, <1>8

\* rep_step or m gives up.
LEMMA HInvFalse ==
    ASSUME HInv, RepBack \/ CloseFalse
    PROVE  Prefixes(code', stack') /\ RootFirst' /\ NowCovered'
<1> DEFINE L == Len(stack)
           f == Top
           r == Below
<1>1. /\ ctl.op = "fail" /\ stack # << >> /\ stack' = r /\ UNCHANGED <<code, root>>
      /\ stack \in Seq(Frame) /\ Prefixes(code, stack)
      /\ f.fn = "rep" => code[f.node].op = "Rep"
  <2>1. ctl.op = "fail" /\ stack # << >>
    BY DEF RepBack, CloseFalse
  <2>2. QED
    BY <2>1, TruncatedEmpty DEF RepBack, CloseFalse, inputVars, HInv, TInv, StackOK
<1>2. r \in Seq(Frame) /\ f \in Frame /\ stack = Append(r, f)
  BY <1>1, Unpush DEF Top, Below
<1>3. \/ RepBack /\ f.fn = "rep" /\ ctl' = Settle(f.node, f.k, f.pos, f.cont)
      \/ CloseFalse /\ ctl'.op = "fail"
  BY <1>1 DEF RepBack, CloseFalse
<1> HIDE DEF f, r
<1>4. /\ Len(r) \in Nat /\ L = Len(r) + 1 /\ stack[L] = f
      /\ \A i \in 1..Len(r) : r[i] = stack[i]
  BY <1>2, PushSeq
<1>5. /\ Prefixes(code, r)
      /\ \A i \in 1..Len(r) : Above(stack, i, L) = Above(r, i, Len(r)) \cup Credit(f)
  <2>1. Prefixes(code, r)
    BY <1>1, <1>2, <1>4, PrefixesPop
  <2>2. \A i \in 1..Len(r) : Above(Append(r, f), i, Len(r) + 1) = Above(r, i, Len(r)) \cup Credit(f)
    BY <1>2, AbovePush
  <2>3. QED
    BY <1>2, <1>4, <2>1, <2>2
<1>6. r # << >> => r[1].node = root /\ r[1].fn = "m"
  <2>1. ASSUME r # << >> PROVE 1 \in 1..Len(r)
    BY <1>2, <1>4, <2>1
  <2>2. QED
    BY <1>1, <1>4, <2>1 DEF HInv, RootFirst
<1>7. CASE ctl'.op = "fail"
  <2>1. NowCovered'
    BY <1>7, NowFail
  <2>2. RootFirst'
    BY <1>1, <1>6, <1>7 DEF RootFirst
  <2>3. QED
    BY <1>1, <1>5, <2>1, <2>2
<1>8. CASE ctl'.op # "fail"
  <2>1. /\ f.fn = "rep" /\ ctl' = RunCont(f.cont, f.pos) /\ f.k >= code[f.node].min
        /\ code[f.node].op = "Rep" /\ code[f.node].min \in Nat /\ f.k \in Nat
    <3>1. f.k \in Nat /\ code[f.node].min \in Nat
      BY <1>2 DEF Frame, HInv, TInv, CodeOK, NodeOK
    <3>2. QED
      BY <1>1, <1>3, <1>8, <3>1 DEF Settle, ReturnFalse
  <2>2. Credit(f) = {}
    BY <2>1 DEF Credit
  <2>3. r # << >>
    <3>1. stack[1].fn = "m"
      BY <1>1 DEF HInv, RootFirst
    <3>2. L # 1
      BY <1>4, <2>1, <3>1
    <3>3. QED
      BY <1>2, <1>4, <3>2
  <2>4. AllCovered(code, r, Len(r), {}, f.cont)
    <3> SUFFICES ASSUME NEW i \in 1..Len(r), r[i].fn = "m"
                 PROVE  Covered(code, r[i].node, Above(r, i, Len(r)) \cup {}, f.cont)
      BY DEF AllCovered
    <3>1. r[i] = stack[i] /\ i \in 1..(L - 1) /\ L \in 1..L
      BY <1>4
    <3>2. CASE Fresh(stack, i, L)
      <4>1. f.k = 0 /\ i = L - 1 /\ stack[L - 1].node = f.node
        BY <1>1, <1>4, <2>1, <3>1, <3>2 DEF Fresh, Prefixes
      <4>2. r[i].node = f.node /\ ~ (code[f.node].min > 0)
        BY <2>1, <3>1, <4>1
      <4>3. QED
        BY <2>1, <4>2 DEF Covered
    <3>3. CASE ~ Fresh(stack, i, L)
      <4>1. Covered(code, stack[i].node, Above(stack, i, L), stack[L].cont)
        BY <1>1, <3>1, <3>3 DEF Prefixes
      <4>2. Above(stack, i, L) = Above(r, i, Len(r)) \cup {}
        BY <1>5, <2>2
      <4>3. QED
        BY <1>4, <3>1, <4>1, <4>2
    <3>4. QED
      BY <3>2, <3>3
  <2>5. NowCovered'
    BY <1>1, <2>1, <2>4, NowCont
  <2>6. RootFirst'
    BY <1>1, <1>6, <2>3 DEF RootFirst
  <2>7. QED
    BY <1>1, <1>5, <2>5, <2>6
<1>9. QED
  BY <1>7, <1>8

LEMMA HInvNext == HInv /\ [Next]_vars => HInv'
<1> SUFFICES ASSUME HInv, [Next]_vars PROVE HInv'
  OBVIOUS
<1>1. TInv'
  BY TInvNext DEF HInv
<1>2. CASE UNCHANGED vars
  BY <1>1, <1>2 DEF vars, HInv, Prefixes, NowCovered, RootFirst, VisitedNodes
<1>3. CASE Refuse
  <2>1. ctl'.op = "fail" /\ UNCHANGED <<code, root, stack>>
    BY <1>3 DEF Refuse, ReturnFalse, inputVars
  <2>2. Prefixes(code', stack') /\ RootFirst'
    BY <2>1 DEF HInv, RootFirst
  <2>3. QED
    BY <1>1, <2>1, <2>2, NowFail DEF HInv
<1>4. Next => \/ Refuse \/ Enter \/ (ContDone \/ ContSeq \/ ContRep) \/ (RepTry \/ RepFull)
              \/ CloseTrue \/ (NextBranch \/ SkipOpt) \/ (RepBack \/ CloseFalse)
  BY DEF Next
<1>5. CASE Enter
  BY <1>1, <1>5, HInvEnter DEF HInv
<1>6. CASE ContDone \/ ContSeq \/ ContRep
  BY <1>1, <1>6, HInvCont DEF HInv
<1>7. CASE RepTry \/ RepFull
  BY <1>1, <1>7, HInvRep DEF HInv
<1>8. CASE CloseTrue
  BY <1>1, <1>8, HInvTrue DEF HInv
<1>9. CASE NextBranch \/ SkipOpt
  BY <1>1, <1>9, HInvRetry DEF HInv
<1>10. CASE RepBack \/ CloseFalse
  BY <1>1, <1>10, HInvFalse DEF HInv
<1>11. QED
  BY <1>2, <1>3, <1>4, <1>5, <1>6, <1>7, <1>8, <1>9, <1>10

\* What a matched input credits holds the root and, with every node, the nodes a
\* derivation through it needs.
LEMMA CreditsClosed ==
    HInv => (Matched => /\ root \in VisitedNodes
                        /\ \A n \in VisitedNodes : Covered(code, n, VisitedNodes, << >>))
<1> SUFFICES ASSUME HInv, Matched
             PROVE  /\ root \in VisitedNodes
                    /\ \A n \in VisitedNodes : Covered(code, n, VisitedNodes, << >>)
  OBVIOUS
<1>1. stack = << >> /\ ctl.op = "ok"
  BY DEF Matched, Returned
<1> QED BY <1>1 DEF HInv, RootFirst, NowCovered
-----------------------------------------------------------------------------
(***************************************************************************)
(* The language of a table T over the bytes w.  Derivable is the least set *)
(* of parts closed under Derives: the intersection of all closed sets.     *)
(***************************************************************************)
TableOK(T) == IsFiniteSet(DOMAIN T) /\ \A n \in DOMAIN T : NodeOK(T, n)

\* What S derives and does not hold yet.
More(T, w, S) == {p \in Parts(T, w) \ S : Derives(T, w, S, p[1], p[2], p[3], p[4])}

Closures(T, w, S) == {X \in SUBSET Parts(T, w) : S \subseteq X /\ More(T, w, X) = {}}
Hull(T, w, S)     == {p \in Parts(T, w) : \A X \in Closures(T, w, S) : p \in X}

LEMMA LastPartNat == ASSUME NEW T, TableOK(T), NEW n \in DOMAIN T PROVE LastPart(T[n]) \in Nat
<1>1. /\ T[n].op \in Ops /\ T[n].kids \in Seq(DOMAIN T)
      /\ T[n].min \in Nat /\ T[n].max \in Nat \cup {NoMax}
  BY DEF TableOK, NodeOK
<1>2. Len(T[n].kids) \in Nat
  BY <1>1
<1> QED BY <1>1, <1>2 DEF LastPart, NoMax, Ops

LEMMA PartsShape ==
    ASSUME NEW T, NEW w
    PROVE  /\ \A n, k, i, j : <<n, k, i, j>> \in Parts(T, w) <=>
                                  /\ n \in DOMAIN T /\ k \in 0..LastPart(T[n])
                                  /\ i \in Offsets(w) /\ j \in Offsets(w) /\ i <= j
           /\ \A p \in Parts(T, w) : p = <<p[1], p[2], p[3], p[4]>>
BY DEF Parts

LEMMA FiniteUnion ==
    ASSUME NEW N, IsFiniteSet(N), NEW f, \A n \in N : IsFiniteSet(f[n])
    PROVE  IsFiniteSet(UNION {f[n] : n \in N})
<1> DEFINE family == {f[n] : n \in N}
           g == [n \in N |-> f[n]]
<1>1. g \in [N -> family] /\ \A F \in family : \E n \in N : g[n] = F
  OBVIOUS
<1>2. \A F \in family : IsFiniteSet(F)
  OBVIOUS
<1> HIDE DEF family, g
<1>3. IsFiniteSet(family)
  <2>1. g \in Surjection(N, family)
    BY <1>1 DEF Surjection
  <2> QED BY <2>1, FS_Surjection
<1>4. IsFiniteSet(UNION family)
  BY <1>2, <1>3, FS_UNION
<1> QED BY <1>4 DEF family

LEMMA FiniteProduct ==
    ASSUME NEW A, IsFiniteSet(A), NEW B, IsFiniteSet(B), NEW C, IsFiniteSet(C)
    PROVE  IsFiniteSet(A \X B \X C \X C)
<1> DEFINE Pairs  == (A \X B) \X (C \X C)
           Quads  == A \X B \X C \X C
           g == [p \in Pairs |-> <<p[1][1], p[1][2], p[2][1], p[2][2]>>]
<1>1. IsFiniteSet(Pairs)
  <2>1. IsFiniteSet(A \X B) /\ IsFiniteSet(C \X C)
    BY FS_Product
  <2> QED BY <2>1, FS_Product
<1>2. g \in [Pairs -> Quads]
  OBVIOUS
<1>3. ASSUME NEW q \in Quads PROVE \E p \in Pairs : g[p] = q
  <2>1. <<<<q[1], q[2]>>, <<q[3], q[4]>>>> \in Pairs
    OBVIOUS
  <2>2. q = <<q[1], q[2], q[3], q[4]>>
    OBVIOUS
  <2> QED BY <2>1, <2>2
<1> HIDE DEF Pairs, Quads, g
<1>4. g \in Surjection(Pairs, Quads)
  BY <1>2, <1>3 DEF Surjection
<1>5. IsFiniteSet(Quads)
  BY <1>1, <1>4, FS_Surjection
<1> QED BY <1>5 DEF Quads

LEMMA PartsFinite ==
    ASSUME NEW T, TableOK(T), NEW w, Len(w) \in Nat
    PROVE  IsFiniteSet(Parts(T, w))
<1> DEFINE quads(n) == {n} \X (0..LastPart(T[n])) \X Offsets(w) \X Offsets(w)
           f == [n \in DOMAIN T |-> {p \in quads(n) : p[3] <= p[4]}]
<1>1. IsFiniteSet(Offsets(w))
  BY FS_Interval DEF Offsets
<1>2. ASSUME NEW n \in DOMAIN T PROVE IsFiniteSet(f[n])
  <2>1. IsFiniteSet({n})
    BY FS_Singleton
  <2>2. IsFiniteSet(0..LastPart(T[n]))
    BY LastPartNat, FS_Interval
  <2>3. IsFiniteSet(quads(n))
    BY <1>1, <2>1, <2>2, FiniteProduct
  <2>4. f[n] \subseteq quads(n)
    <3> HIDE DEF quads
    <3> QED OBVIOUS
  <2> HIDE DEF f, quads
  <2> QED BY <2>3, <2>4, FS_Subset
<1>3. Parts(T, w) = UNION {f[n] : n \in DOMAIN T}
  <2>1. \A n \in DOMAIN T : f[n] = {p \in quads(n) : p[3] <= p[4]}
    <3> HIDE DEF quads
    <3> QED OBVIOUS
  <2>2. Parts(T, w) = UNION {{p \in quads(n) : p[3] <= p[4]} : n \in DOMAIN T}
    BY DEF Parts
  <2> HIDE DEF f, quads
  <2>3. \A p : p \in Parts(T, w) <=> \E n \in DOMAIN T : p \in f[n]
    BY <2>1, <2>2
  <2> QED BY <2>3
<1>4. IsFiniteSet(DOMAIN T)
  BY DEF TableOK
<1> HIDE DEF f
<1> QED BY <1>2, <1>3, <1>4, FiniteUnion

LEMMA DerivesMono ==
    ASSUME NEW T, TableOK(T), NEW w, NEW S, NEW X, S \subseteq X,
           NEW n \in DOMAIN T, NEW k, NEW i, NEW j, Derives(T, w, S, n, k, i, j)
    PROVE  Derives(T, w, X, n, k, i, j)
<1>1. T[n].op \in Ops
  BY DEF TableOK, NodeOK
<1> QED BY <1>1 DEF Derives, Ops

\* A closed set that holds S holds what S derives.
LEMMA ClosedHoldsMore ==
    ASSUME NEW T, TableOK(T), NEW w, NEW S, NEW X \in Closures(T, w, S)
    PROVE  More(T, w, S) \subseteq X
<1> SUFFICES ASSUME NEW p \in More(T, w, S), p \notin X PROVE FALSE
  OBVIOUS
<1>1. p \in Parts(T, w) /\ Derives(T, w, S, p[1], p[2], p[3], p[4])
  BY DEF More
<1>2. p[1] \in DOMAIN T
  BY <1>1, PartsShape
<1>3. Derives(T, w, X, p[1], p[2], p[3], p[4])
  BY <1>1, <1>2, DerivesMono DEF Closures
<1> QED BY <1>1, <1>3 DEF Closures, More

LEMMA HullClosed ==
    ASSUME NEW T, TableOK(T), NEW w, NEW S, S \subseteq Parts(T, w)
    PROVE  Hull(T, w, S) \in Closures(T, w, S)
<1> DEFINE H == Hull(T, w, S)
<1>1. H \subseteq Parts(T, w) /\ S \subseteq H
  BY DEF Hull, Closures
<1>2. More(T, w, H) = {}
  <2> SUFFICES ASSUME NEW p \in More(T, w, H) PROVE FALSE
    OBVIOUS
  <2>1. p \in Parts(T, w) /\ p \notin H /\ Derives(T, w, H, p[1], p[2], p[3], p[4])
    BY DEF More
  <2>2. PICK X \in Closures(T, w, S) : p \notin X
    BY <2>1 DEF Hull
  <2>3. H \subseteq X
    BY DEF Hull
  <2>4. p[1] \in DOMAIN T
    BY <2>1, PartsShape
  <2>5. Derives(T, w, X, p[1], p[2], p[3], p[4])
    <3> HIDE DEF H
    <3> QED BY <2>1, <2>3, <2>4, DerivesMono
  <2> QED BY <2>1, <2>2, <2>5 DEF More, Closures
<1> QED BY <1>1, <1>2 DEF Closures

LEMMA HullGrows ==
    ASSUME NEW T, TableOK(T), NEW w, NEW S, S \subseteq Parts(T, w)
    PROVE  Hull(T, w, S) = IF More(T, w, S) = {} THEN S ELSE Hull(T, w, S \cup More(T, w, S))
<1>1. CASE More(T, w, S) = {}
  <2>1. S \in Closures(T, w, S)
    BY <1>1 DEF Closures
  <2>2. Hull(T, w, S) = S
    BY <2>1 DEF Hull, Closures
  <2> QED BY <1>1, <2>2
<1>2. Closures(T, w, S) = Closures(T, w, S \cup More(T, w, S))
  <2>1. \A X \in Closures(T, w, S) : S \cup More(T, w, S) \subseteq X
    BY ClosedHoldsMore DEF Closures
  <2> QED BY <2>1 DEF Closures
<1>3. Hull(T, w, S) = Hull(T, w, S \cup More(T, w, S))
  BY <1>2 DEF Hull
<1> QED BY <1>1, <1>3

Grows(T, w, g) ==
    \A S \in SUBSET Parts(T, w) :
        g[S] = IF More(T, w, S) = {} THEN S ELSE g[S \cup More(T, w, S)]

\* Two functions that grow alike have the same value, since nothing grows for ever.
LEMMA SameGrowth ==
    ASSUME NEW T, NEW w, IsFiniteSet(Parts(T, w)),
           NEW g, NEW h, Grows(T, w, g), Grows(T, w, h)
    PROVE  g[{}] = h[{}]
<1> DEFINE all == Parts(T, w)
           Differ == {R \in SUBSET all : g[all \ R] # h[all \ R]}
<1> SUFFICES ASSUME g[{}] # h[{}] PROVE FALSE
  OBVIOUS
<1>1. all \in Differ
  <2>1. all \ all = {}
    OBVIOUS
  <2> QED BY <2>1
<1>2. Differ \subseteq FiniteSubsetsOf(all)
  BY FS_FiniteSubsetsOfFinite
<1>3. PICK R \in Differ : \A Q \in Differ : ~ (<<Q, R>> \in StrictSubsetOrdering(all))
  <2>1. Differ # {}
    BY <1>1
  <2> HIDE DEF Differ
  <2> QED BY <1>2, <2>1, FS_StrictSubsetOrderingWellFounded, WFMin
<1> DEFINE S == all \ R
           M == More(T, w, S)
<1>4. S \in SUBSET all /\ M \subseteq R
  BY DEF More
<1>5. M # {} /\ g[S \cup M] # h[S \cup M]
  BY <1>4 DEF Grows
<1>6. S \cup M = all \ (R \ M)
  BY <1>4
<1>7. R \ M \in Differ
  BY <1>5, <1>6
<1>8. <<R \ M, R>> \in StrictSubsetOrdering(all)
  BY <1>4, <1>5 DEF StrictSubsetOrdering
<1> QED BY <1>3, <1>7, <1>8

LEMMA DerivableIsHull ==
    ASSUME NEW T, TableOK(T), NEW w, Len(w) \in Nat
    PROVE  Derivable(T, w) = Hull(T, w, {})
<1> DEFINE all == Parts(T, w)
           onward(g) == [S \in SUBSET all |->
                            IF More(T, w, S) = {} THEN S ELSE g[S \cup More(T, w, S)]]
           grow == CHOOSE g : g = onward(g)
           hull == [S \in SUBSET all |-> Hull(T, w, S)]
<1>1. Derivable(T, w) = grow[{}]
  BY DEF Derivable, More
<1>2. hull = onward(hull)
  <2>1. ASSUME NEW S \in SUBSET all
        PROVE  hull[S] = IF More(T, w, S) = {} THEN S ELSE hull[S \cup More(T, w, S)]
    <3>1. S \cup More(T, w, S) \in SUBSET all
      BY DEF More
    <3> QED BY <3>1, HullGrows
  <2> QED BY <2>1
<1>3. grow = onward(grow)
  <2> HIDE DEF hull
  <2> QED BY <1>2
<1>4. Grows(T, w, grow) /\ Grows(T, w, hull)
  <2>1. \A g : g = onward(g) => Grows(T, w, g)
    BY DEF Grows
  <2> HIDE DEF onward, hull, grow
  <2> QED BY <1>2, <1>3, <2>1
<1>5. grow[{}] = hull[{}]
  <2> HIDE DEF grow, hull
  <2> QED BY <1>4, PartsFinite, SameGrowth
<1> QED BY <1>1, <1>5

\* A part is in the language exactly when parts of the language derive it.
LEMMA LanguageFixed ==
    ASSUME NEW T, TableOK(T), NEW w, Len(w) \in Nat
    PROVE  /\ Derivable(T, w) \subseteq Parts(T, w)
           /\ \A n, k, i, j : <<n, k, i, j>> \in Derivable(T, w) <=>
                                  /\ <<n, k, i, j>> \in Parts(T, w)
                                  /\ Derives(T, w, Derivable(T, w), n, k, i, j)
<1> DEFINE L == Derivable(T, w)
           X == {p \in L : Derives(T, w, L, p[1], p[2], p[3], p[4])}
<1>1. L = Hull(T, w, {})
  BY DerivableIsHull
<1>2. L \in Closures(T, w, {})
  BY <1>1, HullClosed
<1>3. L \subseteq Parts(T, w) /\ More(T, w, L) = {}
  BY <1>2 DEF Closures
<1>4. More(T, w, X) = {}
  <2> SUFFICES ASSUME NEW p \in More(T, w, X) PROVE FALSE
    OBVIOUS
  <2>1. p \in Parts(T, w) /\ p \notin X /\ Derives(T, w, X, p[1], p[2], p[3], p[4])
    BY DEF More
  <2>2. p[1] \in DOMAIN T /\ X \subseteq L
    BY <2>1, PartsShape
  <2>3. Derives(T, w, L, p[1], p[2], p[3], p[4])
    <3> HIDE DEF X, L
    <3> QED BY <2>1, <2>2, DerivesMono
  <2>4. p \in L
    BY <1>3, <2>1, <2>3 DEF More
  <2> QED BY <2>1, <2>3, <2>4
<1>5. X \in Closures(T, w, {})
  BY <1>3, <1>4 DEF Closures
<1>6. L \subseteq X
  BY <1>1, <1>5 DEF Hull
<1>7. ASSUME NEW n, NEW k, NEW i, NEW j
      PROVE  <<n, k, i, j>> \in L <=> /\ <<n, k, i, j>> \in Parts(T, w)
                                      /\ Derives(T, w, L, n, k, i, j)
  <2> DEFINE p == <<n, k, i, j>>
  <2>1. p[1] = n /\ p[2] = k /\ p[3] = i /\ p[4] = j
    OBVIOUS
  <2>2. p \in L => Derives(T, w, L, n, k, i, j)
    BY <1>6, <2>1
  <2>3. p \in Parts(T, w) /\ Derives(T, w, L, n, k, i, j) => p \in L
    <3> HIDE DEF p, L
    <3> QED BY <1>3, <2>1 DEF More
  <2> QED BY <1>3, <2>2, <2>3
<1> QED BY <1>3, <1>7

\* It is the least such set.
LEMMA LanguageLeast ==
    ASSUME NEW T, TableOK(T), NEW w, Len(w) \in Nat, NEW X, X \subseteq Derivable(T, w),
           \A n, k, i, j : <<n, k, i, j>> \in Derivable(T, w) /\ Derives(T, w, X, n, k, i, j)
                               => <<n, k, i, j>> \in X
    PROVE  Derivable(T, w) \subseteq X
<1> DEFINE L == Derivable(T, w)
<1>1. L = Hull(T, w, {}) /\ L \subseteq Parts(T, w)
  BY DerivableIsHull, LanguageFixed
<1>2. ASSUME NEW p \in More(T, w, X) PROVE FALSE
  <2>1. /\ p \in Parts(T, w) /\ p \notin X /\ p = <<p[1], p[2], p[3], p[4]>>
        /\ Derives(T, w, X, p[1], p[2], p[3], p[4])
    BY PartsShape DEF More
  <2>2. p[1] \in DOMAIN T
    BY <2>1, PartsShape
  <2>3. Derives(T, w, L, p[1], p[2], p[3], p[4])
    BY <2>1, <2>2, DerivesMono
  <2>4. p \in L
    <3> HIDE DEF L
    <3>1. <<p[1], p[2], p[3], p[4]>> \in Parts(T, w)
      BY <2>1
    <3>2. <<p[1], p[2], p[3], p[4]>> \in L
      BY <2>3, <3>1, LanguageFixed DEF L
    <3> QED BY <2>1, <3>2
  <2> QED BY <2>1, <2>4
<1>3. X \in Closures(T, w, {})
  BY <1>1, <1>2 DEF Closures
<1> QED BY <1>1, <1>3 DEF Hull
-----------------------------------------------------------------------------
(***************************************************************************)
(* Node n of T from offset i to offset j, k elements or items done.        *)
(***************************************************************************)
IsLanguage(T, w, L) == TableOK(T) /\ Len(w) \in Nat /\ L = Derivable(T, w)

Has(L, T, n, k, i, j) == <<n, After(T[n], k), i, j>> \in L
Room(T, n, k)         == T[n].max = NoMax \/ k < T[n].max

LEMMA NodeShape ==
    ASSUME NEW T, TableOK(T), NEW n \in DOMAIN T
    PROVE  /\ T[n].op \in Ops /\ T[n].kids \in Seq(DOMAIN T) /\ Len(T[n].kids) \in Nat
           /\ \A b \in 1..Len(T[n].kids) : T[n].kids[b] \in DOMAIN T
           /\ T[n].op \in {"Pass", "Opt", "Rep"} => T[n].kids[1] \in DOMAIN T
           /\ T[n].min \in Nat /\ T[n].max \in Nat \cup {NoMax}
<1>1. /\ T[n].op \in Ops /\ T[n].kids \in Seq(DOMAIN T)
      /\ T[n].op \in {"Pass", "Opt", "Rep"} => T[n].kids # << >>
      /\ T[n].min \in Nat /\ T[n].max \in Nat \cup {NoMax}
  BY DEF TableOK, NodeOK
<1> QED BY <1>1

LEMMA AfterNone == ASSUME NEW T, TableOK(T), NEW n \in DOMAIN T PROVE After(T[n], 0) = 0
BY LastPartNat DEF After

LEMMA AfterRep ==
    ASSUME NEW T, TableOK(T), NEW n \in DOMAIN T, T[n].op = "Rep", NEW k \in Nat
    PROVE  /\ After(T[n], k) \in 0..LastPart(T[n])
           /\ After(T[n], k) >= T[n].min <=> k >= T[n].min
           /\ Room(T, n, After(T[n], k)) <=> Room(T, n, k)
           /\ After(T[n], After(T[n], k) + 1) = After(T[n], k + 1)
           /\ k <= LastPart(T[n]) => After(T[n], k) = k
           /\ k >= LastPart(T[n]) => After(T[n], k) = LastPart(T[n])
           /\ LastPart(T[n]) \in Nat /\ LastPart(T[n]) >= T[n].min
<1>1. T[n].min \in Nat /\ T[n].max \in Nat \cup {NoMax}
  BY NodeShape
<1>2. LastPart(T[n]) = IF T[n].max > T[n].min THEN T[n].max ELSE T[n].min
  BY DEF LastPart
<1> QED BY <1>1, <1>2 DEF After, Room, NoMax

LEMMA AfterSeq ==
    ASSUME NEW T, TableOK(T), NEW n \in DOMAIN T, T[n].op = "Seq", NEW k \in Nat
    PROVE  /\ After(T[n], k) \in 0..LastPart(T[n])
           /\ k >= Len(T[n].kids) => After(T[n], k) = Len(T[n].kids)
           /\ k < Len(T[n].kids)  => After(T[n], k) = k
<1>1. LastPart(T[n]) = Len(T[n].kids) /\ Len(T[n].kids) \in Nat
  BY NodeShape DEF LastPart
<1> QED BY <1>1 DEF After

LEMMA HasUnfolds ==
    ASSUME NEW T, NEW w, NEW L, IsLanguage(T, w, L), NEW n \in DOMAIN T, NEW k, NEW i, NEW j
    PROVE  Has(L, T, n, k, i, j) <=>
               /\ i \in Offsets(w) /\ j \in Offsets(w) /\ i <= j
               /\ After(T[n], k) \in 0..LastPart(T[n])
               /\ Derives(T, w, L, n, After(T[n], k), i, j)
<1>1. <<n, After(T[n], k), i, j>> \in L <=>
          /\ <<n, After(T[n], k), i, j>> \in Parts(T, w)
          /\ Derives(T, w, L, n, After(T[n], k), i, j)
  BY LanguageFixed DEF IsLanguage
<1> QED BY <1>1, PartsShape DEF Has

LEMMA HasRange ==
    ASSUME NEW T, NEW w, NEW L, IsLanguage(T, w, L), NEW n, NEW k, NEW i, NEW j,
           Has(L, T, n, k, i, j)
    PROVE  n \in DOMAIN T /\ i \in Offsets(w) /\ j \in Offsets(w) /\ i <= j
<1>1. <<n, After(T[n], k), i, j>> \in Parts(T, w)
  BY LanguageFixed DEF IsLanguage, Has
<1> QED BY <1>1, PartsShape

LEMMA HasRep ==
    ASSUME NEW T, NEW w, NEW L, IsLanguage(T, w, L), NEW n \in DOMAIN T, T[n].op = "Rep",
           NEW k \in Nat, NEW i \in Offsets(w), NEW j \in Offsets(w)
    PROVE  Has(L, T, n, k, i, j) <=>
               \/ k >= T[n].min /\ i = j
               \/ /\ Room(T, n, k)
                  /\ \E h \in Offsets(w) : /\ Has(L, T, T[n].kids[1], 0, i, h)
                                           /\ Has(L, T, n, k + 1, h, j)
<1> DEFINE kid == T[n].kids[1]
           a == After(T[n], k)
<1>1. kid \in DOMAIN T /\ After(T[kid], 0) = 0 /\ TableOK(T)
  BY NodeShape, AfterNone DEF IsLanguage
<1>2. /\ a \in 0..LastPart(T[n]) /\ (a >= T[n].min <=> k >= T[n].min)
      /\ Room(T, n, a) <=> Room(T, n, k)
      /\ After(T[n], a + 1) = After(T[n], k + 1)
  BY <1>1, AfterRep
<1>3. \A h : /\ <<kid, 0, i, h>> \in L <=> Has(L, T, kid, 0, i, h)
             /\ <<n, After(T[n], a + 1), h, j>> \in L <=> Has(L, T, n, k + 1, h, j)
  BY <1>1, <1>2 DEF Has
<1>4. Derives(T, w, L, n, a, i, j) <=>
          \/ a >= T[n].min /\ i = j
          \/ Room(T, n, a) /\ \E h \in i..j : /\ <<kid, 0, i, h>> \in L
                                              /\ <<n, After(T[n], a + 1), h, j>> \in L
  BY DEF Derives, Room
<1>5. Has(L, T, n, k, i, j) <=> i <= j /\ Derives(T, w, L, n, a, i, j)
  BY <1>2, HasUnfolds
<1>6. \A h : Has(L, T, kid, 0, i, h) /\ Has(L, T, n, k + 1, h, j)
                 => h \in Offsets(w) /\ h \in i..j /\ i <= j
  BY HasRange DEF Offsets
<1>7. i \in Nat /\ j \in Nat
  BY DEF Offsets, IsLanguage
<1> HIDE DEF kid, a
<1>8. Has(L, T, n, k, i, j) <=>
          /\ i <= j
          /\ \/ k >= T[n].min /\ i = j
             \/ Room(T, n, k) /\ \E h \in i..j : Has(L, T, kid, 0, i, h) /\ Has(L, T, n, k + 1, h, j)
  BY <1>2, <1>3, <1>4, <1>5
<1>9. (\E h \in i..j : Has(L, T, kid, 0, i, h) /\ Has(L, T, n, k + 1, h, j))
         <=> (\E h \in Offsets(w) : Has(L, T, kid, 0, i, h) /\ Has(L, T, n, k + 1, h, j))
  BY <1>6
<1>10. (\E h \in i..j : Has(L, T, kid, 0, i, h) /\ Has(L, T, n, k + 1, h, j)) => i <= j
  BY <1>6
<1>11. i = j => i <= j
  BY <1>7
<1> QED BY <1>8, <1>9, <1>10, <1>11 DEF kid

\* What a repetition with enough items can still match, it could match one item earlier.
LEMMA OneItemLess ==
    ASSUME NEW T, NEW w, NEW L, IsLanguage(T, w, L), NEW n \in DOMAIN T, T[n].op = "Rep",
           NEW k \in Nat, k >= T[n].min, NEW i, NEW j, Has(L, T, n, k + 1, i, j)
    PROVE  Has(L, T, n, k, i, j)
<1> DEFINE good(m, l, x, y) == T[m].op = "Rep" /\ l > T[m].min => Has(L, T, m, l - 1, x, y)
           X == {p \in L : good(p[1], p[2], p[3], p[4])}
<1>1. \A m, l, x, y : <<m, l, x, y>> \in X <=> <<m, l, x, y>> \in L /\ good(m, l, x, y)
  OBVIOUS
<1>2. ASSUME NEW m, NEW l, NEW x, NEW y,
             <<m, l, x, y>> \in L, Derives(T, w, X, m, l, x, y)
      PROVE  good(m, l, x, y)
  <2> SUFFICES ASSUME T[m].op = "Rep", l > T[m].min PROVE Has(L, T, m, l - 1, x, y)
    OBVIOUS
  <2> DEFINE kid == T[m].kids[1]
  <2>1. /\ m \in DOMAIN T /\ l \in 0..LastPart(T[m]) /\ x \in Offsets(w) /\ y \in Offsets(w)
        /\ TableOK(T)
    <3> HIDE DEF X, good, kid
    <3>1. <<m, l, x, y>> \in Parts(T, w)
      BY <1>2, LanguageFixed DEF IsLanguage
    <3> QED BY <3>1, PartsShape DEF IsLanguage
  <2>2. /\ l \in Nat /\ T[m].min \in Nat /\ T[m].max \in Nat \cup {NoMax} /\ kid \in DOMAIN T
        /\ LastPart(T[m]) \in Nat
    BY <2>1, NodeShape, LastPartNat
  <2>3. l - 1 \in Nat /\ (l - 1) + 1 = l /\ l - 1 >= T[m].min
    BY <2>2
  <2>4. Has(L, T, m, l - 1, x, y) <=>
            \/ l - 1 >= T[m].min /\ x = y
            \/ /\ Room(T, m, l - 1)
               /\ \E h \in Offsets(w) : Has(L, T, kid, 0, x, h) /\ Has(L, T, m, (l - 1) + 1, h, y)
    BY <2>1, <2>3, HasRep
  <2>5. \/ x = y
        \/ /\ Room(T, m, l)
           /\ \E h : /\ <<kid, 0, x, h>> \in X
                     /\ <<m, After(T[m], l + 1), h, y>> \in X
    <3> HIDE DEF X, good
    <3> QED BY <1>2 DEF Derives, Room
  <2>6. Room(T, m, l) => Room(T, m, l - 1)
    BY <2>2 DEF Room, NoMax
  <2>7. ASSUME NEW h, <<kid, 0, x, h>> \in X, <<m, After(T[m], l + 1), h, y>> \in X
        PROVE  h \in Offsets(w) /\ Has(L, T, kid, 0, x, h) /\ Has(L, T, m, l, h, y)
    <3>1. Has(L, T, kid, 0, x, h)
      BY <1>1, <2>1, <2>2, <2>7, AfterNone DEF Has
    <3>2. h \in Offsets(w)
      BY <3>1, HasRange
    <3>3. After(T[m], l) = l
      BY <2>1, <2>2, AfterRep
    <3>4. /\ l + 1 <= LastPart(T[m]) => After(T[m], l + 1) = l + 1
          /\ l + 1 > LastPart(T[m])  => After(T[m], l + 1) = l
      <4>1. l + 1 \in Nat /\ l <= LastPart(T[m])
        BY <2>1, <2>2
      <4>2. l + 1 > LastPart(T[m]) => l = LastPart(T[m])
        BY <2>2, <4>1
      <4> QED BY <2>1, <2>2, <4>1, <4>2, AfterRep
    <3>5. CASE l + 1 <= LastPart(T[m])
      <4>1. good(m, l + 1, h, y) /\ l + 1 > T[m].min
        BY <1>1, <2>2, <2>7, <3>4, <3>5
      <4>2. Has(L, T, m, (l + 1) - 1, h, y) /\ (l + 1) - 1 = l
        BY <2>2, <4>1
      <4> QED BY <3>1, <3>2, <4>2
    <3>6. CASE l + 1 > LastPart(T[m])
      <4>1. <<m, l, h, y>> \in L
        BY <1>1, <2>7, <3>4, <3>6
      <4> QED BY <3>1, <3>2, <3>3, <4>1 DEF Has
    <3> QED BY <2>2, <3>5, <3>6
  <2> HIDE DEF kid, X, good
  <2> QED BY <2>3, <2>4, <2>5, <2>6, <2>7
<1>3. L \subseteq X
  <2>1. X \subseteq L
    OBVIOUS
  <2> HIDE DEF X, good
  <2> QED BY <1>1, <1>2, <2>1, LanguageLeast DEF IsLanguage
<1>4. CASE k + 1 <= LastPart(T[n])
  <2>1. After(T[n], k + 1) = k + 1 /\ T[n].min \in Nat
    BY <1>4, AfterRep, NodeShape DEF IsLanguage
  <2>2. <<n, k + 1, i, j>> \in X
    BY <1>3, <2>1 DEF Has
  <2>3. good(n, k + 1, i, j) /\ k + 1 > T[n].min /\ (k + 1) - 1 = k
    BY <1>1, <2>1, <2>2
  <2> QED BY <2>3
<1>5. CASE k + 1 > LastPart(T[n])
  <2>1. LastPart(T[n]) \in Nat /\ k >= LastPart(T[n]) /\ k + 1 >= LastPart(T[n]) /\ TableOK(T)
    BY <1>5, LastPartNat DEF IsLanguage
  <2>2. After(T[n], k + 1) = After(T[n], k)
    BY <2>1, AfterRep
  <2> QED BY <2>2 DEF Has
<1>6. LastPart(T[n]) \in Nat
  BY LastPartNat DEF IsLanguage
<1> QED BY <1>4, <1>5, <1>6

\* No item that must be counted is empty.
Counted(T, w, L) ==
    \A n \in DOMAIN T : T[n].op = "Rep" /\ T[n].min > 1 =>
        \A i \in Offsets(w) : ~ Has(L, T, T[n].kids[1], 0, i, i)

\* A repetition ends here, goes on with an item that consumes, or ends with an empty one.
LEMMA ItemsConsume ==
    ASSUME NEW T, NEW w, NEW L, IsLanguage(T, w, L), Counted(T, w, L),
           NEW n \in DOMAIN T, T[n].op = "Rep", NEW k \in Nat, NEW i, NEW j,
           Has(L, T, n, k, i, j)
    PROVE  \/ k >= T[n].min /\ i = j
           \/ /\ Room(T, n, k)
              /\ \E h \in Offsets(w) : /\ h # i /\ Has(L, T, T[n].kids[1], 0, i, h)
                                       /\ Has(L, T, n, k + 1, h, j)
           \/ /\ Room(T, n, k) /\ i = j /\ k + 1 >= T[n].min
              /\ Has(L, T, T[n].kids[1], 0, i, i)
<1> DEFINE shape(m, l, x, y) ==
               \/ l >= T[m].min /\ x = y
               \/ /\ Room(T, m, l)
                  /\ \E h \in Offsets(w) : /\ h # x /\ Has(L, T, T[m].kids[1], 0, x, h)
                                           /\ Has(L, T, m, l + 1, h, y)
               \/ /\ Room(T, m, l) /\ x = y /\ l + 1 >= T[m].min
                  /\ Has(L, T, T[m].kids[1], 0, x, x)
           good(m, l, x, y) == T[m].op = "Rep" => shape(m, l, x, y)
           X == {p \in L : good(p[1], p[2], p[3], p[4])}
<1>1. \A m, l, x, y : <<m, l, x, y>> \in X <=> <<m, l, x, y>> \in L /\ good(m, l, x, y)
  <2> HIDE DEF good
  <2> QED OBVIOUS
<1>2. ASSUME NEW m \in DOMAIN T, T[m].op = "Rep", NEW l \in Nat, NEW x, NEW y
      PROVE  shape(m, After(T[m], l), x, y) <=> shape(m, l, x, y)
  <2>1. /\ After(T[m], l) >= T[m].min <=> l >= T[m].min
        /\ After(T[m], l) + 1 >= T[m].min <=> l + 1 >= T[m].min
        /\ Room(T, m, After(T[m], l)) <=> Room(T, m, l)
        /\ After(T[m], After(T[m], l) + 1) = After(T[m], l + 1)
    <3>1. /\ After(T[m], l) \in 0..LastPart(T[m])
          /\ l <= LastPart(T[m]) => After(T[m], l) = l
          /\ l >= LastPart(T[m]) => After(T[m], l) = LastPart(T[m])
          /\ LastPart(T[m]) \in Nat /\ LastPart(T[m]) >= T[m].min /\ T[m].min \in Nat
          /\ After(T[m], l) >= T[m].min <=> l >= T[m].min
          /\ Room(T, m, After(T[m], l)) <=> Room(T, m, l)
          /\ After(T[m], After(T[m], l) + 1) = After(T[m], l + 1)
      <4> HIDE DEF shape, good, X
      <4>1. TableOK(T)
        BY DEF IsLanguage
      <4>2. T[m].min \in Nat
        BY <4>1, NodeShape
      <4> QED BY <4>1, <4>2, <1>2, AfterRep
    <3> QED BY <3>1
  <2>2. \A h : Has(L, T, m, After(T[m], l) + 1, h, y) <=> Has(L, T, m, l + 1, h, y)
    BY <2>1 DEF Has
  <2> QED BY <2>1, <2>2
<1>3. ASSUME NEW m, NEW l, NEW x, NEW y,
             <<m, l, x, y>> \in L, Derives(T, w, X, m, l, x, y)
      PROVE  good(m, l, x, y)
  <2> SUFFICES ASSUME T[m].op = "Rep" PROVE shape(m, l, x, y)
    OBVIOUS
  <2> DEFINE kid == T[m].kids[1]
  <2>1. /\ m \in DOMAIN T /\ l \in 0..LastPart(T[m]) /\ x \in Offsets(w) /\ y \in Offsets(w)
        /\ TableOK(T)
    <3> HIDE DEF X, good, kid
    <3>1. <<m, l, x, y>> \in Parts(T, w)
      BY <1>3, LanguageFixed DEF IsLanguage
    <3> QED BY <3>1, PartsShape DEF IsLanguage
  <2>2. /\ l \in Nat /\ T[m].min \in Nat /\ T[m].max \in Nat \cup {NoMax} /\ kid \in DOMAIN T
        /\ LastPart(T[m]) \in Nat
    BY <2>1, NodeShape, LastPartNat
  <2>3. \/ l >= T[m].min /\ x = y
        \/ /\ Room(T, m, l)
           /\ \E h : /\ <<kid, 0, x, h>> \in X
                     /\ <<m, After(T[m], l + 1), h, y>> \in X
    <3> HIDE DEF X, good
    <3> QED BY <1>3 DEF Derives, Room
  <2>4. ASSUME Room(T, m, l), NEW h, <<kid, 0, x, h>> \in X, <<m, After(T[m], l + 1), h, y>> \in X
        PROVE  shape(m, l, x, y)
    <3>1. Has(L, T, kid, 0, x, h) /\ Has(L, T, m, l + 1, h, y)
      <4> HIDE DEF kid, X, good, shape
      <4>1. After(T[kid], 0) = 0
        BY <2>1, <2>2, AfterNone
      <4>2. <<kid, 0, x, h>> \in L /\ <<m, After(T[m], l + 1), h, y>> \in L
        BY <1>1, <2>4
      <4> QED BY <4>1, <4>2 DEF Has
    <3>2. h \in Offsets(w)
      BY <3>1, HasRange
    <3>3. CASE h # x
      BY <2>4, <3>1, <3>2, <3>3
    <3>4. CASE h = x
      <4>1. l + 1 >= T[m].min
        <5>1. ~ (T[m].min > 1)
          BY <2>1, <3>1, <3>4 DEF Counted
        <5> QED BY <2>2, <5>1
      <4>2. CASE x = y
        BY <2>4, <3>1, <3>4, <4>1, <4>2
      <4>3. CASE x # y
        <5>1. shape(m, l + 1, x, y)
          <6>1. good(m, After(T[m], l + 1), x, y)
            BY <1>1, <2>4, <3>4
          <6>2. shape(m, After(T[m], l + 1), x, y) /\ l + 1 \in Nat
            BY <2>2, <6>1
          <6> HIDE DEF shape
          <6> QED BY <1>2, <2>1, <6>2
        <5>2. PICK g \in Offsets(w) : /\ g # x /\ Has(L, T, kid, 0, x, g)
                                      /\ Has(L, T, m, (l + 1) + 1, g, y)
          BY <4>3, <5>1
        <5>3. Has(L, T, m, l + 1, g, y)
          <6>1. l + 1 \in Nat
            BY <2>2
          <6> QED BY <2>1, <4>1, <5>2, <6>1, OneItemLess
        <5> QED BY <2>4, <5>2, <5>3
      <4> QED BY <4>2, <4>3
    <3> QED BY <3>3, <3>4
  <2> HIDE DEF kid, X, good
  <2> QED BY <2>3, <2>4
<1>4. L \subseteq X
  <2>1. X \subseteq L
    <3> HIDE DEF good
    <3> QED OBVIOUS
  <2> HIDE DEF X, good
  <2> QED BY <1>1, <1>3, <2>1, LanguageLeast DEF IsLanguage
<1>5. shape(n, After(T[n], k), i, j)
  <2>1. <<n, After(T[n], k), i, j>> \in X
    <3> HIDE DEF X
    <3> QED BY <1>4 DEF Has
  <2>2. good(n, After(T[n], k), i, j)
    <3> HIDE DEF good, X
    <3> QED BY <1>1, <2>1
  <2> HIDE DEF shape
  <2> QED BY <2>2
<1>6. shape(n, k, i, j)
  <2> HIDE DEF shape
  <2> QED BY <1>2, <1>5
<1> QED BY <1>6
-----------------------------------------------------------------------------
(***************************************************************************)
(* What a continuation can match, up to the end of the input.              *)
(***************************************************************************)
\* Obligation c from i to h: the elements a sequence has left, or the items of a
\* repetition, which an empty item has ended.
Meets(L, T, c, i, h) ==
    IF T[c.node].op = "Seq" THEN Has(L, T, c.node, c.k - 1, i, h)
    ELSE IF i = c.start     THEN c.k >= T[c.node].min /\ h = i
                            ELSE Has(L, T, c.node, c.k, i, h)

Trip(L, T, end, cont, e) ==
    /\ e \in [1..(Len(cont) + 1) -> 0..end]
    /\ e[Len(cont) + 1] = end
    /\ \A x \in 1..Len(cont) : Meets(L, T, cont[x], e[x], e[x + 1])

Completes(L, T, end, i, cont) == \E e : Trip(L, T, end, cont, e) /\ e[1] = i

\* Node n, k elements or items done, and then the continuation.
Leads(L, T, end, n, k, i, cont) ==
    \E j \in 0..end : Has(L, T, n, k, i, j) /\ Completes(L, T, end, j, cont)

LEMMA CompletesNone ==
    ASSUME NEW L, NEW T, NEW end \in Nat, NEW i
    PROVE  Completes(L, T, end, i, << >>) <=> i = end
<1>1. ASSUME Completes(L, T, end, i, << >>) PROVE i = end
  BY <1>1 DEF Completes, Trip
<1>2. ASSUME i = end PROVE Completes(L, T, end, i, << >>)
  <2> DEFINE e == [x \in 1..1 |-> end]
  <2>1. e[1] = i /\ e \in [1..(Len(<< >>) + 1) -> 0..end] /\ e[Len(<< >>) + 1] = end
    BY <1>2
  <2>2. Trip(L, T, end, << >>, e)
    <3> HIDE DEF e
    <3> QED BY <2>1 DEF Trip
  <2> HIDE DEF e
  <2> QED BY <2>1, <2>2 DEF Completes
<1> QED BY <1>1, <1>2

LEMMA CompletesInRange ==
    ASSUME NEW L, NEW T, NEW end, NEW S, NEW cont \in Seq(S), NEW i,
           Completes(L, T, end, i, cont)
    PROVE  i \in 0..end
<1>1. PICK e : Trip(L, T, end, cont, e) /\ e[1] = i
  BY DEF Completes
<1>2. 1 \in 1..(Len(cont) + 1)
  OBVIOUS
<1> QED BY <1>1, <1>2 DEF Trip

LEMMA CompletesCons ==
    ASSUME NEW L, NEW T, NEW end, NEW S, NEW cont \in Seq(S), cont # << >>, NEW i \in 0..end
    PROVE  Completes(L, T, end, i, cont) <=>
               \E h \in 0..end : /\ Meets(L, T, Head(cont), i, h)
                                 /\ Completes(L, T, end, h, Tail(cont))
<1> DEFINE N == Len(cont)
           rest == Tail(cont)
<1>1. /\ N \in Nat \ {0} /\ rest \in Seq(S) /\ Len(rest) = N - 1 /\ Head(cont) = cont[1]
      /\ \A x \in 1..(N - 1) : rest[x] = cont[x + 1]
  OBVIOUS
<1> HIDE DEF N, rest
<1>2. ASSUME Completes(L, T, end, i, cont)
      PROVE  \E h \in 0..end : Meets(L, T, Head(cont), i, h) /\ Completes(L, T, end, h, rest)
  <2>1. PICK e : Trip(L, T, end, cont, e) /\ e[1] = i
    BY <1>2 DEF Completes
  <2>2. /\ e \in [1..(N + 1) -> 0..end] /\ e[N + 1] = end
        /\ \A x \in 1..N : Meets(L, T, cont[x], e[x], e[x + 1])
    BY <2>1 DEF Trip, N
  <2> DEFINE f == [x \in 1..N |-> e[x + 1]]
  <2>3. f \in [1..((N - 1) + 1) -> 0..end] /\ f[(N - 1) + 1] = end /\ f[1] = e[2]
    BY <1>1, <2>2
  <2>4. ASSUME NEW x \in 1..(N - 1) PROVE Meets(L, T, rest[x], f[x], f[x + 1])
    <3>1. x + 1 \in 1..N /\ x \in 1..N
      BY <1>1
    <3>2. Meets(L, T, cont[x + 1], e[x + 1], e[(x + 1) + 1])
      BY <2>2, <3>1
    <3> QED BY <1>1, <3>1, <3>2
  <2> HIDE DEF f
  <2>5. Trip(L, T, end, rest, f)
    BY <1>1, <2>3, <2>4 DEF Trip
  <2>6. Completes(L, T, end, e[2], rest)
    BY <2>3, <2>5 DEF Completes
  <2>7. Meets(L, T, cont[1], e[1], e[1 + 1]) /\ 1 + 1 = 2 /\ e[2] \in 0..end
    BY <1>1, <2>2
  <2> QED BY <1>1, <2>1, <2>6, <2>7
<1>3. ASSUME NEW h \in 0..end, Meets(L, T, Head(cont), i, h), Completes(L, T, end, h, rest)
      PROVE  Completes(L, T, end, i, cont)
  <2>1. PICK e : Trip(L, T, end, rest, e) /\ e[1] = h
    BY <1>3 DEF Completes
  <2>2. /\ e \in [1..N -> 0..end] /\ e[N] = end
        /\ \A x \in 1..(N - 1) : Meets(L, T, rest[x], e[x], e[x + 1])
    BY <1>1, <2>1 DEF Trip
  <2> DEFINE f == [x \in 1..(N + 1) |-> IF x = 1 THEN i ELSE e[x - 1]]
  <2>3. f \in [1..(N + 1) -> 0..end] /\ f[1] = i /\ \A x \in 1..N : f[x + 1] = e[x]
    BY <1>1, <2>2
  <2> HIDE DEF f
  <2>4. ASSUME NEW x \in 1..N PROVE Meets(L, T, cont[x], f[x], f[x + 1])
    <3>1. CASE x = 1
      BY <1>1, <1>3, <2>1, <2>3, <3>1
    <3>2. CASE x # 1
      <4>1. x - 1 \in 1..(N - 1) /\ (x - 1) + 1 = x /\ x - 1 \in 1..N
        BY <1>1, <3>2
      <4>2. Meets(L, T, rest[x - 1], e[x - 1], e[(x - 1) + 1])
        BY <2>2, <4>1
      <4>3. rest[x - 1] = cont[x] /\ f[x] = e[x - 1] /\ f[x + 1] = e[x]
        <5>1. rest[x - 1] = cont[(x - 1) + 1] /\ f[(x - 1) + 1] = e[x - 1]
          BY <1>1, <2>3, <4>1
        <5> QED BY <2>3, <4>1, <5>1
      <4> QED BY <4>1, <4>2, <4>3
    <3> QED BY <3>1, <3>2
  <2>5. f[N + 1] = end
    BY <1>1, <2>2, <2>3
  <2>6. Trip(L, T, end, cont, f)
    BY <2>3, <2>4, <2>5 DEF Trip, N
  <2> QED BY <2>3, <2>6 DEF Completes
<1> QED BY <1>2, <1>3 DEF rest

LEMMA ConsShape ==
    ASSUME NEW S, NEW c \in S, NEW s \in Seq(S)
    PROVE  /\ <<c>> \o s \in Seq(S) /\ <<c>> \o s # << >>
           /\ Head(<<c>> \o s) = c /\ Tail(<<c>> \o s) = s
OBVIOUS

LEMMA MatchAtRange ==
    ASSUME NEW t, t.vals \in Seq(Nat), NEW w, Len(w) \in Nat, NEW i \in Nat
    PROVE  MatchAt(t, w, i) = NoMatch \/ MatchAt(t, w, i) \in i..Len(w)
<1>1. Len(t.vals) \in Nat
  OBVIOUS
<1>2. Width(t) \in Nat
  BY <1>1 DEF Width
<1> QED BY <1>2 DEF MatchAt

\* The nodes that have one part only.
LEMMA HasWhole ==
    ASSUME NEW T, NEW w, NEW L, IsLanguage(T, w, L), NEW n \in DOMAIN T,
           NEW i \in Offsets(w), NEW j \in Offsets(w)
    PROVE  /\ T[n].op = "Pass" =>
                  (Has(L, T, n, 0, i, j) <=> Has(L, T, T[n].kids[1], 0, i, j))
           /\ T[n].op = "Alt" =>
                  (Has(L, T, n, 0, i, j) <=>
                       \E b \in 1..Len(T[n].kids) : Has(L, T, T[n].kids[b], 0, i, j))
           /\ T[n].op = "Opt" =>
                  (Has(L, T, n, 0, i, j) <=> i = j \/ Has(L, T, T[n].kids[1], 0, i, j))
           /\ T[n].op = "Term" =>
                  (Has(L, T, n, 0, i, j) <=> j = MatchAt(T[n].term, w, i))
<1>1. TableOK(T) /\ Len(w) \in Nat /\ i \in Nat /\ j \in Nat
  BY DEF IsLanguage, Offsets
<1>2. After(T[n], 0) = 0
  BY <1>1, AfterNone
<1>3. Has(L, T, n, 0, i, j) <=> i <= j /\ Derives(T, w, L, n, 0, i, j)
  <2>1. LastPart(T[n]) \in Nat
    BY <1>1, LastPartNat
  <2> QED BY <1>2, <2>1, HasUnfolds
<1>4. ASSUME NEW m \in DOMAIN T
      PROVE  /\ <<m, 0, i, j>> \in L <=> Has(L, T, m, 0, i, j)
             /\ Has(L, T, m, 0, i, j) => i <= j
  <2>1. After(T[m], 0) = 0
    BY <1>1, AfterNone
  <2>2. Has(L, T, m, 0, i, j) => i <= j
    BY HasRange
  <2> QED BY <2>1, <2>2 DEF Has
<1>5. \A b \in 1..Len(T[n].kids) : T[n].kids[b] \in DOMAIN T
  BY <1>1, NodeShape
<1>6. T[n].op \in {"Pass", "Opt"} => T[n].kids[1] \in DOMAIN T
  BY <1>1, NodeShape
<1>7. CASE T[n].op = "Pass"
  <2>1. Derives(T, w, L, n, 0, i, j) <=> <<T[n].kids[1], 0, i, j>> \in L
    BY <1>7 DEF Derives
  <2> QED BY <1>3, <1>4, <1>6, <1>7, <2>1
<1>8. CASE T[n].op = "Alt"
  <2>1. Derives(T, w, L, n, 0, i, j) <=>
            \E b \in 1..Len(T[n].kids) : <<T[n].kids[b], 0, i, j>> \in L
    BY <1>8 DEF Derives
  <2> QED BY <1>3, <1>4, <1>5, <1>8, <2>1
<1>9. CASE T[n].op = "Opt"
  <2>1. Derives(T, w, L, n, 0, i, j) <=> i = j \/ <<T[n].kids[1], 0, i, j>> \in L
    BY <1>9 DEF Derives
  <2> QED BY <1>1, <1>3, <1>4, <1>6, <1>9, <2>1
<1>10. CASE T[n].op = "Term"
  <2>1. Derives(T, w, L, n, 0, i, j) <=> j = MatchAt(T[n].term, w, i)
    BY <1>10 DEF Derives
  <2>2. MatchAt(T[n].term, w, i) = NoMatch \/ MatchAt(T[n].term, w, i) \in i..Len(w)
    BY <1>1, MatchAtRange DEF TableOK, NodeOK
  <2>3. j = MatchAt(T[n].term, w, i) => i <= j
    BY <1>1, <2>2 DEF NoMatch
  <2> QED BY <1>3, <1>10, <2>1, <2>3
<1> QED BY <1>7, <1>8, <1>9, <1>10

LEMMA HasSeq ==
    ASSUME NEW T, NEW w, NEW L, IsLanguage(T, w, L), NEW n \in DOMAIN T, T[n].op = "Seq",
           NEW k \in Nat, NEW i \in Offsets(w), NEW j \in Offsets(w)
    PROVE  /\ k >= Len(T[n].kids) => (Has(L, T, n, k, i, j) <=> i = j)
           /\ k < Len(T[n].kids) =>
                  (Has(L, T, n, k, i, j) <=>
                       \E h \in Offsets(w) : /\ Has(L, T, T[n].kids[k + 1], 0, i, h)
                                             /\ Has(L, T, n, k + 1, h, j))
<1> DEFINE a == After(T[n], k)
           kid == T[n].kids[k + 1]
           N == Len(T[n].kids)
<1>1. TableOK(T) /\ Len(w) \in Nat /\ i \in Nat /\ j \in Nat /\ N \in Nat
  BY NodeShape DEF IsLanguage, Offsets
<1>2. /\ a \in 0..LastPart(T[n])
      /\ k >= N => a = N
      /\ k < N  => a = k
  BY <1>1, AfterSeq
<1>3. Has(L, T, n, k, i, j) <=> i <= j /\ Derives(T, w, L, n, a, i, j)
  BY <1>2, HasUnfolds
<1>4. CASE k >= N
  <2>1. Derives(T, w, L, n, a, i, j) <=> i = j
    BY <1>2, <1>4 DEF Derives
  <2> QED BY <1>1, <1>3, <1>4, <2>1
<1>5. CASE k < N
  <2>1. kid \in DOMAIN T /\ After(T[kid], 0) = 0
    <3>1. kid \in DOMAIN T
      BY <1>1, <1>5, NodeShape
    <3> QED BY <1>1, <3>1, AfterNone
  <2>2. Derives(T, w, L, n, a, i, j) <=>
            \E h \in i..j : /\ <<kid, 0, i, h>> \in L
                            /\ <<n, After(T[n], k + 1), h, j>> \in L
    <3>1. a = k /\ k # N
      BY <1>1, <1>2, <1>5
    <3> QED BY <3>1 DEF Derives
  <2>3. \A h : /\ <<kid, 0, i, h>> \in L <=> Has(L, T, kid, 0, i, h)
               /\ <<n, After(T[n], k + 1), h, j>> \in L <=> Has(L, T, n, k + 1, h, j)
    BY <2>1 DEF Has
  <2>4. \A h : Has(L, T, kid, 0, i, h) /\ Has(L, T, n, k + 1, h, j)
                   => h \in Offsets(w) /\ h \in i..j /\ i <= j
    <3> SUFFICES ASSUME NEW h, Has(L, T, kid, 0, i, h), Has(L, T, n, k + 1, h, j)
                 PROVE  h \in Offsets(w) /\ h \in i..j /\ i <= j
      OBVIOUS
    <3>1. h \in Offsets(w) /\ i <= h /\ h <= j
      BY HasRange
    <3> QED BY <1>1, <3>1 DEF Offsets
  <2> HIDE DEF kid, a, N
  <2>5. (\E h \in i..j : Has(L, T, kid, 0, i, h) /\ Has(L, T, n, k + 1, h, j))
           <=> (\E h \in Offsets(w) : Has(L, T, kid, 0, i, h) /\ Has(L, T, n, k + 1, h, j))
    BY <2>4
  <2>6. (\E h \in i..j : Has(L, T, kid, 0, i, h) /\ Has(L, T, n, k + 1, h, j)) => i <= j
    BY <2>4
  <2>7. Has(L, T, n, k, i, j) <=>
            \E h \in Offsets(w) : Has(L, T, kid, 0, i, h) /\ Has(L, T, n, k + 1, h, j)
    BY <1>3, <2>2, <2>3, <2>5, <2>6
  <2>8. ~ (k >= N)
    BY <1>1, <1>5
  <2> QED BY <1>5, <2>7, <2>8 DEF kid, N
<1> QED BY <1>1, <1>4, <1>5

LEMMA CompletesItem ==
    ASSUME NEW L, NEW T, NEW end, NEW S, NEW cont \in Seq(S), cont # << >>, NEW i \in 0..end,
           NEW c, c = Head(cont)
    PROVE  /\ T[c.node].op = "Seq" =>
                  (Completes(L, T, end, i, cont) <=> Leads(L, T, end, c.node, c.k - 1, i, Tail(cont)))
           /\ T[c.node].op = "Rep" /\ i # c.start =>
                  (Completes(L, T, end, i, cont) <=> Leads(L, T, end, c.node, c.k, i, Tail(cont)))
           /\ T[c.node].op = "Rep" /\ i = c.start =>
                  (Completes(L, T, end, i, cont) <=>
                       c.k >= T[c.node].min /\ Completes(L, T, end, i, Tail(cont)))
<1>1. Completes(L, T, end, i, cont) <=>
          \E h \in 0..end : Meets(L, T, c, i, h) /\ Completes(L, T, end, h, Tail(cont))
  BY CompletesCons
<1> QED BY <1>1 DEF Meets, Leads

LEMMA LeadsWhole ==
    ASSUME NEW T, NEW w, NEW L, IsLanguage(T, w, L), NEW n \in DOMAIN T, NEW i \in Offsets(w),
           NEW cont, NEW end, end = Len(w)
    PROVE  /\ T[n].op = "Pass" =>
                  (Leads(L, T, end, n, 0, i, cont) <=> Leads(L, T, end, T[n].kids[1], 0, i, cont))
           /\ T[n].op = "Alt" =>
                  (Leads(L, T, end, n, 0, i, cont) <=>
                       \E b \in 1..Len(T[n].kids) : Leads(L, T, end, T[n].kids[b], 0, i, cont))
           /\ T[n].op = "Opt" =>
                  (Leads(L, T, end, n, 0, i, cont) <=>
                       \/ Completes(L, T, end, i, cont)
                       \/ Leads(L, T, end, T[n].kids[1], 0, i, cont))
           /\ T[n].op = "Term" =>
                  (Leads(L, T, end, n, 0, i, cont) <=>
                       /\ MatchAt(T[n].term, w, i) # NoMatch
                       /\ Completes(L, T, end, MatchAt(T[n].term, w, i), cont))
<1>1. Offsets(w) = 0..end /\ i \in Nat /\ Len(w) \in Nat
  BY DEF Offsets, IsLanguage
<1>2. CASE T[n].op = "Pass"
  <2>1. \A j \in 0..end : Has(L, T, n, 0, i, j) <=> Has(L, T, T[n].kids[1], 0, i, j)
    BY <1>1, <1>2, HasWhole
  <2> QED BY <1>2, <2>1 DEF Leads
<1>3. CASE T[n].op = "Alt"
  <2>1. \A j \in 0..end : Has(L, T, n, 0, i, j) <=>
                              \E b \in 1..Len(T[n].kids) : Has(L, T, T[n].kids[b], 0, i, j)
    BY <1>1, <1>3, HasWhole
  <2> QED BY <1>3, <2>1 DEF Leads
<1>4. CASE T[n].op = "Opt"
  <2>1. \A j \in 0..end : Has(L, T, n, 0, i, j) <=> i = j \/ Has(L, T, T[n].kids[1], 0, i, j)
    BY <1>1, <1>4, HasWhole
  <2> QED BY <1>1, <1>4, <2>1 DEF Leads
<1>5. CASE T[n].op = "Term"
  <2>1. ASSUME NEW j \in 0..end PROVE Has(L, T, n, 0, i, j) <=> j = MatchAt(T[n].term, w, i)
    <3>1. j \in Offsets(w)
      BY <1>1
    <3> QED BY <1>5, <3>1, HasWhole
  <2>2. MatchAt(T[n].term, w, i) = NoMatch \/ MatchAt(T[n].term, w, i) \in i..Len(w)
    BY <1>1, MatchAtRange DEF TableOK, NodeOK, IsLanguage
  <2>3. MatchAt(T[n].term, w, i) # NoMatch <=> MatchAt(T[n].term, w, i) \in 0..end
    BY <1>1, <2>2 DEF NoMatch
  <2> QED BY <1>5, <2>1, <2>3 DEF Leads
<1> QED BY <1>2, <1>3, <1>4, <1>5

LEMMA LeadsSeq ==
    ASSUME NEW T, NEW w, NEW L, IsLanguage(T, w, L), NEW n \in DOMAIN T, T[n].op = "Seq",
           NEW k \in Nat, NEW i \in Offsets(w), NEW S, NEW cont \in Seq(S),
           NEW c \in S, c.node = n, c.k = k + 2, NEW end, end = Len(w)
    PROVE  Leads(L, T, end, n, k, i, cont) <=>
               IF k >= Len(T[n].kids) THEN Completes(L, T, end, i, cont)
               ELSE Leads(L, T, end, T[n].kids[k + 1], 0, i, <<c>> \o cont)
<1> DEFINE kid == T[n].kids[k + 1]
           N == Len(T[n].kids)
<1>1. Offsets(w) = 0..end /\ i \in Nat /\ Len(w) \in Nat /\ N \in Nat
  BY NodeShape DEF Offsets, IsLanguage
<1>2. ASSUME NEW j \in 0..end
      PROVE  Has(L, T, n, k, i, j) <=>
                 IF k >= N THEN i = j
                 ELSE \E h \in 0..end : Has(L, T, kid, 0, i, h) /\ Has(L, T, n, k + 1, h, j)
  <2>1. j \in Offsets(w)
    BY <1>1
  <2>2. /\ k >= N => (Has(L, T, n, k, i, j) <=> i = j)
        /\ k < N =>
              (Has(L, T, n, k, i, j) <=>
                   \E h \in Offsets(w) : Has(L, T, kid, 0, i, h) /\ Has(L, T, n, k + 1, h, j))
    <3>1. /\ n \in DOMAIN T /\ T[n].op = "Seq" /\ IsLanguage(T, w, L)
          /\ k \in Nat /\ i \in Offsets(w)
      OBVIOUS
    <3>2. \A l \in Nat, x \in Offsets(w), y \in Offsets(w) :
              /\ l >= Len(T[n].kids) => (Has(L, T, n, l, x, y) <=> x = y)
              /\ l < Len(T[n].kids) =>
                     (Has(L, T, n, l, x, y) <=>
                          \E h \in Offsets(w) : /\ Has(L, T, T[n].kids[l + 1], 0, x, h)
                                                /\ Has(L, T, n, l + 1, h, y))
      BY ONLY <3>1, HasSeq
    <3>3. /\ k >= Len(T[n].kids) => (Has(L, T, n, k, i, j) <=> i = j)
          /\ k < Len(T[n].kids) =>
                 (Has(L, T, n, k, i, j) <=>
                      \E h \in Offsets(w) : /\ Has(L, T, T[n].kids[k + 1], 0, i, h)
                                            /\ Has(L, T, n, k + 1, h, j))
      BY ONLY <2>1, <3>1, <3>2, Zenon
    <3> QED BY <3>3
  <2>3. ~ (k >= N) => k < N
    BY <1>1
  <2> HIDE DEF kid, N
  <2> QED BY <1>1, <2>2, <2>3
<1> HIDE DEF kid, N
<1>3. CASE k >= N
  <2>1. Leads(L, T, end, n, k, i, cont) <=> Completes(L, T, end, i, cont)
    BY <1>1, <1>2, <1>3 DEF Leads
  <2> QED BY <1>3, <2>1 DEF N
<1>4. CASE ~ (k >= N)
  <2>1. <<c>> \o cont \in Seq(S) /\ <<c>> \o cont # << >>
        /\ Head(<<c>> \o cont) = c /\ Tail(<<c>> \o cont) = cont
    BY ConsShape
  <2>2. ASSUME NEW h \in 0..end
        PROVE  Completes(L, T, end, h, <<c>> \o cont) <=> Leads(L, T, end, n, k + 1, h, cont)
    <3> DEFINE all == <<c>> \o cont
    <3>1. all \in Seq(S) /\ all # << >> /\ c = Head(all) /\ Tail(all) = cont
      BY <2>1
    <3> HIDE DEF all
    <3>2. T[c.node].op = "Seq" =>
              (Completes(L, T, end, h, all) <=> Leads(L, T, end, c.node, c.k - 1, h, Tail(all)))
      BY <3>1, CompletesItem
    <3>3. c.k - 1 = k + 1
      OBVIOUS
    <3> QED BY <3>1, <3>2, <3>3 DEF all
  <2>3. Leads(L, T, end, kid, 0, i, <<c>> \o cont) <=>
            \E h \in 0..end : /\ Has(L, T, kid, 0, i, h)
                              /\ \E j \in 0..end : /\ Has(L, T, n, k + 1, h, j)
                                                   /\ Completes(L, T, end, j, cont)
    BY <2>2 DEF Leads
  <2>4. Leads(L, T, end, n, k, i, cont) <=>
            \E j \in 0..end : /\ \E h \in 0..end : /\ Has(L, T, kid, 0, i, h)
                                                   /\ Has(L, T, n, k + 1, h, j)
                              /\ Completes(L, T, end, j, cont)
    BY <1>2, <1>4 DEF Leads
  <2>5. Leads(L, T, end, n, k, i, cont) <=> Leads(L, T, end, kid, 0, i, <<c>> \o cont)
    BY <2>3, <2>4
  <2> QED BY <1>4, <2>5 DEF kid, N
<1> QED BY <1>3, <1>4

\* Trying one more item and, if that fails, settling, misses nothing.
LEMMA LeadsRep ==
    ASSUME NEW T, NEW w, NEW L, IsLanguage(T, w, L), NEW n \in DOMAIN T, T[n].op = "Rep",
           NEW k \in Nat, NEW i \in Offsets(w), NEW S, NEW cont \in Seq(S),
           NEW c \in S, c.node = n, c.k = k + 1, c.start = i, NEW end, end = Len(w)
    PROVE  LET again   == Leads(L, T, end, T[n].kids[1], 0, i, <<c>> \o cont)
               settled == k >= T[n].min /\ Completes(L, T, end, i, cont)
               whole   == Leads(L, T, end, n, k, i, cont)
           IN  /\ settled => whole
               /\ Room(T, n, k) /\ again => whole
               /\ ~ Room(T, n, k) => (whole => settled)
               /\ Counted(T, w, L) => (whole => again \/ settled)
<1> DEFINE kid == T[n].kids[1]
           again   == Leads(L, T, end, kid, 0, i, <<c>> \o cont)
           settled == k >= T[n].min /\ Completes(L, T, end, i, cont)
           whole   == Leads(L, T, end, n, k, i, cont)
<1>1. Offsets(w) = 0..end /\ i \in Nat /\ Len(w) \in Nat /\ i \in 0..end /\ T[n].min \in Nat
  BY NodeShape DEF Offsets, IsLanguage
<1>2. /\ <<c>> \o cont \in Seq(S) /\ <<c>> \o cont # << >>
      /\ Head(<<c>> \o cont) = c /\ Tail(<<c>> \o cont) = cont
  BY ConsShape
<1>3. ASSUME NEW m \in Nat, NEW x \in 0..end, NEW y \in 0..end
      PROVE  Has(L, T, n, m, x, y) <=>
                 \/ m >= T[n].min /\ x = y
                 \/ /\ Room(T, n, m)
                    /\ \E h \in 0..end : Has(L, T, kid, 0, x, h) /\ Has(L, T, n, m + 1, h, y)
  <2>1. x \in Offsets(w) /\ y \in Offsets(w)
    BY <1>1
  <2>2. Has(L, T, n, m, x, y) <=>
            \/ m >= T[n].min /\ x = y
            \/ /\ Room(T, n, m)
               /\ \E h \in Offsets(w) : Has(L, T, kid, 0, x, h) /\ Has(L, T, n, m + 1, h, y)
    BY <2>1, HasRep
  <2> HIDE DEF kid
  <2> QED BY <1>1, <2>2
<1>4. ASSUME NEW h \in 0..end
      PROVE  /\ h # i => (Completes(L, T, end, h, <<c>> \o cont) <=>
                              Leads(L, T, end, n, k + 1, h, cont))
             /\ h = i => (Completes(L, T, end, h, <<c>> \o cont) <=>
                              k + 1 >= T[n].min /\ Completes(L, T, end, i, cont))
  <2> DEFINE all == <<c>> \o cont
  <2>1. all \in Seq(S) /\ all # << >> /\ c = Head(all) /\ Tail(all) = cont
    BY <1>2
  <2> HIDE DEF all
  <2>2. /\ T[c.node].op = "Rep" /\ h # c.start =>
              (Completes(L, T, end, h, all) <=> Leads(L, T, end, c.node, c.k, h, Tail(all)))
        /\ T[c.node].op = "Rep" /\ h = c.start =>
              (Completes(L, T, end, h, all) <=>
                   c.k >= T[c.node].min /\ Completes(L, T, end, h, Tail(all)))
    <3>1. h \in 0..end
      OBVIOUS
    <3> QED BY ONLY <2>1, <3>1, CompletesItem
  <2>3. /\ h # i => (Completes(L, T, end, h, all) <=> Leads(L, T, end, n, k + 1, h, cont))
        /\ h = i => (Completes(L, T, end, h, all) <=>
                         k + 1 >= T[n].min /\ Completes(L, T, end, i, cont))
    <3>1. T[c.node].op = "Rep" /\ c.node = n /\ c.k = k + 1 /\ c.start = i /\ Tail(all) = cont
      BY <2>1
    <3>2. h # i => (Completes(L, T, end, h, all) <=> Leads(L, T, end, n, k + 1, h, cont))
      BY <2>2, <3>1, Zenon
    <3>3. h = i => (Completes(L, T, end, h, all) <=>
                       k + 1 >= T[n].min /\ Completes(L, T, end, i, cont))
      BY <2>2, <3>1, Zenon
    <3> QED BY <3>2, <3>3
  <2> QED BY <2>3 DEF all
<1> HIDE DEF kid
<1>5. again <=> \E h \in 0..end : /\ Has(L, T, kid, 0, i, h)
                                  /\ Completes(L, T, end, h, <<c>> \o cont)
  BY DEF Leads
<1>6. settled => whole
  BY <1>1, <1>3 DEF Leads
<1>7. ASSUME Room(T, n, k), again PROVE whole
  <2>1. PICK h \in 0..end : Has(L, T, kid, 0, i, h) /\ Completes(L, T, end, h, <<c>> \o cont)
    BY <1>5, <1>7
  <2>2. PICK j \in 0..end : Has(L, T, n, k + 1, h, j) /\ Completes(L, T, end, j, cont)
    <3>1. CASE h # i
      BY <1>4, <2>1, <3>1 DEF Leads
    <3>2. CASE h = i
      <4>1. k + 1 >= T[n].min /\ Completes(L, T, end, i, cont) /\ k + 1 \in Nat
        BY <1>4, <2>1, <3>2
      <4>2. Has(L, T, n, k + 1, h, i)
        BY <1>1, <1>3, <3>2, <4>1
      <4> QED BY <1>1, <4>1, <4>2
    <3> QED BY <3>1, <3>2
  <2>3. Has(L, T, n, k, i, j)
    BY <1>1, <1>3, <1>7, <2>1, <2>2
  <2> QED BY <2>2, <2>3 DEF Leads
<1>8. ~ Room(T, n, k) => (whole => settled)
  BY <1>1, <1>3 DEF Leads
<1>9. ASSUME Counted(T, w, L), whole PROVE again \/ settled
  <2>1. PICK j \in 0..end : Has(L, T, n, k, i, j) /\ Completes(L, T, end, j, cont)
    BY <1>9 DEF Leads
  <2>2. \/ k >= T[n].min /\ i = j
        \/ \E h \in 0..end : h # i /\ Has(L, T, kid, 0, i, h) /\ Has(L, T, n, k + 1, h, j)
        \/ i = j /\ k + 1 >= T[n].min /\ Has(L, T, kid, 0, i, i)
    BY <1>1, <1>9, <2>1, ItemsConsume DEF kid
  <2>3. CASE k >= T[n].min /\ i = j
    BY <2>1, <2>3
  <2>4. CASE \E h \in 0..end : h # i /\ Has(L, T, kid, 0, i, h) /\ Has(L, T, n, k + 1, h, j)
    <3>1. PICK h \in 0..end : h # i /\ Has(L, T, kid, 0, i, h) /\ Has(L, T, n, k + 1, h, j)
      BY <2>4
    <3>2. Leads(L, T, end, n, k + 1, h, cont)
      BY <2>1, <3>1 DEF Leads
    <3> QED BY <1>4, <1>5, <3>1, <3>2
  <2>5. CASE i = j /\ k + 1 >= T[n].min /\ Has(L, T, kid, 0, i, i)
    BY <1>1, <1>4, <1>5, <2>1, <2>5
  <2> QED BY <2>2, <2>3, <2>4, <2>5
<1> QED BY <1>6, <1>7, <1>8, <1>9 DEF kid
-----------------------------------------------------------------------------
(***************************************************************************)
(* What the machine can still do: match from where it is, or go back to a  *)
(* frame that has something left to try.                                   *)
(***************************************************************************)
MayMatch(L, T, end, c) ==
    \/ c.op = "ok"
    \/ c.op = "m"    /\ Leads(L, T, end, c.node, 0, c.pos, c.cont)
    \/ c.op = "rep"  /\ Leads(L, T, end, c.node, c.count, c.pos, c.cont)
    \/ c.op = "cont" /\ Completes(L, T, end, c.pos, c.cont)

Untried(L, T, end, f) ==
    \/ /\ f.fn = "m" /\ T[f.node].op = "Alt"
       /\ \E b \in 1..Len(T[f.node].kids) :
              b > f.k /\ Leads(L, T, end, T[f.node].kids[b], 0, f.pos, f.cont)
    \/ /\ f.fn = "m" /\ T[f.node].op = "Opt" /\ f.k = 1
       /\ Completes(L, T, end, f.pos, f.cont)
    \/ /\ f.fn = "rep" /\ f.k >= T[f.node].min
       /\ Completes(L, T, end, f.pos, f.cont)

SomeUntried(L, T, end, s) == \E x \in 1..Len(s) : Untried(L, T, end, s[x])

Hopeful(L, T, end, c, s) == MayMatch(L, T, end, c) \/ SomeUntried(L, T, end, s)

\* No position lies beyond the input.
Within(end, c, s) == /\ c.op \in {"m", "cont", "rep"} => c.pos <= end
                     /\ \A x \in 1..Len(s) : s[x].pos <= end

LEMMA UntriedPush ==
    ASSUME NEW L, NEW T, NEW end, NEW F, NEW s \in Seq(F), NEW f \in F
    PROVE  /\ SomeUntried(L, T, end, Append(s, f)) <=>
                  SomeUntried(L, T, end, s) \/ Untried(L, T, end, f)
           /\ \A c : Within(end, c, s) /\ f.pos <= end => Within(end, c, Append(s, f))
<1>1. /\ Len(Append(s, f)) = Len(s) + 1 /\ Len(s) \in Nat
      /\ \A i \in 1..Len(s) : Append(s, f)[i] = s[i]
      /\ Append(s, f)[Len(s) + 1] = f
  BY PushSeq
<1>2. \A i \in 1..(Len(s) + 1) : i \in 1..Len(s) \/ i = Len(s) + 1
  BY <1>1
<1>3. 1..Len(s) \subseteq 1..(Len(s) + 1) /\ Len(s) + 1 \in 1..(Len(s) + 1)
  BY <1>1
<1> DEFINE p == Append(s, f)
<1> HIDE DEF p
<1>4. SomeUntried(L, T, end, p) <=> SomeUntried(L, T, end, s) \/ Untried(L, T, end, f)
  BY <1>1, <1>2, <1>3 DEF SomeUntried, p
<1>5. \A c : Within(end, c, s) /\ f.pos <= end => Within(end, c, p)
  BY <1>1, <1>2, <1>3 DEF Within, p
<1> QED BY <1>4, <1>5 DEF p

LEMMA UntriedPop ==
    ASSUME NEW L, NEW T, NEW end, NEW F, NEW s \in Seq(F), s # << >>,
           NEW r, r = SubSeq(s, 1, Len(s) - 1)
    PROVE  /\ SomeUntried(L, T, end, s) <=>
                  SomeUntried(L, T, end, r) \/ Untried(L, T, end, s[Len(s)])
           /\ \A c : Within(end, c, s) => Within(end, c, r) /\ s[Len(s)].pos <= end
<1>1. /\ Len(s) \in Nat \ {0} /\ Len(r) = Len(s) - 1
      /\ \A i \in 1..(Len(s) - 1) : r[i] = s[i]
  BY FrontSeq
<1>2. \A i \in 1..Len(s) : i \in 1..(Len(s) - 1) \/ i = Len(s)
  BY <1>1
<1>3. 1..(Len(s) - 1) \subseteq 1..Len(s) /\ Len(s) \in 1..Len(s)
  BY <1>1
<1>4. SomeUntried(L, T, end, s) <=>
          SomeUntried(L, T, end, r) \/ Untried(L, T, end, s[Len(s)])
  BY <1>1, <1>2, <1>3 DEF SomeUntried
<1>5. \A c : Within(end, c, s) => Within(end, c, r) /\ s[Len(s)].pos <= end
  BY <1>1, <1>3 DEF Within
<1> QED BY <1>4, <1>5

LEMMA UntriedRetry ==
    ASSUME NEW L, NEW T, NEW end, NEW F, NEW s \in Seq(F), s # << >>, NEW g \in F,
           g.pos = s[Len(s)].pos,
           NEW t, t = [s EXCEPT ![Len(s)] = g], NEW r, r = SubSeq(s, 1, Len(s) - 1)
    PROVE  /\ SomeUntried(L, T, end, t) <=>
                  SomeUntried(L, T, end, r) \/ Untried(L, T, end, g)
           /\ \A c : Within(end, c, s) => Within(end, c, t)
<1>1. /\ Len(s) \in Nat \ {0} /\ Len(r) = Len(s) - 1
      /\ \A i \in 1..(Len(s) - 1) : r[i] = s[i]
  BY FrontSeq
<1>2. \A i \in 1..Len(s) : i \in 1..(Len(s) - 1) \/ i = Len(s)
  BY <1>1
<1>3. 1..(Len(s) - 1) \subseteq 1..Len(s) /\ Len(s) \in 1..Len(s)
  BY <1>1
<1>4. /\ Len(t) = Len(s) /\ t[Len(s)] = g
      /\ \A i \in 1..(Len(s) - 1) : t[i] = s[i]
  BY <1>1
<1>5. SomeUntried(L, T, end, t) <=> SomeUntried(L, T, end, r) \/ Untried(L, T, end, g)
  <2>1. \A i \in 1..(Len(s) - 1) : t[i] = r[i]
    BY <1>1, <1>4
  <2> DEFINE last == Len(s)
             rest == 1..(Len(s) - 1)
  <2>2. /\ SomeUntried(L, T, end, t) <=> \E i \in 1..last : Untried(L, T, end, t[i])
        /\ SomeUntried(L, T, end, r) <=> \E i \in rest : Untried(L, T, end, r[i])
    BY <1>1, <1>4 DEF SomeUntried
  <2>3. /\ \A i \in 1..last : i \in rest \/ i = last
        /\ rest \subseteq 1..last /\ last \in 1..last
        /\ t[last] = g
    BY <1>2, <1>3, <1>4
  <2> HIDE DEF last, rest
  <2>4. \A i \in rest : t[i] = r[i]
    BY <2>1 DEF rest
  <2> QED BY <2>2, <2>3, <2>4
<1>6. \A c : Within(end, c, s) => Within(end, c, t)
  BY <1>1, <1>2, <1>3, <1>4 DEF Within
<1> QED BY <1>5, <1>6

LEMMA MayMatchForms ==
    ASSUME NEW L, NEW T, NEW end
    PROVE  /\ \A n, i, cont : MayMatch(L, T, end, Call(n, i, cont)) <=> Leads(L, T, end, n, 0, i, cont)
           /\ \A i, cont : MayMatch(L, T, end, RunCont(cont, i)) <=> Completes(L, T, end, i, cont)
           /\ \A n, k, i, cont :
                  MayMatch(L, T, end, RepStep(n, k, i, cont)) <=> Leads(L, T, end, n, k, i, cont)
           /\ MayMatch(L, T, end, ReturnTrue) /\ ~ MayMatch(L, T, end, ReturnFalse)
BY DEF MayMatch, Call, RunCont, RepStep, ReturnTrue, ReturnFalse

Ready(L, end) == /\ TInv /\ end = Len(input) /\ IsLanguage(code, input, L)
                 /\ Within(end, ctl, stack)

\* A step that loses nothing and gains nothing.
Even(L, end) == /\ Hopeful(L, code, end, ctl', stack') <=> Hopeful(L, code, end, ctl, stack)
                /\ Within(end, ctl', stack')

\* A step that opens frame f.
LEMMA EvenOpen ==
    ASSUME NEW L, NEW end, Ready(L, end), NEW f \in Frame, f.pos <= end,
           stack' = Append(stack, f),
           MayMatch(L, code, end, ctl) <=>
               MayMatch(L, code, end, ctl') \/ Untried(L, code, end, f),
           ctl'.op \in {"m", "cont", "rep"} => ctl'.pos <= end
    PROVE  Even(L, end)
<1>1. stack \in Seq(Frame) /\ Within(end, ctl, stack)
  BY DEF Ready, TInv, StackOK
<1>2. SomeUntried(L, code, end, stack') <=>
          SomeUntried(L, code, end, stack) \/ Untried(L, code, end, f)
  BY <1>1, UntriedPush
<1>3. Within(end, ctl, stack')
  BY <1>1, UntriedPush
<1>4. Within(end, ctl', stack')
  BY <1>3 DEF Within
<1> QED BY <1>2, <1>4 DEF Even, Hopeful

\* A step that only moves the control on.
LEMMA EvenQuiet ==
    ASSUME NEW L, NEW end, Ready(L, end), stack' = stack,
           MayMatch(L, code, end, ctl) <=> MayMatch(L, code, end, ctl'),
           ctl'.op \in {"m", "cont", "rep"} => ctl'.pos <= end
    PROVE  Even(L, end)
<1>1. Within(end, ctl', stack')
  BY DEF Ready, Within
<1> QED BY <1>1 DEF Even, Hopeful

LEMMA ReadyFacts ==
    ASSUME NEW L, NEW end, Ready(L, end)
    PROVE  /\ end \in Nat /\ Offsets(input) = 0..end /\ TableOK(code)
           /\ IsLanguage(code, input, L) /\ end = Len(input)
           /\ stack \in Seq(Frame)
           /\ ctl.op \in {"m", "cont", "rep"} =>
                  ctl.pos \in 0..end /\ ctl.pos \in Nat /\ ctl.cont \in Seq(ContItem)
           /\ ctl.op \in {"m", "rep"} => ctl.node \in DOMAIN code
           /\ ctl.op = "rep" => ctl.count \in Nat /\ code[ctl.node].op = "Rep"
<1>1. CtlOK /\ stack \in Seq(Frame) /\ Within(end, ctl, stack)
  BY DEF Ready, TInv, StackOK
<1>2. end \in Nat /\ Offsets(input) = 0..end /\ TableOK(code)
      /\ IsLanguage(code, input, L) /\ end = Len(input)
  BY DEF Ready, IsLanguage, Offsets
<1>3. ctl.op \in {"m", "cont", "rep"} => ctl.pos <= end
  BY <1>1 DEF Within
<1> QED BY <1>1, <1>2, <1>3, CtlShape DEF CallCtl, ContCtl, RepCtl

LEMMA EvenEnter ==
    ASSUME NEW L, NEW end, Ready(L, end), Enter
    PROVE  Even(L, end)
<1> DEFINE n == ctl.node
           i == ctl.pos
           cont == ctl.cont
           kids == code[n].kids
           f(more) == [fn |-> "m", node |-> n, pos |-> i, cont |-> cont,
                       mark |-> Len(visited), k |-> more]
<1>1. ctl.op = "m" /\ \A op, more : Open(op, more) => stack' = Append(stack, f(more)) /\ code[n].op = op
  BY DEF Enter, EnterPass, EnterTerm, EnterSeq, EnterAlt, EnterOpt, EnterRep, Open
<1>2. /\ end \in Nat /\ end = Len(input) /\ Offsets(input) = 0..end /\ IsLanguage(code, input, L)
      /\ n \in DOMAIN code /\ i \in 0..end /\ i \in Nat /\ i <= end /\ cont \in Seq(ContItem)
      /\ TableOK(code)
  BY <1>1, ReadyFacts
<1>3. /\ kids \in Seq(DOMAIN code) /\ Len(kids) \in Nat
      /\ code[n].op \in {"Pass", "Opt", "Rep"} => kids[1] \in DOMAIN code
  BY <1>2, NodeShape
<1>4. MayMatch(L, code, end, ctl) <=> Leads(L, code, end, n, 0, i, cont)
  BY <1>1 DEF MayMatch
<1>5. ASSUME NEW more \in Nat
      PROVE  f(more) \in Frame /\ f(more).pos <= end
             /\ f(more).fn = "m" /\ f(more).node = n /\ f(more).k = more
             /\ f(more).pos = i /\ f(more).cont = cont
  <2>1. Len(visited) \in Nat
    BY DEF Ready, TInv
  <2> QED BY <1>2, <2>1 DEF Frame
<1>6. \A more \in Nat : Untried(L, code, end, f(more)) <=>
          \/ /\ code[n].op = "Alt"
             /\ \E b \in 1..Len(kids) : b > more /\ Leads(L, code, end, kids[b], 0, i, cont)
          \/ code[n].op = "Opt" /\ more = 1 /\ Completes(L, code, end, i, cont)
  <2> HIDE DEF f
  <2> QED BY <1>5 DEF Untried
<1> HIDE DEF f
<1>7. CASE EnterPass
  <2>1. /\ stack' = Append(stack, f(0)) /\ code[n].op = "Pass"
        /\ ctl' = Call(kids[1], i, cont)
    BY <1>1, <1>7 DEF EnterPass
  <2>2. Leads(L, code, end, n, 0, i, cont) <=> Leads(L, code, end, kids[1], 0, i, cont)
    BY <1>2, <2>1, LeadsWhole
  <2>3. ctl'.op = "m" /\ ctl'.pos <= end
    BY <1>2, <2>1 DEF Call
  <2>4. MayMatch(L, code, end, ctl') <=> Leads(L, code, end, kids[1], 0, i, cont)
    BY <2>1, MayMatchForms
  <2>5. ~ Untried(L, code, end, f(0))
    BY <1>6, <2>1
  <2> HIDE DEF kids, cont, i
  <2> QED BY <1>4, <1>5, <2>1, <2>2, <2>3, <2>4, <2>5, EvenOpen
<1>8. CASE EnterTerm
  <2> DEFINE np == MatchAt(code[n].term, input, i)
  <2>1. /\ stack' = Append(stack, f(0)) /\ code[n].op = "Term"
        /\ ctl' = IF np = NoMatch THEN ReturnFalse ELSE RunCont(cont, np)
    BY <1>1, <1>8 DEF EnterTerm
  <2>2. Leads(L, code, end, n, 0, i, cont) <=>
            np # NoMatch /\ Completes(L, code, end, np, cont)
    BY <1>2, <2>1, LeadsWhole
  <2>3. np = NoMatch \/ np \in i..Len(input)
    BY <1>2, MatchAtRange DEF TableOK, NodeOK
  <2> HIDE DEF np, cont, i
  <2>4. ctl'.op \in {"m", "cont", "rep"} => ctl'.pos <= end
    BY <1>2, <2>1, <2>3 DEF ReturnFalse, RunCont
  <2>5. MayMatch(L, code, end, ctl') <=> np # NoMatch /\ Completes(L, code, end, np, cont)
    BY <2>1, MayMatchForms
  <2>6. ~ Untried(L, code, end, f(0))
    BY <1>6, <2>1
  <2> QED BY <1>4, <1>5, <2>1, <2>2, <2>4, <2>5, <2>6, EvenOpen
<1>9. CASE EnterSeq
  <2> DEFINE c == SeqCont(n, 2)
  <2>1. /\ stack' = Append(stack, f(0)) /\ code[n].op = "Seq"
        /\ ctl' = IF kids = << >> THEN RunCont(cont, i)
                  ELSE Call(kids[1], i, <<c>> \o cont)
    BY <1>1, <1>9 DEF EnterSeq
  <2>2. c \in ContItem /\ c.node = n /\ c.k = 0 + 2
    BY <1>2 DEF SeqCont, ContItem
  <2>3. kids = << >> <=> 0 >= Len(kids)
    BY <1>3
  <2> HIDE DEF c
  <2>4. Leads(L, code, end, n, 0, i, cont) <=>
            IF 0 >= Len(kids) THEN Completes(L, code, end, i, cont)
            ELSE Leads(L, code, end, kids[0 + 1], 0, i, <<c>> \o cont)
    BY <1>2, <2>1, <2>2, LeadsSeq
  <2>5. ctl'.op \in {"m", "cont", "rep"} => ctl'.pos <= end
    BY <1>2, <2>1 DEF Call, RunCont
  <2> HIDE DEF kids, cont, i
  <2>6. MayMatch(L, code, end, ctl') <=>
            IF kids = << >> THEN Completes(L, code, end, i, cont)
            ELSE Leads(L, code, end, kids[1], 0, i, <<c>> \o cont)
    BY <2>1, MayMatchForms
  <2>7. ~ Untried(L, code, end, f(0))
    BY <1>6, <2>1
  <2> QED BY <1>4, <1>5, <2>1, <2>3, <2>4, <2>5, <2>6, <2>7, EvenOpen
<1>10. CASE EnterAlt
  <2>1. /\ stack' = Append(stack, f(1)) /\ code[n].op = "Alt"
        /\ ctl' = IF kids = << >> THEN ReturnFalse ELSE Call(kids[1], i, cont)
    BY <1>1, <1>10 DEF EnterAlt
  <2>2. Leads(L, code, end, n, 0, i, cont) <=>
            \E b \in 1..Len(kids) : Leads(L, code, end, kids[b], 0, i, cont)
    BY <1>2, <2>1, LeadsWhole
  <2>3. kids = << >> <=> Len(kids) = 0
    BY <1>3
  <2>4. ctl'.op \in {"m", "cont", "rep"} => ctl'.pos <= end
    BY <1>2, <2>1 DEF Call, ReturnFalse
  <2>5. Untried(L, code, end, f(1)) <=>
            \E b \in 1..Len(kids) : b > 1 /\ Leads(L, code, end, kids[b], 0, i, cont)
    BY <1>6, <2>1
  <2> HIDE DEF kids, cont, i
  <2>6. MayMatch(L, code, end, ctl') <=>
            Len(kids) # 0 /\ Leads(L, code, end, kids[1], 0, i, cont)
    BY <2>1, <2>3, MayMatchForms
  <2>7. (\E b \in 1..Len(kids) : Leads(L, code, end, kids[b], 0, i, cont)) <=>
            \/ Len(kids) # 0 /\ Leads(L, code, end, kids[1], 0, i, cont)
            \/ \E b \in 1..Len(kids) : b > 1 /\ Leads(L, code, end, kids[b], 0, i, cont)
    <3>1. \A b \in 1..Len(kids) : b = 1 \/ b > 1
      BY <1>3
    <3>2. Len(kids) # 0 <=> 1 \in 1..Len(kids)
      BY <1>3
    <3>3. 1..Len(kids) # {} => Len(kids) # 0
      BY <1>3
    <3> QED BY <3>1, <3>2, <3>3
  <2>8. MayMatch(L, code, end, ctl) <=>
            MayMatch(L, code, end, ctl') \/ Untried(L, code, end, f(1))
    BY <1>4, <2>2, <2>5, <2>6, <2>7
  <2> QED BY <1>5, <2>1, <2>4, <2>8, EvenOpen
<1>11. CASE EnterOpt
  <2>1. /\ stack' = Append(stack, f(1)) /\ code[n].op = "Opt"
        /\ ctl' = Call(kids[1], i, cont)
    BY <1>1, <1>11 DEF EnterOpt
  <2>2. Leads(L, code, end, n, 0, i, cont) <=>
            Completes(L, code, end, i, cont) \/ Leads(L, code, end, kids[1], 0, i, cont)
    BY <1>2, <2>1, LeadsWhole
  <2>3. ctl'.op = "m" /\ ctl'.pos <= end
    BY <1>2, <2>1 DEF Call
  <2>4. MayMatch(L, code, end, ctl') <=> Leads(L, code, end, kids[1], 0, i, cont)
    BY <2>1, MayMatchForms
  <2>5. Untried(L, code, end, f(1)) <=> Completes(L, code, end, i, cont)
    BY <1>6, <2>1
  <2> HIDE DEF kids, cont, i
  <2> QED BY <1>4, <1>5, <2>1, <2>2, <2>3, <2>4, <2>5, EvenOpen
<1>12. CASE EnterRep
  <2>1. /\ stack' = Append(stack, f(0)) /\ code[n].op = "Rep"
        /\ ctl' = RepStep(n, 0, i, cont)
    BY <1>1, <1>12 DEF EnterRep
  <2>2. ctl'.op = "rep" /\ ctl'.pos <= end
    BY <1>2, <2>1 DEF RepStep
  <2>3. MayMatch(L, code, end, ctl') <=> Leads(L, code, end, n, 0, i, cont)
    BY <2>1, MayMatchForms
  <2>4. ~ Untried(L, code, end, f(0))
    BY <1>6, <2>1
  <2> HIDE DEF kids, cont, i
  <2> QED BY <1>4, <1>5, <2>1, <2>2, <2>3, <2>4, EvenOpen
<1> QED BY <1>7, <1>8, <1>9, <1>10, <1>11, <1>12 DEF Enter

LEMMA MayMatchSettle ==
    ASSUME NEW L, NEW end, NEW n, NEW k, NEW i, NEW cont
    PROVE  /\ MayMatch(L, code, end, Settle(n, k, i, cont)) <=>
                  k >= code[n].min /\ Completes(L, code, end, i, cont)
           /\ Settle(n, k, i, cont).op \in {"m", "cont", "rep"} =>
                  Settle(n, k, i, cont).pos = i
<1>1. CASE k >= code[n].min
  BY <1>1, MayMatchForms DEF Settle, RunCont
<1>2. CASE ~ (k >= code[n].min)
  BY <1>2, MayMatchForms DEF Settle, ReturnFalse
<1> QED BY <1>1, <1>2

LEMMA EvenCont ==
    ASSUME NEW L, NEW end, Ready(L, end), ContDone \/ ContSeq \/ ContRep
    PROVE  Even(L, end)
<1> DEFINE i == ctl.pos
           cont == ctl.cont
           c == Head(cont)
           rest == Tail(cont)
<1>1. ctl.op = "cont" /\ stack' = stack
  BY DEF ContDone, ContSeq, ContRep
<1>2. /\ end \in Nat /\ end = Len(input) /\ Offsets(input) = 0..end /\ IsLanguage(code, input, L)
      /\ i \in 0..end /\ i \in Nat /\ i <= end /\ cont \in Seq(ContItem) /\ TableOK(code)
  BY <1>1, ReadyFacts
<1>3. MayMatch(L, code, end, ctl) <=> Completes(L, code, end, i, cont)
  BY <1>1 DEF MayMatch
<1>4. ASSUME cont # << >>
      PROVE  /\ c \in ContItem /\ rest \in Seq(ContItem)
             /\ c.node \in DOMAIN code /\ c.k \in Nat \ {0} /\ c.start \in Nat
  <2>1. c \in ContItem /\ rest \in Seq(ContItem)
    BY <1>2, <1>4, TailSeq
  <2> QED BY <2>1 DEF ContItem
<1>5. CASE ContDone
  <2>1. cont = << >> /\ ctl' = IF i = Len(input) THEN ReturnTrue ELSE ReturnFalse
    BY <1>5 DEF ContDone
  <2>2. Completes(L, code, end, i, cont) <=> i = end
    BY <1>2, <2>1, CompletesNone
  <2>3. MayMatch(L, code, end, ctl') <=> i = end
    BY <1>2, <2>1, MayMatchForms
  <2>4. ctl'.op \notin {"m", "cont", "rep"}
    BY <2>1 DEF ReturnTrue, ReturnFalse
  <2> QED BY <1>1, <1>3, <2>2, <2>3, <2>4, EvenQuiet
<1>6. CASE ContSeq
  <2> DEFINE n == c.node
             kids == code[n].kids
             d == SeqCont(n, c.k + 1)
  <2>1. /\ cont # << >> /\ code[n].op = "Seq"
        /\ ctl' = IF c.k > Len(kids) THEN RunCont(rest, i)
                  ELSE Call(kids[c.k], i, <<d>> \o rest)
    BY <1>6 DEF ContSeq
  <2>2. /\ c \in ContItem /\ rest \in Seq(ContItem) /\ n \in DOMAIN code /\ c.k \in Nat \ {0}
    BY <1>4, <2>1
  <2>3. d \in ContItem /\ d.node = n /\ d.k = (c.k - 1) + 2
    BY <2>2 DEF SeqCont, ContItem
  <2>4. Completes(L, code, end, i, cont) <=> Leads(L, code, end, n, c.k - 1, i, rest)
    BY <1>2, <2>1, CompletesItem
  <2>5. Len(kids) \in Nat /\ c.k - 1 \in Nat /\ (c.k - 1) + 1 = c.k
        /\ (c.k > Len(kids) <=> c.k - 1 >= Len(kids))
    BY <1>2, <2>2, NodeShape
  <2> HIDE DEF d
  <2>6. Leads(L, code, end, n, c.k - 1, i, rest) <=>
            IF c.k - 1 >= Len(kids) THEN Completes(L, code, end, i, rest)
            ELSE Leads(L, code, end, kids[(c.k - 1) + 1], 0, i, <<d>> \o rest)
    <3> DEFINE k == c.k - 1
    <3>1. k \in Nat /\ d.k = k + 2 /\ i \in Offsets(input)
      BY <1>2, <2>3, <2>5
    <3> HIDE DEF k, c, rest, i
    <3>2. Leads(L, code, end, n, k, i, rest) <=>
            IF k >= Len(kids) THEN Completes(L, code, end, i, rest)
            ELSE Leads(L, code, end, kids[k + 1], 0, i, <<d>> \o rest)
      BY <1>2, <2>1, <2>2, <2>3, <3>1, LeadsSeq
    <3> QED BY <3>2 DEF k
  <2>7. ctl'.op \in {"m", "cont", "rep"} => ctl'.pos <= end
    BY <1>2, <2>1 DEF Call, RunCont
  <2> HIDE DEF kids, rest, i, c, cont
  <2>8. MayMatch(L, code, end, ctl') <=>
            IF c.k > Len(kids) THEN Completes(L, code, end, i, rest)
            ELSE Leads(L, code, end, kids[c.k], 0, i, <<d>> \o rest)
    BY <2>1, MayMatchForms
  <2> QED BY <1>1, <1>3, <2>4, <2>5, <2>6, <2>7, <2>8, EvenQuiet
<1>7. CASE ContRep
  <2> DEFINE n == c.node
  <2>1. /\ cont # << >> /\ code[n].op = "Rep"
        /\ ctl' = IF i = c.start THEN Settle(n, c.k, i, rest) ELSE RepStep(n, c.k, i, rest)
    BY <1>7 DEF ContRep
  <2>2. /\ i # c.start => (Completes(L, code, end, i, cont) <=> Leads(L, code, end, n, c.k, i, rest))
        /\ i = c.start => (Completes(L, code, end, i, cont) <=>
                               c.k >= code[n].min /\ Completes(L, code, end, i, rest))
    BY <1>2, <2>1, CompletesItem
  <2> HIDE DEF rest, i, c, cont
  <2>3. CASE i = c.start
    BY <1>1, <1>2, <1>3, <2>1, <2>2, <2>3, MayMatchSettle, EvenQuiet
  <2>4. CASE i # c.start
    <3>1. MayMatch(L, code, end, ctl') <=> Leads(L, code, end, n, c.k, i, rest)
      BY <2>1, <2>4, MayMatchForms
    <3>2. ctl'.pos <= end
      BY <1>2, <2>1, <2>4 DEF RepStep
    <3> QED BY <1>1, <1>3, <2>2, <2>4, <3>1, <3>2, EvenQuiet
  <2> QED BY <2>3, <2>4
<1> QED BY <1>5, <1>6, <1>7

LEMMA EvenFull ==
    ASSUME NEW L, NEW end, Ready(L, end), RepFull
    PROVE  Even(L, end)
<1> DEFINE n == ctl.node
           k == ctl.count
           i == ctl.pos
           cont == ctl.cont
<1>1. /\ ctl.op = "rep" /\ stack' = stack /\ ctl' = Settle(n, k, i, cont) /\ ~ Room(code, n, k)
  BY DEF RepFull, UnderMax, Room
<1>2. /\ end \in Nat /\ end = Len(input) /\ Offsets(input) = 0..end /\ IsLanguage(code, input, L)
      /\ n \in DOMAIN code /\ code[n].op = "Rep" /\ k \in Nat /\ i \in 0..end /\ i \in Nat
      /\ i <= end /\ cont \in Seq(ContItem)
  BY <1>1, ReadyFacts
<1>3. MayMatch(L, code, end, ctl) <=> Leads(L, code, end, n, k, i, cont)
  BY <1>1 DEF MayMatch
<1> DEFINE c == RepCont(n, k + 1, i)
<1>4. c \in ContItem /\ c.node = n /\ c.k = k + 1 /\ c.start = i
  BY <1>2 DEF RepCont, ContItem
<1> HIDE DEF n, k, i, cont, c
<1>5. Leads(L, code, end, n, k, i, cont) <=>
          k >= code[n].min /\ Completes(L, code, end, i, cont)
  BY <1>1, <1>2, <1>4, LeadsRep
<1>6. /\ MayMatch(L, code, end, ctl') <=> k >= code[n].min /\ Completes(L, code, end, i, cont)
      /\ ctl'.op \in {"m", "cont", "rep"} => ctl'.pos = i
  BY <1>1, MayMatchSettle
<1>7. MayMatch(L, code, end, ctl) <=> MayMatch(L, code, end, ctl')
  BY <1>3, <1>5, <1>6
<1>8. ctl'.op \in {"m", "cont", "rep"} => ctl'.pos <= end
  BY <1>2, <1>6
<1>9. stack' = stack
  BY <1>1
<1> QED BY <1>7, <1>8, <1>9, EvenQuiet

\* One more item: nothing is gained and, if counted items consume, nothing is lost.
LEMMA TryKeeps ==
    ASSUME NEW L, NEW end, Ready(L, end), RepTry
    PROVE  /\ Hopeful(L, code, end, ctl', stack') => Hopeful(L, code, end, ctl, stack)
           /\ Counted(code, input, L) /\ Hopeful(L, code, end, ctl, stack)
                  => Hopeful(L, code, end, ctl', stack')
           /\ Within(end, ctl', stack')
<1> DEFINE n == ctl.node
           k == ctl.count
           i == ctl.pos
           cont == ctl.cont
           c == RepCont(n, k + 1, i)
           f == [fn |-> "rep", node |-> n, pos |-> i, cont |-> cont,
                 mark |-> Len(visited), k |-> k]
<1>1. /\ ctl.op = "rep" /\ stack' = Append(stack, f) /\ Room(code, n, k)
      /\ ctl' = Call(code[n].kids[1], i, <<c>> \o cont)
  BY DEF RepTry, UnderMax, Room
<1>2. /\ end \in Nat /\ end = Len(input) /\ Offsets(input) = 0..end /\ IsLanguage(code, input, L)
      /\ n \in DOMAIN code /\ code[n].op = "Rep" /\ k \in Nat /\ i \in 0..end /\ i \in Nat
      /\ i <= end /\ cont \in Seq(ContItem) /\ stack \in Seq(Frame)
  BY <1>1, ReadyFacts
<1>3. MayMatch(L, code, end, ctl) <=> Leads(L, code, end, n, k, i, cont)
  BY <1>1 DEF MayMatch
<1>4. c \in ContItem /\ c.node = n /\ c.k = k + 1 /\ c.start = i
  BY <1>2 DEF RepCont, ContItem
<1>5. f \in Frame /\ f.pos = i /\ f.fn = "rep" /\ f.node = n /\ f.k = k /\ f.cont = cont
  <2>1. Len(visited) \in Nat
    BY DEF Ready, TInv
  <2> QED BY <1>2, <2>1 DEF Frame
<1>6. ctl'.op = "m" /\ ctl'.pos = i
  BY <1>1 DEF Call
<1> HIDE DEF n, k, i, cont, c, f
<1> DEFINE again == Leads(L, code, end, code[n].kids[1], 0, i, <<c>> \o cont)
           settled == k >= code[n].min /\ Completes(L, code, end, i, cont)
           whole == Leads(L, code, end, n, k, i, cont)
<1>7. /\ settled => whole
      /\ again => whole
      /\ Counted(code, input, L) => (whole => again \/ settled)
  BY <1>1, <1>2, <1>4, LeadsRep
<1>8. (MayMatch(L, code, end, ctl') <=> again) /\ (Untried(L, code, end, f) <=> settled)
  BY <1>1, <1>5, MayMatchForms DEF Untried
<1>9. SomeUntried(L, code, end, stack') <=>
          SomeUntried(L, code, end, stack) \/ Untried(L, code, end, f)
  BY <1>1, <1>2, <1>5, UntriedPush
<1>10. Within(end, ctl', stack')
  <2>1. Within(end, ctl, stack) /\ f.pos <= end
    BY <1>2, <1>5 DEF Ready
  <2>2. Within(end, ctl, stack')
    BY <1>1, <1>2, <1>5, <2>1, UntriedPush
  <2> QED BY <1>2, <1>6, <2>2 DEF Within
<1> HIDE DEF again, settled, whole
<1> QED BY <1>3, <1>7, <1>8, <1>9, <1>10 DEF Hopeful, whole

LEMMA EvenTrue ==
    ASSUME NEW L, NEW end, Ready(L, end), CloseTrue
    PROVE  Even(L, end)
<1>1. ctl.op = "ok" /\ ctl' = ctl /\ stack # << >> /\ stack' = Below
  BY DEF CloseTrue
<1>2. Within(end, ctl, stack')
  <2>1. stack \in Seq(Frame) /\ Within(end, ctl, stack)
    BY ReadyFacts DEF Ready
  <2> QED BY <1>1, <2>1, UntriedPop DEF Below
<1> QED BY <1>1, <1>2 DEF Even, Hopeful, MayMatch

LEMMA TopFacts ==
    ASSUME NEW L, NEW end, Ready(L, end), ctl.op = "fail", stack # << >>
    PROVE  /\ Hopeful(L, code, end, ctl, stack) <=>
                  SomeUntried(L, code, end, Below) \/ Untried(L, code, end, Top)
           /\ Within(end, ctl, Below) /\ Within(end, ctl, stack)
           /\ Top \in Frame /\ Top.pos <= end
           /\ Top.fn = "rep" => code[Top.node].op = "Rep"
<1>1. stack \in Seq(Frame) /\ Within(end, ctl, stack) /\ TInv
  BY ReadyFacts DEF Ready
<1>2. /\ SomeUntried(L, code, end, stack) <=>
             SomeUntried(L, code, end, Below) \/ Untried(L, code, end, Top)
      /\ Within(end, ctl, Below) /\ Top.pos <= end
  BY <1>1, UntriedPop DEF Below, Top
<1>3. ~ MayMatch(L, code, end, ctl)
  BY DEF MayMatch
<1>4. Top \in Frame /\ (Top.fn = "rep" => code[Top.node].op = "Rep")
  BY <1>1, TruncatedEmpty
<1> QED BY <1>1, <1>2, <1>3, <1>4 DEF Hopeful

LEMMA EvenFalse ==
    ASSUME NEW L, NEW end, Ready(L, end), RepBack \/ CloseFalse
    PROVE  Even(L, end)
<1>1. ctl.op = "fail" /\ stack # << >> /\ stack' = Below
  BY DEF RepBack, CloseFalse
<1>2. /\ Hopeful(L, code, end, ctl, stack) <=>
             SomeUntried(L, code, end, Below) \/ Untried(L, code, end, Top)
      /\ Within(end, ctl, Below)
      /\ Top \in Frame /\ Top.pos <= end
  BY <1>1, TopFacts
<1>3. MayMatch(L, code, end, ctl') <=> Untried(L, code, end, Top)
  <2>1. CASE RepBack
    <3>1. Top.fn = "rep" /\ ctl' = Settle(Top.node, Top.k, Top.pos, Top.cont)
      BY <2>1 DEF RepBack
    <3>2. Untried(L, code, end, Top) <=>
              Top.k >= code[Top.node].min /\ Completes(L, code, end, Top.pos, Top.cont)
      BY <3>1 DEF Untried
    <3> QED BY <3>1, <3>2, MayMatchSettle
  <2>2. CASE CloseFalse
    <3>1. Top.fn = "m" /\ ~ HasBranch /\ ~ CanSkip /\ ctl' = ctl
      BY <2>2 DEF CloseFalse
    <3>2. code[Top.node].op = "Alt" => ~ (Top.k < Len(code[Top.node].kids))
      BY <3>1 DEF HasBranch
    <3>3. Top.node \in DOMAIN code /\ Top.k \in Nat
      BY <1>2 DEF Frame
    <3>4. Len(code[Top.node].kids) \in Nat
      BY <3>3, ReadyFacts, NodeShape
    <3>5. code[Top.node].op = "Alt" => \A b \in 1..Len(code[Top.node].kids) : ~ (b > Top.k)
      BY <3>2, <3>3, <3>4
    <3>6. ~ (code[Top.node].op = "Opt" /\ Top.k = 1)
      BY <3>1 DEF CanSkip
    <3>7. ~ Untried(L, code, end, Top)
      BY <3>1, <3>5, <3>6 DEF Untried
    <3> QED BY <1>1, <3>1, <3>7 DEF MayMatch
  <2> QED BY <2>1, <2>2
<1>4. ctl'.op \in {"m", "cont", "rep"} => ctl'.pos <= end
  <2>1. CASE RepBack
    <3>1. ctl' = Settle(Top.node, Top.k, Top.pos, Top.cont)
      BY <2>1 DEF RepBack
    <3> QED BY <1>2, <3>1, MayMatchSettle
  <2>2. CASE CloseFalse
    BY <1>1, <2>2 DEF CloseFalse
  <2> QED BY <2>1, <2>2
<1>5. Within(end, ctl', stack')
  BY <1>1, <1>2, <1>4 DEF Within
<1> QED BY <1>1, <1>2, <1>3, <1>5 DEF Even, Hopeful

LEMMA EvenRetry ==
    ASSUME NEW L, NEW end, Ready(L, end), NextBranch \/ SkipOpt
    PROVE  Even(L, end)
<1> DEFINE n == Top.node
           k == Top.k
           i == Top.pos
           cont == Top.cont
           kids == code[n].kids
           g(m) == [Top EXCEPT !.k = m]
<1>1. ctl.op = "fail" /\ stack # << >> /\ Top.fn = "m"
  BY DEF NextBranch, SkipOpt, HasBranch, CanSkip
<1>2. /\ Hopeful(L, code, end, ctl, stack) <=>
             SomeUntried(L, code, end, Below) \/ Untried(L, code, end, Top)
      /\ Within(end, ctl, stack) /\ Top \in Frame /\ i <= end
  BY <1>1, TopFacts
<1>3. /\ stack \in Seq(Frame) /\ TableOK(code)
      /\ n \in DOMAIN code /\ k \in Nat /\ Len(kids) \in Nat
  <2>1. stack \in Seq(Frame) /\ TableOK(code) /\ n \in DOMAIN code /\ k \in Nat
    BY <1>2, ReadyFacts DEF Frame
  <2> QED BY <2>1, NodeShape
<1>4. ASSUME NEW m \in Nat, stack' = [stack EXCEPT ![Len(stack)].k = m]
      PROVE  /\ SomeUntried(L, code, end, stack') <=>
                    SomeUntried(L, code, end, Below) \/ Untried(L, code, end, g(m))
             /\ Within(end, ctl, stack')
             /\ g(m).fn = "m" /\ g(m).node = n /\ g(m).k = m /\ g(m).pos = i /\ g(m).cont = cont
  <2>1. g(m) \in Frame /\ g(m).fn = "m" /\ g(m).node = n /\ g(m).k = m /\ g(m).pos = i
        /\ g(m).cont = cont
    BY <1>1, <1>2 DEF Frame
  <2>2. stack' = [stack EXCEPT ![Len(stack)] = g(m)]
    BY <1>1, <1>3, <1>4 DEF Top
  <2>3. g(m).pos = stack[Len(stack)].pos
    BY <2>1 DEF Top
  <2> HIDE DEF g
  <2>4. /\ SomeUntried(L, code, end, stack') <=>
               SomeUntried(L, code, end, Below) \/ Untried(L, code, end, g(m))
        /\ Within(end, ctl, stack')
    BY <1>1, <1>2, <1>3, <2>1, <2>2, <2>3, UntriedRetry DEF Below
  <2> QED BY <2>1, <2>4
<1> HIDE DEF g
<1>5. CASE NextBranch
  <2>1. /\ code[n].op = "Alt" /\ k < Len(kids) /\ ctl' = Call(kids[k + 1], i, cont)
        /\ stack' = [stack EXCEPT ![Len(stack)].k = k + 1] /\ k + 1 \in Nat
    <3>1. stack' = [stack EXCEPT ![Len(stack)].k = k + 1]
      <4>1. stack[Len(stack)].k = k
        BY DEF Top
      <4> QED BY <1>1, <1>3, <1>5, <4>1 DEF NextBranch
    <3>2. code[n].op = "Alt" /\ k < Len(kids)
      BY <1>5 DEF NextBranch, HasBranch
    <3>3. ctl' = Call(kids[k + 1], i, cont)
      BY <1>5 DEF NextBranch
    <3>4. k + 1 \in Nat
      BY <1>3
    <3> QED BY <3>1, <3>2, <3>3, <3>4
  <2> HIDE DEF kids, n, k, i, cont
  <2>2. MayMatch(L, code, end, ctl') <=> Leads(L, code, end, kids[k + 1], 0, i, cont)
    BY <2>1, MayMatchForms
  <2>3. Untried(L, code, end, Top) <=>
            \E b \in 1..Len(kids) : b > k /\ Leads(L, code, end, kids[b], 0, i, cont)
    BY <1>1, <2>1 DEF Untried, kids, n, k, i, cont
  <2>4. Untried(L, code, end, g(k + 1)) <=>
            \E b \in 1..Len(kids) : b > k + 1 /\ Leads(L, code, end, kids[b], 0, i, cont)
    BY <1>4, <2>1 DEF Untried, kids
  <2>5. Untried(L, code, end, Top) <=>
            MayMatch(L, code, end, ctl') \/ Untried(L, code, end, g(k + 1))
    <3>1. \A b \in 1..Len(kids) : b > k <=> b = k + 1 \/ b > k + 1
      BY <1>3
    <3>2. k + 1 \in 1..Len(kids)
      BY <1>3, <2>1
    <3> QED BY <2>2, <2>3, <2>4, <3>1, <3>2
  <2>6. ctl'.op = "m" /\ ctl'.pos <= end
    BY <1>2, <2>1 DEF Call
  <2>7. Within(end, ctl', stack')
    BY <1>4, <2>1, <2>6 DEF Within
  <2>8. SomeUntried(L, code, end, stack') <=>
            SomeUntried(L, code, end, Below) \/ Untried(L, code, end, g(k + 1))
    BY <1>4, <2>1
  <2> QED BY <1>2, <2>5, <2>7, <2>8 DEF Even, Hopeful
<1>6. CASE SkipOpt
  <2>1. /\ code[n].op = "Opt" /\ k = 1 /\ ctl' = RunCont(cont, i)
        /\ stack' = [stack EXCEPT ![Len(stack)].k = 0]
    BY <1>6 DEF SkipOpt, CanSkip
  <2> HIDE DEF kids, n, k, i, cont
  <2>2. MayMatch(L, code, end, ctl') <=> Completes(L, code, end, i, cont)
    BY <2>1, MayMatchForms
  <2>3. Untried(L, code, end, Top) <=> Completes(L, code, end, i, cont)
    BY <1>1, <2>1 DEF Untried, n, k, i, cont
  <2>4. ~ Untried(L, code, end, g(0))
    <3>1. g(0).fn = "m" /\ g(0).node = n /\ g(0).k = 0
      BY <1>4, <2>1
    <3>2. g(0).fn # "rep" /\ code[g(0).node].op # "Alt" /\ g(0).k # 1
      BY <2>1, <3>1
    <3> QED BY <3>2 DEF Untried
  <2>5. ctl'.op = "cont" /\ ctl'.pos <= end
    BY <1>2, <2>1 DEF RunCont
  <2>6. Within(end, ctl', stack')
    BY <1>4, <2>1, <2>5 DEF Within
  <2>7. SomeUntried(L, code, end, stack') <=>
            SomeUntried(L, code, end, Below) \/ Untried(L, code, end, g(0))
    BY <1>4, <2>1
  <2> QED BY <1>2, <2>2, <2>3, <2>4, <2>6, <2>7 DEF Even, Hopeful
<1> QED BY <1>5, <1>6
-----------------------------------------------------------------------------
(***************************************************************************)
(* The verdict.                                                            *)
(***************************************************************************)
CanStill == Hopeful(Derivable(code, input), code, Len(input), ctl, stack)

\* Whatever can still match is in the language; what is in the language can still
\* match, unless the depth bound has refused a call.
LInv == /\ TInv /\ Within(Len(input), ctl, stack)
        /\ CanStill => InLanguage(code, root, input)
        /\ InLanguage(code, root, input) /\ CountedItemsConsume => CanStill \/ depth_exceeded

LEMMA TInvTable == TInv => TableOK(code) /\ Len(input) \in Nat
<1> SUFFICES ASSUME TInv PROVE TableOK(code) /\ Len(input) \in Nat
  OBVIOUS
<1>1. input \in Seq(0..MaxByte)
  BY InputsAreBytes DEF TInv
<1> QED BY <1>1 DEF TInv, CodeOK, TableOK

LEMMA CountedAgrees ==
    ASSUME TInv, CountedItemsConsume
    PROVE  Counted(code, input, Derivable(code, input))
<1> SUFFICES ASSUME NEW n \in DOMAIN code, code[n].op = "Rep", code[n].min > 1,
                    NEW i \in Offsets(input)
             PROVE  ~ Has(Derivable(code, input), code, code[n].kids[1], 0, i, i)
  BY DEF Counted
<1>1. <<code[n].kids[1], 0, i, i>> \notin Derivable(code, input)
  BY DEF CountedItemsConsume
<1>2. TableOK(code)
  BY TInvTable
<1>3. code[n].kids[1] \in DOMAIN code
  BY <1>2, NodeShape
<1>4. After(code[code[n].kids[1]], 0) = 0
  BY <1>2, <1>3, AfterNone
<1> QED BY <1>1, <1>4 DEF Has

LEMMA LInvInit == Init => LInv
<1> SUFFICES ASSUME Init PROVE LInv
  OBVIOUS
<1> DEFINE L == Derivable(code, input)
           end == Len(input)
<1>1. TInv /\ TableOK(code) /\ end \in Nat /\ root \in DOMAIN code
  BY TInvInit, TInvTable DEF TInv
<1>2. ctl = Call(root, 0, << >>) /\ stack = << >>
  BY DEF Init
<1>3. Within(end, ctl, stack)
  BY <1>1, <1>2 DEF Within, Call
<1> HIDE DEF L, end
<1>4. CanStill <=> Leads(L, code, end, root, 0, 0, << >>)
  <2>1. CanStill <=> MayMatch(L, code, end, ctl)
    BY <1>2 DEF CanStill, Hopeful, SomeUntried, L, end
  <2> QED BY <1>2, <2>1, MayMatchForms
<1>5. Leads(L, code, end, root, 0, 0, << >>) <=> Has(L, code, root, 0, 0, end)
  <2>1. \A j \in 0..end : Completes(L, code, end, j, << >>) <=> j = end
    BY <1>1, CompletesNone
  <2>2. end \in 0..end
    BY <1>1
  <2> QED BY <2>1, <2>2 DEF Leads
<1>6. Has(L, code, root, 0, 0, end) <=> InLanguage(code, root, input)
  BY <1>1, AfterNone DEF Has, InLanguage, L, end
<1> QED BY <1>1, <1>3, <1>4, <1>5, <1>6 DEF LInv, end

LEMMA LInvNext == LInv /\ [Next]_vars => LInv'
<1> SUFFICES ASSUME LInv, [Next]_vars PROVE LInv'
  OBVIOUS
<1> DEFINE L == Derivable(code, input)
           end == Len(input)
           before == Hopeful(L, code, end, ctl, stack)
           after == Hopeful(L, code, end, ctl', stack')
<1>1. TInv /\ TInv' /\ UNCHANGED <<code, root, input>>
  <2>1. [Next]_vars => UNCHANGED <<code, root, input>>
    BY DEF Next, vars, inputVars, Refuse, Enter, EnterPass, EnterTerm, EnterSeq, EnterAlt,
           EnterOpt, EnterRep, Open, ContDone, ContSeq, ContRep, RepTry, RepFull, CloseTrue,
           NextBranch, SkipOpt, RepBack, CloseFalse
  <2> QED BY <2>1, TInvNext DEF LInv
<1>2. Ready(L, end)
  BY <1>1, TInvTable DEF LInv, Ready, IsLanguage
<1>3. (CanStill <=> before) /\ (CanStill' <=> after)
  BY <1>1 DEF CanStill
<1>4. /\ InLanguage(code, root, input)' <=> InLanguage(code, root, input)
      /\ CountedItemsConsume' <=> CountedItemsConsume
  BY <1>1 DEF CountedItemsConsume
<1> SUFFICES /\ Within(end, ctl', stack')
             /\ after => before
             /\ CountedItemsConsume /\ before => after \/ depth_exceeded'
             /\ depth_exceeded => depth_exceeded'
  <2> HIDE DEF before, after
  <2> QED BY <1>1, <1>3, <1>4 DEF LInv, end
<1>5. CountedItemsConsume => Counted(code, input, L)
  BY <1>1, CountedAgrees
<1>6. Within(end, ctl, stack)
  BY <1>2 DEF Ready
<1> HIDE DEF L, end
<1>7. CASE UNCHANGED vars
  BY <1>6, <1>7 DEF vars
<1>8. CASE Refuse
  <2>1. stack' = stack /\ ctl' = ReturnFalse /\ depth_exceeded' = TRUE
    BY <1>8 DEF Refuse
  <2>2. Within(end, ctl', stack')
    BY <1>6, <2>1 DEF Within, ReturnFalse
  <2>3. ~ MayMatch(L, code, end, ctl')
    BY <2>1, MayMatchForms
  <2> QED BY <2>1, <2>2, <2>3 DEF Hopeful
<1>9. ASSUME Even(L, end), depth_exceeded' = depth_exceeded
      PROVE  /\ Within(end, ctl', stack')
             /\ after => before
             /\ CountedItemsConsume /\ before => after \/ depth_exceeded'
             /\ depth_exceeded => depth_exceeded'
  BY <1>9 DEF Even
<1>10. CASE Enter
  <2>1. depth_exceeded' = depth_exceeded
    BY <1>10 DEF Enter, EnterPass, EnterTerm, EnterSeq, EnterAlt, EnterOpt, EnterRep, Open
  <2> QED BY <1>2, <1>9, <1>10, <2>1, EvenEnter
<1>11. CASE ContDone \/ ContSeq \/ ContRep
  <2>1. depth_exceeded' = depth_exceeded
    BY <1>11 DEF ContDone, ContSeq, ContRep
  <2> QED BY <1>2, <1>9, <1>11, <2>1, EvenCont
<1>12. CASE RepTry
  <2>1. depth_exceeded' = depth_exceeded
    BY <1>12 DEF RepTry
  <2>2. /\ after => before
        /\ Counted(code, input, L) /\ before => after
        /\ Within(end, ctl', stack')
    <3> HIDE DEF before, after
    <3> QED BY <1>2, <1>12, TryKeeps DEF before, after, end, L
  <2> HIDE DEF before, after
  <2> QED BY <1>5, <2>1, <2>2
<1>13. CASE RepFull
  <2>1. depth_exceeded' = depth_exceeded
    BY <1>13 DEF RepFull
  <2> QED BY <1>2, <1>9, <1>13, <2>1, EvenFull
<1>14. CASE CloseTrue
  <2>1. depth_exceeded' = depth_exceeded
    BY <1>14 DEF CloseTrue
  <2> QED BY <1>2, <1>9, <1>14, <2>1, EvenTrue
<1>15. CASE NextBranch \/ SkipOpt
  <2>1. depth_exceeded' = depth_exceeded
    BY <1>15 DEF NextBranch, SkipOpt
  <2> QED BY <1>2, <1>9, <1>15, <2>1, EvenRetry
<1>16. CASE RepBack \/ CloseFalse
  <2>1. depth_exceeded' = depth_exceeded
    BY <1>16 DEF RepBack, CloseFalse
  <2> QED BY <1>2, <1>9, <1>16, <2>1, EvenFalse
<1> QED BY <1>7, <1>8, <1>10, <1>11, <1>12, <1>13, <1>14, <1>15, <1>16 DEF Next

\* The recognizer's verdict is the language's, for every grammar, input and depth bound:
\* no backtracking step loses a match that is still possible or finds one that is not, and
\* only a refused call can make a described input unmatched.
THEOREM VerdictIsTheLanguage == Spec => []AcceptsTheLanguage
<1>1. LInv => AcceptsTheLanguage
  <2> SUFFICES ASSUME LInv, Returned
               PROVE  /\ Matched => InLanguage(code, root, input)
                      /\ InLanguage(code, root, input) /\ CountedItemsConsume
                            => Matched \/ DepthExceeded
    BY DEF AcceptsTheLanguage
  <2>1. stack = << >> /\ ctl.op \in {"ok", "fail"}
    BY DEF Returned
  <2>2. CanStill <=> ctl.op = "ok"
    BY <2>1 DEF CanStill, Hopeful, SomeUntried, MayMatch
  <2> QED BY <2>1, <2>2 DEF LInv, Matched, DepthExceeded
<1> QED BY <1>1, LInvInit, LInvNext, PTL DEF Spec
-----------------------------------------------------------------------------
(***************************************************************************)
(* What the credited nodes derive.  Keeping(code, W) is the grammar that   *)
(* has lost every node outside W.  A call is backed by the nodes V when    *)
(* every grammar that keeps V and can still make the call good describes   *)
(* the input.  Each open frame is backed by the open frames of m below it, *)
(* the control by all of them and by the nodes visited so far.             *)
(***************************************************************************)
\* A call c can be made good in the grammar T: it can take the input to its end.
Reads(T, w, c) == MayMatch(Derivable(T, w), T, Len(w), c)

\* The nodes whose elements or items c still has to match.
Pending(cont) == {cont[x].node : x \in 1..Len(cont)}
Needs(c)      == {n \in Pending(c.cont) : c.op \in {"m", "cont", "rep"}}
                     \cup {n \in {c.node} : c.op = "rep"}

\* Every grammar that keeps the nodes V and can make c good describes the input.
Backed(table, r, w, V, c) ==
    /\ Needs(c) \subseteq V
    /\ \A W \in SUBSET DOMAIN table :
          V \subseteq W /\ Reads(Keeping(table, W), w, c) => InLanguage(Keeping(table, W), r, w)

\* The call frame f goes back to when its callee fails.
Resume(f) == IF f.fn = "m" THEN Call(f.node, f.pos, f.cont)
                           ELSE RepStep(f.node, f.k, f.pos, f.cont)

\* Each frame is backed by the nodes of the frames of m below it.
FramesBacked(table, r, w, s) ==
    \A x \in 1..Len(s) : Backed(table, r, w, Above(s, 0, x - 1), Resume(s[x]))

LEMMA KeepingIs ==
    ASSUME NEW table, TableOK(table), NEW W, NEW w, Len(w) \in Nat, NEW T, T = Keeping(table, W)
    PROVE  /\ DOMAIN T = DOMAIN table /\ IsLanguage(T, w, Derivable(T, w))
           /\ \A n \in DOMAIN table : n \in W => T[n] = table[n]
<1> DEFINE lost == [op |-> "Alt", kids |-> << >>, min |-> 0, max |-> NoMax, term |-> NoTerm]
<1>1. DOMAIN T = DOMAIN table /\ \A n \in DOMAIN table : T[n] = IF n \in W THEN table[n] ELSE lost
  BY DEF Keeping
<1>2. /\ lost.op = "Alt" /\ lost.kids = << >> /\ lost.min = 0 /\ lost.max = NoMax
      /\ lost.term.vals = << >>
  BY DEF NoTerm
<1> HIDE DEF lost
<1>3. ASSUME NEW n \in DOMAIN T PROVE NodeOK(T, n)
  <2>1. CASE n \in W
    <3>1. NodeOK(table, n) /\ T[n] = table[n]
      BY <1>1, <1>3, <2>1 DEF TableOK
    <3> QED BY <1>1, <3>1 DEF NodeOK
  <2>2. CASE n \notin W
    <3>1. T[n] = lost
      BY <1>1, <1>3, <2>2
    <3>2. << >> \in Seq(DOMAIN T) /\ << >> \in Seq(Nat)
      OBVIOUS
    <3>3. /\ T[n].op = "Alt" /\ T[n].kids = << >> /\ T[n].min = 0 /\ T[n].max = NoMax
          /\ T[n].term.vals = << >>
      BY <1>2, <3>1
    <3>4. T[n].op \in Ops /\ T[n].op \notin {"Pass", "Opt", "Rep"}
      BY <3>3 DEF Ops
    <3>5. T[n].min \in Nat /\ T[n].max \in Nat \cup {NoMax}
      BY <3>3
    <3> QED BY <3>2, <3>3, <3>4, <3>5 DEF NodeOK
  <2> QED BY <2>1, <2>2
<1>4. TableOK(T)
  BY <1>1, <1>3 DEF TableOK
<1> QED BY <1>1, <1>4 DEF IsLanguage

LEMMA BackedOn ==
    ASSUME NEW table, NEW r, NEW w, NEW V, NEW V2, NEW c, NEW d, Backed(table, r, w, V, c),
           V \subseteq V2, Needs(d) \subseteq V2,
           \A W \in SUBSET DOMAIN table :
               V2 \subseteq W /\ Reads(Keeping(table, W), w, d) => Reads(Keeping(table, W), w, c)
    PROVE  Backed(table, r, w, V2, d)
BY DEF Backed

LEMMA BackedNever ==
    ASSUME NEW table, NEW r, NEW w, NEW V, NEW d, d.op = "fail"
    PROVE  Backed(table, r, w, V, d)
<1>1. Needs(d) = {}
  BY DEF Needs
<1>2. \A T : ~ Reads(T, w, d)
  BY DEF Reads, MayMatch
<1> QED BY <1>1, <1>2 DEF Backed

LEMMA PendingCons ==
    ASSUME NEW S, NEW c \in S, NEW cont \in Seq(S)
    PROVE  Pending(<<c>> \o cont) = Pending(cont) \cup {c.node}
<1> DEFINE all == <<c>> \o cont
<1>1. /\ Len(all) = Len(cont) + 1 /\ Len(cont) \in Nat /\ all[1] = c
      /\ \A x \in 1..Len(cont) : all[x + 1] = cont[x]
  OBVIOUS
<1> HIDE DEF all
<1>2. ASSUME NEW n \in Pending(all) PROVE n \in Pending(cont) \cup {c.node}
  <2>1. PICK x \in 1..Len(all) : n = all[x].node
    BY DEF Pending
  <2>2. CASE x = 1
    BY <1>1, <2>1, <2>2
  <2>3. CASE x # 1
    <3>1. x - 1 \in 1..Len(cont) /\ (x - 1) + 1 = x
      BY <1>1, <2>1, <2>3
    <3>2. all[x] = cont[x - 1]
      BY <1>1, <3>1
    <3> QED BY <2>1, <3>1, <3>2 DEF Pending
  <2> QED BY <2>2, <2>3
<1>3. ASSUME NEW n \in Pending(cont) PROVE n \in Pending(all)
  <2>1. PICK x \in 1..Len(cont) : n = cont[x].node
    BY DEF Pending
  <2>2. x + 1 \in 1..Len(all) /\ all[x + 1] = cont[x]
    BY <1>1
  <2> QED BY <2>1, <2>2 DEF Pending
<1>4. c.node \in Pending(all)
  <2>1. 1 \in 1..Len(all)
    BY <1>1
  <2> QED BY <1>1, <2>1 DEF Pending
<1> QED BY <1>2, <1>3, <1>4 DEF all

LEMMA PendingTail ==
    ASSUME NEW S, NEW cont \in Seq(S), cont # << >>
    PROVE  Pending(cont) = Pending(Tail(cont)) \cup {Head(cont).node}
<1>1. Head(cont) \in S /\ Tail(cont) \in Seq(S) /\ cont = <<Head(cont)>> \o Tail(cont)
  OBVIOUS
<1> QED BY <1>1, PendingCons

LEMMA NeedsForms ==
    /\ \A n, i, cont : Needs(Call(n, i, cont)) = Pending(cont)
    /\ \A i, cont : Needs(RunCont(cont, i)) = Pending(cont)
    /\ \A n, k, i, cont : Needs(RepStep(n, k, i, cont)) = Pending(cont) \cup {n}
    /\ Needs(ReturnTrue) = {} /\ Needs(ReturnFalse) = {}
BY DEF Needs, Call, RunCont, RepStep, ReturnTrue, ReturnFalse

LEMMA NeedsSettle ==
    \A n, k, i, cont : Needs(Settle(n, k, i, cont)) \subseteq Pending(cont)
<1> TAKE n, k, i, cont
<1>1. CASE k >= code[n].min
  BY <1>1, NeedsForms DEF Settle
<1>2. CASE ~ (k >= code[n].min)
  BY <1>2, NeedsForms DEF Settle
<1> QED BY <1>1, <1>2

LEMMA OpenPush ==
    ASSUME NEW S, NEW s \in Seq(S), NEW f \in S
    PROVE  /\ \A t \in 0..Len(s) : Above(Append(s, f), 0, t) = Above(s, 0, t)
           /\ Above(Append(s, f), 0, Len(s) + 1) = Above(s, 0, Len(s)) \cup Credit(f)
<1> DEFINE s2 == Append(s, f)
           L == Len(s)
<1>1. /\ L \in Nat /\ s2[L + 1] = f
      /\ \A i \in 1..L : s2[i] = s[i]
  BY PushSeq
<1> HIDE DEF s2, L
<1>2. ASSUME NEW t \in 0..L PROVE Above(s2, 0, t) = Above(s, 0, t)
  <2>1. \A j \in (0 + 1)..t : s2[j] = s[j]
    BY <1>1, <1>2
  <2> QED BY <2>1 DEF Above
<1>3. Above(s2, 0, L + 1) = Above(s, 0, L) \cup Credit(f)
  <2>1. (0 + 1)..(L + 1) = ((0 + 1)..L) \cup {L + 1}
    BY <1>1
  <2>2. \A j \in (0 + 1)..L : s2[j] = s[j]
    BY <1>1
  <2>3. ASSUME NEW x
        PROVE  x \in Above(s2, 0, L + 1) <=> x \in Above(s, 0, L) \cup Credit(f)
    <3>1. x \in Above(s2, 0, L + 1) <=> \E j \in (0 + 1)..(L + 1) : s2[j].fn = "m" /\ x = s2[j].node
      BY DEF Above
    <3>2. x \in Above(s, 0, L) <=> \E j \in (0 + 1)..L : s[j].fn = "m" /\ x = s[j].node
      BY DEF Above
    <3>3. x \in Credit(f) <=> f.fn = "m" /\ x = f.node
      BY DEF Credit
    <3> QED BY <1>1, <2>1, <2>2, <3>1, <3>2, <3>3
  <2> QED BY <2>3
<1> QED BY <1>2, <1>3 DEF s2, L

LEMMA FramesAppend ==
    ASSUME NEW table, NEW r, NEW w, NEW S, NEW s \in Seq(S), NEW f \in S
    PROVE  FramesBacked(table, r, w, Append(s, f)) <=>
               /\ FramesBacked(table, r, w, s)
               /\ Backed(table, r, w, Above(s, 0, Len(s)), Resume(f))
<1> DEFINE s2 == Append(s, f)
           L == Len(s)
<1>1. /\ L \in Nat /\ Len(s2) = L + 1 /\ s2[L + 1] = f
      /\ \A i \in 1..L : s2[i] = s[i]
  BY PushSeq
<1>2. \A t \in 0..L : Above(s2, 0, t) = Above(s, 0, t)
  BY OpenPush
<1> HIDE DEF s2
<1>3. \A x \in 1..L : Above(s2, 0, x - 1) = Above(s, 0, x - 1)
  <2> TAKE x \in 1..L
  <2>1. x - 1 \in 0..L
    BY <1>1
  <2> QED BY <1>2, <2>1
<1>4. Above(s2, 0, (L + 1) - 1) = Above(s, 0, L)
  <2>1. (L + 1) - 1 = L /\ L \in 0..L
    BY <1>1
  <2> QED BY <1>2, <2>1
<1>5. 1..Len(s2) = (1..L) \cup {L + 1}
  BY <1>1
<1> HIDE DEF L
<1> QED BY <1>1, <1>3, <1>4, <1>5 DEF FramesBacked, s2, L
-----------------------------------------------------------------------------
(***************************************************************************)
(* A step in a grammar that has kept the node it is about: what the step   *)
(* goes on to can be made good only if what it came from can.              *)
(***************************************************************************)
LEMMA NowFacts ==
    ASSUME LInv
    PROVE  /\ Len(input) \in Nat /\ Offsets(input) = 0..Len(input) /\ TableOK(code)
           /\ stack \in Seq(Frame)
           /\ ctl.op \in {"m", "cont", "rep"} =>
                  ctl.pos \in 0..Len(input) /\ ctl.pos \in Nat /\ ctl.cont \in Seq(ContItem)
           /\ ctl.op \in {"m", "rep"} => ctl.node \in DOMAIN code
           /\ ctl.op = "rep" => ctl.count \in Nat /\ code[ctl.node].op = "Rep"
<1>1. TInv /\ Within(Len(input), ctl, stack)
  BY DEF LInv
<1>2. TableOK(code) /\ Len(input) \in Nat
  BY <1>1, TInvTable
<1> DEFINE L == Derivable(code, input)
           end == Len(input)
<1>3. Ready(L, end)
  BY <1>1, <1>2 DEF Ready, IsLanguage
<1> HIDE DEF L, end
<1>4. /\ end \in Nat /\ Offsets(input) = 0..end /\ TableOK(code) /\ stack \in Seq(Frame)
      /\ ctl.op \in {"m", "cont", "rep"} =>
             ctl.pos \in 0..end /\ ctl.pos \in Nat /\ ctl.cont \in Seq(ContItem)
      /\ ctl.op \in {"m", "rep"} => ctl.node \in DOMAIN code
      /\ ctl.op = "rep" => ctl.count \in Nat /\ code[ctl.node].op = "Rep"
  BY <1>3, ReadyFacts
<1> QED BY <1>4 DEF end

\* In a grammar that has kept the node, entering it gains nothing.
LEMMA EnterGainsNothing ==
    ASSUME LInv, Enter, NEW T, NEW L, IsLanguage(T, input, L), DOMAIN T = DOMAIN code,
           T[ctl.node] = code[ctl.node], NEW end, end = Len(input), MayMatch(L, T, end, ctl')
    PROVE  MayMatch(L, T, end, ctl)
<1> DEFINE n == ctl.node
           i == ctl.pos
           cont == ctl.cont
           kids == code[n].kids
<1>1. ctl.op = "m"
  BY DEF Enter, EnterPass, EnterTerm, EnterSeq, EnterAlt, EnterOpt, EnterRep, Open
<1>2. /\ end \in Nat /\ Offsets(input) = 0..end /\ n \in DOMAIN T /\ T[n] = code[n]
      /\ i \in 0..end /\ i \in Nat /\ cont \in Seq(ContItem) /\ TableOK(code)
  BY <1>1, NowFacts
<1>3. kids \in Seq(DOMAIN code) /\ Len(kids) \in Nat
  BY <1>2, NodeShape
<1>4. Leads(L, T, end, n, 0, i, cont) => MayMatch(L, T, end, ctl)
  BY <1>1 DEF MayMatch
<1> SUFFICES Leads(L, T, end, n, 0, i, cont)
  BY <1>4
<1>5. i \in Offsets(input) /\ IsLanguage(T, input, L) /\ MayMatch(L, T, end, ctl')
  BY <1>2
<1>6. CASE EnterPass
  <2>1. code[n].op = "Pass" /\ ctl' = Call(kids[1], i, cont)
    BY <1>6 DEF EnterPass, Open
  <2>2. Leads(L, T, end, n, 0, i, cont) <=> Leads(L, T, end, kids[1], 0, i, cont)
    BY <1>2, <1>5, <2>1, LeadsWhole
  <2> HIDE DEF kids, cont, i, n
  <2> QED BY <1>5, <2>1, <2>2, MayMatchForms
<1>7. CASE EnterTerm
  <2> DEFINE np == MatchAt(code[n].term, input, i)
  <2>1. code[n].op = "Term" /\ ctl' = IF np = NoMatch THEN ReturnFalse ELSE RunCont(cont, np)
    BY <1>7 DEF EnterTerm, Open
  <2>2. Leads(L, T, end, n, 0, i, cont) <=> np # NoMatch /\ Completes(L, T, end, np, cont)
    BY <1>2, <1>5, <2>1, LeadsWhole
  <2> HIDE DEF np, cont, i, n
  <2> QED BY <1>5, <2>1, <2>2, MayMatchForms
<1>8. CASE EnterSeq
  <2> DEFINE c == SeqCont(n, 2)
  <2>1. /\ code[n].op = "Seq"
        /\ ctl' = IF kids = << >> THEN RunCont(cont, i) ELSE Call(kids[1], i, <<c>> \o cont)
    BY <1>8 DEF EnterSeq, Open
  <2>2. c \in ContItem /\ c.node = n /\ c.k = 0 + 2
    BY <1>2 DEF SeqCont, ContItem
  <2>3. kids = << >> <=> 0 >= Len(kids)
    BY <1>3
  <2> HIDE DEF c
  <2>4. Leads(L, T, end, n, 0, i, cont) <=>
            IF 0 >= Len(kids) THEN Completes(L, T, end, i, cont)
            ELSE Leads(L, T, end, kids[0 + 1], 0, i, <<c>> \o cont)
    <3> HIDE DEF i, cont, n
    <3>1. /\ n \in DOMAIN T /\ T[n].op = "Seq" /\ kids = T[n].kids /\ i \in Offsets(input)
          /\ cont \in Seq(ContItem) /\ 0 \in Nat
      BY <1>2, <1>5, <2>1
    <3> HIDE DEF kids
    <3>2. Leads(L, T, end, n, 0, i, cont) <=>
              IF 0 >= Len(T[n].kids) THEN Completes(L, T, end, i, cont)
              ELSE Leads(L, T, end, T[n].kids[0 + 1], 0, i, <<c>> \o cont)
      BY <1>5, <2>2, <3>1, LeadsSeq
    <3> QED BY <3>1, <3>2
  <2>5. 0 + 1 = 1
    OBVIOUS
  <2> HIDE DEF kids, cont, i, n
  <2>6. CASE kids = << >>
    <3>1. Completes(L, T, end, i, cont)
      BY <1>5, <2>1, <2>6, MayMatchForms
    <3> QED BY <2>3, <2>4, <2>6, <3>1
  <2>7. CASE kids # << >>
    <3>1. Leads(L, T, end, kids[1], 0, i, <<c>> \o cont)
      BY <1>5, <2>1, <2>7, MayMatchForms
    <3> QED BY <2>3, <2>4, <2>5, <2>7, <3>1
  <2> QED BY <2>6, <2>7
<1>9. CASE EnterAlt
  <2>1. /\ code[n].op = "Alt"
        /\ ctl' = IF kids = << >> THEN ReturnFalse ELSE Call(kids[1], i, cont)
    BY <1>9 DEF EnterAlt, Open
  <2>2. Leads(L, T, end, n, 0, i, cont) <=>
            \E b \in 1..Len(kids) : Leads(L, T, end, kids[b], 0, i, cont)
    BY <1>2, <1>5, <2>1, LeadsWhole
  <2>3. kids # << >> => 1 \in 1..Len(kids)
    BY <1>3
  <2> HIDE DEF kids, cont, i, n
  <2> QED BY <1>5, <2>1, <2>2, <2>3, MayMatchForms
<1>10. CASE EnterOpt
  <2>1. code[n].op = "Opt" /\ ctl' = Call(kids[1], i, cont)
    BY <1>10 DEF EnterOpt, Open
  <2>2. Leads(L, T, end, n, 0, i, cont) <=>
            Completes(L, T, end, i, cont) \/ Leads(L, T, end, kids[1], 0, i, cont)
    BY <1>2, <1>5, <2>1, LeadsWhole
  <2> HIDE DEF kids, cont, i, n
  <2> QED BY <1>5, <2>1, <2>2, MayMatchForms
<1>11. CASE EnterRep
  <2>1. ctl' = RepStep(n, 0, i, cont)
    BY <1>11 DEF EnterRep
  <2> HIDE DEF kids, cont, i, n
  <2> QED BY <1>5, <2>1, MayMatchForms
<1> QED BY <1>6, <1>7, <1>8, <1>9, <1>10, <1>11 DEF Enter

\* Settle, read in another grammar that has kept the repetition.
LEMMA SettleIn ==
    ASSUME NEW L, NEW T, NEW end, NEW n, T[n] = code[n], NEW k, NEW i, NEW cont
    PROVE  MayMatch(L, T, end, Settle(n, k, i, cont)) =>
               k >= T[n].min /\ Completes(L, T, end, i, cont)
<1>1. CASE k >= code[n].min
  BY <1>1, MayMatchForms DEF Settle
<1>2. CASE ~ (k >= code[n].min)
  BY <1>2, MayMatchForms DEF Settle
<1> QED BY <1>1, <1>2

\* Settling or one more item gains nothing.
LEMMA RepGainsNothing ==
    ASSUME LInv, NEW T, NEW L, IsLanguage(T, input, L), DOMAIN T = DOMAIN code,
           NEW n \in DOMAIN code, code[n].op = "Rep", T[n] = code[n],
           NEW k \in Nat, NEW i \in 0..Len(input), NEW cont \in Seq(ContItem),
           NEW end, end = Len(input)
    PROVE  /\ MayMatch(L, T, end, Settle(n, k, i, cont))
                  => MayMatch(L, T, end, RepStep(n, k, i, cont))
           /\ Room(code, n, k) =>
                  (MayMatch(L, T, end,
                            Call(code[n].kids[1], i, <<RepCont(n, k + 1, i)>> \o cont))
                      => MayMatch(L, T, end, RepStep(n, k, i, cont)))
<1>1. /\ end \in Nat /\ Offsets(input) = 0..end /\ i \in Nat /\ i \in Offsets(input)
      /\ n \in DOMAIN T /\ T[n].op = "Rep"
  BY NowFacts
<1> DEFINE c == RepCont(n, k + 1, i)
           again   == Leads(L, T, end, T[n].kids[1], 0, i, <<c>> \o cont)
           settled == k >= T[n].min /\ Completes(L, T, end, i, cont)
           whole   == Leads(L, T, end, n, k, i, cont)
<1>2. c \in ContItem /\ c.node = n /\ c.k = k + 1 /\ c.start = i
  BY <1>1 DEF RepCont, ContItem
<1> HIDE DEF c
<1>3. /\ settled => whole
      /\ Room(T, n, k) /\ again => whole
  BY <1>1, <1>2, LeadsRep
<1>4. whole => MayMatch(L, T, end, RepStep(n, k, i, cont))
  BY MayMatchForms
<1>5. MayMatch(L, T, end, Settle(n, k, i, cont)) => settled
  BY SettleIn
<1>6. Room(code, n, k) => Room(T, n, k)
  BY DEF Room
<1>7. MayMatch(L, T, end, Call(code[n].kids[1], i, <<c>> \o cont)) => again
  BY MayMatchForms
<1> HIDE DEF again, settled, whole
<1>8. /\ MayMatch(L, T, end, Settle(n, k, i, cont))
            => MayMatch(L, T, end, RepStep(n, k, i, cont))
      /\ Room(code, n, k) =>
            (MayMatch(L, T, end, Call(code[n].kids[1], i, <<c>> \o cont))
                => MayMatch(L, T, end, RepStep(n, k, i, cont)))
  BY <1>3, <1>4, <1>5, <1>6, <1>7
<1> QED BY <1>8 DEF c

\* Nor does what follows a matched element.
LEMMA ContGainsNothing ==
    ASSUME LInv, ContDone \/ ContSeq \/ ContRep,
           NEW T, NEW L, IsLanguage(T, input, L), DOMAIN T = DOMAIN code,
           ctl.cont # << >> => T[Head(ctl.cont).node] = code[Head(ctl.cont).node],
           NEW end, end = Len(input), MayMatch(L, T, end, ctl')
    PROVE  MayMatch(L, T, end, ctl)
<1> DEFINE i == ctl.pos
           cont == ctl.cont
           c == Head(cont)
           rest == Tail(cont)
           n == c.node
<1>1. ctl.op = "cont"
  BY DEF ContDone, ContSeq, ContRep
<1>2. /\ end \in Nat /\ Offsets(input) = 0..end /\ i \in 0..end /\ i \in Nat
      /\ i \in Offsets(input) /\ cont \in Seq(ContItem) /\ TableOK(code)
      /\ IsLanguage(T, input, L) /\ MayMatch(L, T, end, ctl')
  <2>1. /\ Len(input) \in Nat /\ Offsets(input) = 0..Len(input) /\ TableOK(code)
        /\ ctl.pos \in 0..Len(input) /\ ctl.pos \in Nat /\ ctl.cont \in Seq(ContItem)
    BY <1>1, NowFacts
  <2> QED BY <2>1
<1>3. Completes(L, T, end, i, cont) => MayMatch(L, T, end, ctl)
  BY <1>1 DEF MayMatch
<1>4. ASSUME cont # << >>
      PROVE  /\ c \in ContItem /\ rest \in Seq(ContItem)
             /\ n \in DOMAIN code /\ c.k \in Nat \ {0} /\ c.start \in Nat /\ T[n] = code[n]
  <2>1. c \in ContItem /\ rest \in Seq(ContItem)
    BY <1>2, <1>4, TailSeq
  <2> QED BY <1>4, <2>1 DEF ContItem
<1> SUFFICES Completes(L, T, end, i, cont)
  BY <1>3
<1>5. CASE ContDone
  <2>1. cont = << >> /\ ctl' = IF i = Len(input) THEN ReturnTrue ELSE ReturnFalse
    BY <1>5 DEF ContDone
  <2>2. Completes(L, T, end, i, cont) <=> i = end
    BY <1>2, <2>1, CompletesNone
  <2> HIDE DEF i, cont
  <2> QED BY <1>2, <2>1, <2>2, MayMatchForms
<1>6. CASE ContSeq
  <2> DEFINE kids == code[n].kids
             d == SeqCont(n, c.k + 1)
             k == c.k - 1
  <2>1. /\ cont # << >> /\ code[n].op = "Seq"
        /\ ctl' = IF c.k > Len(kids) THEN RunCont(rest, i)
                  ELSE Call(kids[c.k], i, <<d>> \o rest)
    BY <1>6 DEF ContSeq
  <2>2. /\ c \in ContItem /\ rest \in Seq(ContItem) /\ n \in DOMAIN code /\ c.k \in Nat \ {0}
        /\ n \in DOMAIN T /\ T[n] = code[n] /\ T[n].op = "Seq"
    BY <1>4, <2>1
  <2>3. d \in ContItem /\ d.node = n /\ d.k = k + 2
    BY <2>2 DEF SeqCont, ContItem
  <2>4. Completes(L, T, end, i, cont) <=> Leads(L, T, end, n, k, i, rest)
    BY <1>2, <2>1, <2>2, CompletesItem
  <2>5. Len(kids) \in Nat /\ k \in Nat /\ k + 1 = c.k /\ (c.k > Len(kids) <=> k >= Len(kids))
    BY <1>2, <2>2, NodeShape
  <2> HIDE DEF d, k, c, rest, i, cont, n
  <2>6. Leads(L, T, end, n, k, i, rest) <=>
            IF k >= Len(kids) THEN Completes(L, T, end, i, rest)
            ELSE Leads(L, T, end, kids[k + 1], 0, i, <<d>> \o rest)
    <3>1. /\ IsLanguage(T, input, L) /\ n \in DOMAIN T /\ T[n].op = "Seq" /\ kids = T[n].kids
          /\ i \in Offsets(input) /\ rest \in Seq(ContItem) /\ d \in ContItem /\ d.node = n
          /\ k \in Nat /\ d.k = k + 2 /\ end = Len(input)
      BY <1>2, <2>2, <2>3, <2>5
    <3> HIDE DEF kids
    <3>2. Leads(L, T, end, n, k, i, rest) <=>
              IF k >= Len(T[n].kids) THEN Completes(L, T, end, i, rest)
              ELSE Leads(L, T, end, T[n].kids[k + 1], 0, i, <<d>> \o rest)
      BY ONLY <3>1, LeadsSeq
    <3> QED BY <3>1, <3>2
  <2> HIDE DEF kids
  <2>7. MayMatch(L, T, end, ctl') =>
            IF c.k > Len(kids) THEN Completes(L, T, end, i, rest)
            ELSE Leads(L, T, end, kids[c.k], 0, i, <<d>> \o rest)
    BY <2>1, MayMatchForms
  <2> QED BY <1>2, <2>4, <2>5, <2>6, <2>7
<1>7. CASE ContRep
  <2>1. /\ cont # << >> /\ code[n].op = "Rep"
        /\ ctl' = IF i = c.start THEN Settle(n, c.k, i, rest) ELSE RepStep(n, c.k, i, rest)
    BY <1>7 DEF ContRep
  <2>2. T[n] = code[n]
    BY <1>4, <2>1
  <2>3. /\ i # c.start => (Completes(L, T, end, i, cont) <=> Leads(L, T, end, n, c.k, i, rest))
        /\ i = c.start => (Completes(L, T, end, i, cont) <=>
                               c.k >= T[n].min /\ Completes(L, T, end, i, rest))
    BY <1>2, <2>1, <2>2, CompletesItem
  <2> HIDE DEF rest, i, c, cont, n
  <2>4. CASE i = c.start
    BY <1>2, <2>1, <2>2, <2>3, <2>4, SettleIn
  <2>5. CASE i # c.start
    BY <1>2, <2>1, <2>3, <2>5, MayMatchForms
  <2> QED BY <2>4, <2>5
<1> QED BY <1>5, <1>6, <1>7

\* Going back to a frame that has kept its node gains nothing over the call it was opened for.
LEMMA RetryGainsNothing ==
    ASSUME LInv, NextBranch \/ SkipOpt, NEW T, NEW L, IsLanguage(T, input, L),
           DOMAIN T = DOMAIN code, T[Top.node] = code[Top.node],
           NEW end, end = Len(input), MayMatch(L, T, end, ctl')
    PROVE  MayMatch(L, T, end, Resume(Top))
<1> DEFINE n == Top.node
           i == Top.pos
           cont == Top.cont
           kids == code[n].kids
           k == Top.k
<1>1. ctl.op = "fail" /\ stack # << >> /\ Top.fn = "m"
  BY DEF NextBranch, SkipOpt, HasBranch, CanSkip
<1>2. TInv /\ Within(Len(input), ctl, stack) /\ TableOK(code) /\ end \in Nat
      /\ Offsets(input) = 0..end /\ stack \in Seq(Frame)
  BY NowFacts DEF LInv
<1>3. Top \in Frame /\ i <= end
  <2>1. Top \in Frame
    BY <1>1, <1>2, TruncatedEmpty
  <2>2. Len(stack) \in 1..Len(stack)
    BY <1>1, <1>2, FrontSeq
  <2> QED BY <1>2, <2>1, <2>2 DEF Within, Top
<1>4. /\ n \in DOMAIN code /\ n \in DOMAIN T /\ i \in Nat /\ i \in Offsets(input)
      /\ k \in Nat /\ T[n] = code[n]
  BY <1>2, <1>3 DEF Frame
<1>5. Len(kids) \in Nat
  BY <1>2, <1>4, NodeShape
<1>6. Leads(L, T, end, n, 0, i, cont) => MayMatch(L, T, end, Resume(Top))
  BY <1>1, MayMatchForms DEF Resume
<1> SUFFICES Leads(L, T, end, n, 0, i, cont)
  BY <1>6
<1>7. IsLanguage(T, input, L) /\ MayMatch(L, T, end, ctl')
  OBVIOUS
<1>8. CASE NextBranch
  <2>1. code[n].op = "Alt" /\ k < Len(kids) /\ ctl' = Call(kids[k + 1], i, cont)
    BY <1>8 DEF NextBranch, HasBranch
  <2>2. Leads(L, T, end, n, 0, i, cont) <=>
            \E b \in 1..Len(kids) : Leads(L, T, end, kids[b], 0, i, cont)
    BY <1>4, <1>7, <2>1, LeadsWhole
  <2> HIDE DEF kids, n, k, i, cont
  <2>3. k + 1 \in 1..Len(kids)
    BY <1>4, <1>5, <2>1
  <2> QED BY <1>7, <2>1, <2>2, <2>3, MayMatchForms
<1>9. CASE SkipOpt
  <2>1. code[n].op = "Opt" /\ ctl' = RunCont(cont, i)
    BY <1>9 DEF SkipOpt, CanSkip
  <2>2. Leads(L, T, end, n, 0, i, cont) <=>
            Completes(L, T, end, i, cont) \/ Leads(L, T, end, kids[1], 0, i, cont)
    BY <1>4, <1>7, <2>1, LeadsWhole
  <2> HIDE DEF kids, n, k, i, cont
  <2> QED BY <1>7, <2>1, <2>2, MayMatchForms
<1> QED BY <1>8, <1>9
-----------------------------------------------------------------------------
(***************************************************************************)
(* The invariant, and every step of the machine.                           *)
(***************************************************************************)
KInv == /\ LInv
        /\ Backed(code, root, input, Above(stack, 0, Len(stack)) \cup VisitedNodes, ctl)
        /\ FramesBacked(code, root, input, stack)

\* What a step has to show.
StaysBacked ==
    /\ Backed(code, root, input, Above(stack', 0, Len(stack')) \cup VisitedNodes', ctl')
    /\ FramesBacked(code, root, input, stack')

LEMMA NothingVisited ==
    ASSUME KInv, ctl.op # "ok"
    PROVE  visited = << >> /\ VisitedNodes = {}
<1>1. visited = << >>
  BY DEF KInv, LInv, TInv, NothingToUndo
<1> QED BY <1>1 DEF VisitedNodes

\* The grammars a step has to look at.
LEMMA InKeeping ==
    ASSUME LInv, NEW W, NEW T, T = Keeping(code, W), NEW L, L = Derivable(T, input)
    PROVE  /\ DOMAIN T = DOMAIN code /\ IsLanguage(T, input, L)
           /\ \A n \in DOMAIN code : n \in W => T[n] = code[n]
           /\ \A c : Reads(T, input, c) <=> MayMatch(L, T, Len(input), c)
<1>1. TableOK(code) /\ Len(input) \in Nat
  BY NowFacts
<1>2. \A c : Reads(T, input, c) <=> MayMatch(L, T, Len(input), c)
  BY DEF Reads
<1>3. /\ DOMAIN T = DOMAIN code /\ IsLanguage(T, input, L)
      /\ \A n \in DOMAIN code : n \in W => T[n] = code[n]
  BY <1>1, KeepingIs
<1> QED BY <1>2, <1>3

LEMMA EnterNeeds ==
    ASSUME LInv, Enter
    PROVE  /\ ctl.op = "m" /\ Needs(ctl) = Pending(ctl.cont)
           /\ Needs(ctl') \subseteq Pending(ctl.cont) \cup {ctl.node}
<1> DEFINE n == ctl.node
           i == ctl.pos
           cont == ctl.cont
           kids == code[n].kids
<1>1. ctl.op = "m"
  BY DEF Enter, EnterPass, EnterTerm, EnterSeq, EnterAlt, EnterOpt, EnterRep, Open
<1>2. cont \in Seq(ContItem) /\ n \in DOMAIN code
  BY <1>1, NowFacts
<1>3. Needs(ctl) = Pending(cont)
  BY <1>1 DEF Needs
<1>4. CASE EnterPass
  <2>1. ctl' = Call(kids[1], i, cont)
    BY <1>4 DEF EnterPass
  <2> QED BY <1>1, <1>3, <2>1, NeedsForms
<1>5. CASE EnterTerm
  <2>1. ctl' = ReturnFalse \/ \E np : ctl' = RunCont(cont, np)
    BY <1>5 DEF EnterTerm
  <2> QED BY <1>1, <1>3, <2>1, NeedsForms
<1>6. CASE EnterSeq
  <2> DEFINE c == SeqCont(n, 2)
  <2>1. ctl' = RunCont(cont, i) \/ ctl' = Call(kids[1], i, <<c>> \o cont)
    BY <1>6 DEF EnterSeq
  <2>2. c \in ContItem /\ c.node = n
    BY <1>2 DEF SeqCont, ContItem
  <2> HIDE DEF c
  <2>3. Pending(<<c>> \o cont) = Pending(cont) \cup {n}
    BY <1>2, <2>2, PendingCons
  <2> QED BY <1>1, <1>3, <2>1, <2>3, NeedsForms
<1>7. CASE EnterAlt
  <2>1. ctl' = ReturnFalse \/ ctl' = Call(kids[1], i, cont)
    BY <1>7 DEF EnterAlt
  <2> QED BY <1>1, <1>3, <2>1, NeedsForms
<1>8. CASE EnterOpt
  <2>1. ctl' = Call(kids[1], i, cont)
    BY <1>8 DEF EnterOpt
  <2> QED BY <1>1, <1>3, <2>1, NeedsForms
<1>9. CASE EnterRep
  <2>1. ctl' = RepStep(n, 0, i, cont)
    BY <1>9 DEF EnterRep
  <2> QED BY <1>1, <1>3, <2>1, NeedsForms
<1> QED BY <1>4, <1>5, <1>6, <1>7, <1>8, <1>9 DEF Enter

LEMMA KEnter ==
    ASSUME KInv, Enter
    PROVE  StaysBacked
<1> DEFINE n == ctl.node
           V == Above(stack, 0, Len(stack))
<1>1. /\ ctl.op = "m" /\ Needs(ctl) = Pending(ctl.cont)
      /\ Needs(ctl') \subseteq Pending(ctl.cont) \cup {n}
  BY EnterNeeds DEF KInv
<1>2. LInv /\ TInv /\ stack \in Seq(Frame) /\ n \in DOMAIN code
  BY <1>1, NowFacts DEF KInv, LInv
<1>3. visited = << >> /\ VisitedNodes = {}
  BY <1>1, NothingVisited
<1>4. PICK f \in Frame : stack' = Append(stack, f) /\ Credit(f) = {n} /\ Resume(f) = ctl
  <2>1. \E more \in Nat : stack' = Append(stack, [fn |-> "m", node |-> n, pos |-> ctl.pos,
                               cont |-> ctl.cont, mark |-> Len(visited), k |-> more])
    BY DEF Enter, EnterPass, EnterTerm, EnterSeq, EnterAlt, EnterOpt, EnterRep, Open
  <2>2. PICK more \in Nat : stack' = Append(stack, [fn |-> "m", node |-> n, pos |-> ctl.pos,
                               cont |-> ctl.cont, mark |-> Len(visited), k |-> more])
    BY <2>1
  <2> DEFINE f == [fn |-> "m", node |-> n, pos |-> ctl.pos,
                   cont |-> ctl.cont, mark |-> Len(visited), k |-> more]
  <2>3. ctl \in CallCtl
    BY <1>1, <1>2, CtlShape DEF TInv
  <2>4. Len(visited) \in Nat
    BY <1>3
  <2>5. f \in Frame
    BY <2>3, <2>4 DEF Frame, CallCtl
  <2>6. Credit(f) = {n}
    BY DEF Credit
  <2>7. ctl = [op |-> "m", node |-> n, pos |-> ctl.pos, cont |-> ctl.cont]
    BY <2>3 DEF CallCtl
  <2>8. Resume(f) = ctl
    BY <2>7 DEF Resume, Call
  <2> HIDE DEF f
  <2> QED BY <2>2, <2>5, <2>6, <2>8 DEF f
<1>5. visited' = visited
  BY DEF Enter, EnterPass, EnterTerm, EnterSeq, EnterAlt, EnterOpt, EnterRep, Open
<1>6. VisitedNodes' = {}
  BY <1>3, <1>5 DEF VisitedNodes
<1>7. Above(stack', 0, Len(stack')) = V \cup {n}
  <2>1. Len(stack') = Len(stack) + 1
    BY <1>2, <1>4, PushSeq
  <2> QED BY <1>2, <1>4, <2>1, OpenPush
<1> HIDE DEF V
<1>8. Backed(code, root, input, V, ctl) /\ FramesBacked(code, root, input, stack)
  BY <1>3 DEF KInv, V
<1>9. FramesBacked(code, root, input, stack')
  BY <1>2, <1>4, <1>8, FramesAppend DEF V
<1>10. Backed(code, root, input, V \cup {n}, ctl')
  <2>1. Needs(ctl') \subseteq V \cup {n}
    BY <1>1, <1>8 DEF Backed
  <2>2. ASSUME NEW W \in SUBSET DOMAIN code, V \cup {n} \subseteq W,
               Reads(Keeping(code, W), input, ctl')
        PROVE  Reads(Keeping(code, W), input, ctl)
    <3> DEFINE T == Keeping(code, W)
               L == Derivable(T, input)
    <3>1. /\ DOMAIN T = DOMAIN code /\ IsLanguage(T, input, L) /\ T[n] = code[n]
          /\ \A c : Reads(T, input, c) <=> MayMatch(L, T, Len(input), c)
      BY <1>2, <2>2, InKeeping
    <3> HIDE DEF T, L
    <3>2. MayMatch(L, T, Len(input), ctl')
      BY <2>2, <3>1 DEF T
    <3>3. MayMatch(L, T, Len(input), ctl)
      BY <1>2, <3>1, <3>2, EnterGainsNothing
    <3> QED BY <3>1, <3>3 DEF T
  <2> QED BY <1>8, <2>1, <2>2, BackedOn
<1> QED BY <1>6, <1>7, <1>9, <1>10 DEF StaysBacked

\* A step that only moves the control on.
LEMMA KQuiet ==
    ASSUME KInv, ctl.op # "ok", stack' = stack, visited' = visited,
           Needs(ctl') \subseteq Needs(ctl),
           \A W \in SUBSET DOMAIN code :
               /\ Needs(ctl) \subseteq W /\ Reads(Keeping(code, W), input, ctl')
               => Reads(Keeping(code, W), input, ctl)
    PROVE  StaysBacked
<1> DEFINE V == Above(stack, 0, Len(stack)) \cup VisitedNodes
<1>1. Above(stack', 0, Len(stack')) \cup VisitedNodes' = V
  BY DEF VisitedNodes
<1>2. Backed(code, root, input, V, ctl) /\ FramesBacked(code, root, input, stack)
  BY DEF KInv
<1> HIDE DEF V
<1>3. Needs(ctl) \subseteq V
  BY <1>2 DEF Backed
<1>4. Backed(code, root, input, V, ctl')
  BY <1>2, <1>3, BackedOn
<1> QED BY <1>1, <1>2, <1>4 DEF StaysBacked

LEMMA KCont ==
    ASSUME KInv, ContDone \/ ContSeq \/ ContRep
    PROVE  StaysBacked
<1> DEFINE cont == ctl.cont
           c == Head(cont)
           rest == Tail(cont)
<1>1. ctl.op = "cont" /\ stack' = stack /\ visited' = visited
  BY DEF ContDone, ContSeq, ContRep
<1>2. LInv /\ cont \in Seq(ContItem)
  BY <1>1, NowFacts DEF KInv
<1>3. Needs(ctl) = Pending(cont)
  BY <1>1 DEF Needs
<1>4. ASSUME cont # << >>
      PROVE  /\ c \in ContItem /\ rest \in Seq(ContItem) /\ c.node \in DOMAIN code
             /\ Pending(cont) = Pending(rest) \cup {c.node}
  <2>1. c \in ContItem /\ rest \in Seq(ContItem)
    BY <1>2, <1>4, TailSeq
  <2>2. c.node \in DOMAIN code
    BY <2>1 DEF ContItem
  <2> QED BY <1>2, <1>4, <2>1, <2>2, PendingTail
<1>5. Needs(ctl') \subseteq Pending(cont)
  <2>1. CASE ContDone
    <3>1. ctl' = ReturnTrue \/ ctl' = ReturnFalse
      BY <2>1 DEF ContDone
    <3> QED BY <3>1, NeedsForms
  <2>2. CASE ContSeq
    <3> DEFINE d == SeqCont(c.node, c.k + 1)
    <3>1. cont # << >> /\ (\/ ctl' = RunCont(rest, ctl.pos)
                          \/ \E kid : ctl' = Call(kid, ctl.pos, <<d>> \o rest))
      BY <2>2 DEF ContSeq
    <3>2. d \in ContItem /\ d.node = c.node
      BY <1>4, <3>1 DEF SeqCont, ContItem
    <3> HIDE DEF d
    <3>3. Pending(<<d>> \o rest) = Pending(rest) \cup {c.node}
      BY <1>4, <3>1, <3>2, PendingCons
    <3> QED BY <1>4, <3>1, <3>3, NeedsForms
  <2>3. CASE ContRep
    <3>1. cont # << >> /\ (\/ ctl' = Settle(c.node, c.k, ctl.pos, rest)
                          \/ ctl' = RepStep(c.node, c.k, ctl.pos, rest))
      BY <2>3 DEF ContRep
    <3> QED BY <1>4, <3>1, NeedsForms, NeedsSettle
  <2> QED BY <2>1, <2>2, <2>3
<1>6. ASSUME NEW W \in SUBSET DOMAIN code, Needs(ctl) \subseteq W,
             Reads(Keeping(code, W), input, ctl')
      PROVE  Reads(Keeping(code, W), input, ctl)
  <2> DEFINE T == Keeping(code, W)
             L == Derivable(T, input)
  <2>1. /\ DOMAIN T = DOMAIN code /\ IsLanguage(T, input, L)
        /\ \A n \in DOMAIN code : n \in W => T[n] = code[n]
        /\ \A d : Reads(T, input, d) <=> MayMatch(L, T, Len(input), d)
    BY <1>2, InKeeping
  <2> HIDE DEF T, L
  <2>2. ctl.cont # << >> => T[Head(ctl.cont).node] = code[Head(ctl.cont).node]
    BY <1>3, <1>4, <1>6, <2>1
  <2>3. MayMatch(L, T, Len(input), ctl')
    BY <1>6, <2>1 DEF T
  <2>4. MayMatch(L, T, Len(input), ctl)
    BY <1>2, <2>1, <2>2, <2>3, ContGainsNothing
  <2> QED BY <2>1, <2>4 DEF T
<1> HIDE DEF cont
<1> QED BY <1>1, <1>3, <1>5, <1>6, KQuiet

LEMMA KFull ==
    ASSUME KInv, RepFull
    PROVE  StaysBacked
<1> DEFINE n == ctl.node
           k == ctl.count
           i == ctl.pos
           cont == ctl.cont
<1>1. ctl.op = "rep" /\ stack' = stack /\ visited' = visited /\ ctl' = Settle(n, k, i, cont)
  BY DEF RepFull
<1>2. /\ LInv /\ TInv /\ n \in DOMAIN code /\ code[n].op = "Rep" /\ k \in Nat
      /\ i \in 0..Len(input) /\ cont \in Seq(ContItem)
  BY <1>1, NowFacts DEF KInv, LInv
<1>3. Needs(ctl) = Pending(cont) \cup {n}
  BY <1>1 DEF Needs
<1>4. Needs(ctl') \subseteq Needs(ctl)
  BY <1>1, <1>3, NeedsSettle
<1>5. ctl = RepStep(n, k, i, cont)
  <2>1. ctl \in RepCtl
    BY <1>1, <1>2, CtlShape DEF TInv
  <2> QED BY <2>1 DEF RepCtl, RepStep
<1> HIDE DEF n, k, i, cont
<1>6. ASSUME NEW W \in SUBSET DOMAIN code, Needs(ctl) \subseteq W,
             Reads(Keeping(code, W), input, ctl')
      PROVE  Reads(Keeping(code, W), input, ctl)
  <2> DEFINE T == Keeping(code, W)
             L == Derivable(T, input)
  <2>1. /\ DOMAIN T = DOMAIN code /\ IsLanguage(T, input, L) /\ T[n] = code[n]
        /\ \A d : Reads(T, input, d) <=> MayMatch(L, T, Len(input), d)
    BY <1>2, <1>3, <1>6, InKeeping
  <2> HIDE DEF T, L
  <2>2. MayMatch(L, T, Len(input), Settle(n, k, i, cont))
    BY <1>1, <1>6, <2>1 DEF T
  <2>3. MayMatch(L, T, Len(input), RepStep(n, k, i, cont))
    BY <1>2, <2>1, <2>2, RepGainsNothing
  <2> QED BY <1>5, <2>1, <2>3 DEF T
<1> QED BY <1>1, <1>4, <1>6, KQuiet

LEMMA KTry ==
    ASSUME KInv, RepTry
    PROVE  StaysBacked
<1> DEFINE n == ctl.node
           k == ctl.count
           i == ctl.pos
           cont == ctl.cont
           kid == code[n].kids[1]
           c == RepCont(n, k + 1, i)
           f == [fn |-> "rep", node |-> n, pos |-> i, cont |-> cont,
                 mark |-> Len(visited), k |-> k]
           V == Above(stack, 0, Len(stack))
<1>1. /\ ctl.op = "rep" /\ stack' = Append(stack, f) /\ visited' = visited
      /\ Room(code, n, k) /\ ctl' = Call(kid, i, <<c>> \o cont)
  BY DEF RepTry, UnderMax, Room
<1>2. /\ LInv /\ TInv /\ n \in DOMAIN code /\ code[n].op = "Rep" /\ k \in Nat /\ i \in Nat
      /\ i \in 0..Len(input) /\ cont \in Seq(ContItem) /\ stack \in Seq(Frame)
  BY <1>1, NowFacts DEF KInv, LInv
<1>3. visited = << >> /\ VisitedNodes = {} /\ VisitedNodes' = {}
  <2>1. visited = << >> /\ VisitedNodes = {}
    BY <1>1, NothingVisited
  <2> QED BY <1>1, <2>1 DEF VisitedNodes
<1>4. ctl = RepStep(n, k, i, cont) /\ Needs(ctl) = Pending(cont) \cup {n}
  <2>1. ctl \in RepCtl
    BY <1>1, <1>2, CtlShape DEF TInv
  <2>2. ctl = RepStep(n, k, i, cont)
    BY <2>1 DEF RepCtl, RepStep
  <2>3. Needs(ctl) = Pending(cont) \cup {n}
    BY <1>1 DEF Needs
  <2> QED BY <2>2, <2>3
<1>5. f \in Frame /\ Credit(f) = {} /\ Resume(f) = RepStep(n, k, i, cont)
  <2>1. Len(visited) \in Nat
    BY <1>3
  <2>2. f \in Frame
    BY <1>2, <2>1 DEF Frame
  <2>3. f.fn = "rep" /\ f.node = n /\ f.pos = i /\ f.k = k /\ f.cont = cont
    OBVIOUS
  <2> HIDE DEF f
  <2>4. Credit(f) = {}
    BY <2>3 DEF Credit
  <2>5. Resume(f) = RepStep(n, k, i, cont)
    BY <2>3 DEF Resume
  <2> QED BY <2>2, <2>4, <2>5
<1> HIDE DEF f
<1>6. Above(stack', 0, Len(stack')) = V
  <2>1. Len(stack') = Len(stack) + 1
    BY <1>1, <1>2, <1>5, PushSeq
  <2>2. stack \in Seq(Frame) /\ f \in Frame
    BY <1>2, <1>5
  <2>3. Above(Append(stack, f), 0, Len(stack) + 1) = Above(stack, 0, Len(stack)) \cup Credit(f)
    BY <2>2, OpenPush
  <2> QED BY <1>1, <1>5, <2>1, <2>3
<1>7. Pending(<<c>> \o cont) = Pending(cont) \cup {n}
  <2>1. c \in ContItem /\ c.node = n
    BY <1>2 DEF RepCont, ContItem
  <2> HIDE DEF c, cont, n
  <2> QED BY <1>2, <2>1, PendingCons
<1> HIDE DEF V
<1>8. Backed(code, root, input, V, ctl) /\ FramesBacked(code, root, input, stack)
  BY <1>3 DEF KInv, V
<1>9. FramesBacked(code, root, input, stack')
  BY <1>1, <1>2, <1>4, <1>5, <1>8, FramesAppend DEF V
<1>10. Backed(code, root, input, V, ctl')
  <2>1. Needs(ctl') = Needs(ctl) /\ Needs(ctl) \subseteq V /\ n \in V
    BY <1>1, <1>4, <1>7, <1>8, NeedsForms DEF Backed
  <2> HIDE DEF n, k, i, cont
  <2>2. ASSUME NEW W \in SUBSET DOMAIN code, V \subseteq W,
               Reads(Keeping(code, W), input, ctl')
        PROVE  Reads(Keeping(code, W), input, ctl)
    <3> DEFINE T == Keeping(code, W)
               L == Derivable(T, input)
    <3>1. /\ DOMAIN T = DOMAIN code /\ IsLanguage(T, input, L) /\ T[n] = code[n]
          /\ \A d : Reads(T, input, d) <=> MayMatch(L, T, Len(input), d)
      BY <1>2, <2>1, <2>2, InKeeping
    <3> HIDE DEF T, L
    <3>2. MayMatch(L, T, Len(input), Call(code[n].kids[1], i, <<RepCont(n, k + 1, i)>> \o cont))
      BY <1>1, <2>2, <3>1 DEF T
    <3>3. MayMatch(L, T, Len(input), RepStep(n, k, i, cont))
      BY <1>1, <1>2, <3>1, <3>2, RepGainsNothing
    <3> QED BY <1>4, <3>1, <3>3 DEF T
  <2> QED BY <1>8, <2>1, <2>2, BackedOn
<1> QED BY <1>3, <1>6, <1>9, <1>10 DEF StaysBacked

\* The frames below the top one, and what the top one adds to them.
LEMMA SplitTop ==
    ASSUME KInv, stack # << >>
    PROVE  /\ Below \in Seq(Frame) /\ Top \in Frame /\ Top.pos \in 0..Len(input)
           /\ Above(stack, 0, Len(stack)) = Above(Below, 0, Len(Below)) \cup Credit(Top)
           /\ FramesBacked(code, root, input, Below)
           /\ Backed(code, root, input, Above(Below, 0, Len(Below)), Resume(Top))
<1>1. stack \in Seq(Frame) /\ Within(Len(input), ctl, stack) /\ Len(input) \in Nat
  BY NowFacts DEF KInv, LInv
<1>2. Below \in Seq(Frame) /\ Top \in Frame /\ stack = Append(Below, Top)
  BY <1>1, Unpush DEF Below, Top
<1>3. Len(stack) = Len(Below) + 1
  BY <1>2, PushSeq
<1>4. Above(stack, 0, Len(stack)) = Above(Below, 0, Len(Below)) \cup Credit(Top)
  <2>1. Above(Append(Below, Top), 0, Len(Below) + 1) = Above(Below, 0, Len(Below)) \cup Credit(Top)
    BY <1>2, OpenPush
  <2> QED BY <1>2, <1>3, <2>1
<1>5. Top.pos \in 0..Len(input)
  <2>1. Len(stack) \in 1..Len(stack)
    BY <1>1, FrontSeq
  <2>2. Top.pos <= Len(input) /\ Top.pos \in Nat
    BY <1>1, <1>2, <2>1 DEF Within, Top, Frame
  <2> QED BY <1>1, <2>2
<1>6. /\ FramesBacked(code, root, input, Below)
      /\ Backed(code, root, input, Above(Below, 0, Len(Below)), Resume(Top))
  <2>1. FramesBacked(code, root, input, Append(Below, Top))
    BY <1>2 DEF KInv
  <2> QED BY <1>2, <2>1, FramesAppend
<1> QED BY <1>2, <1>4, <1>5, <1>6

LEMMA KRefuse ==
    ASSUME KInv, Refuse
    PROVE  StaysBacked
<1>1. ctl'.op = "fail" /\ stack' = stack
  BY DEF Refuse, ReturnFalse
<1>2. FramesBacked(code, root, input, stack')
  BY <1>1 DEF KInv
<1> QED BY <1>1, <1>2, BackedNever DEF StaysBacked

LEMMA KFalse ==
    ASSUME KInv, CloseFalse
    PROVE  StaysBacked
<1>1. ctl'.op = "fail" /\ stack # << >> /\ stack' = Below
  BY DEF CloseFalse
<1>2. FramesBacked(code, root, input, stack')
  BY <1>1, SplitTop
<1> QED BY <1>1, <1>2, BackedNever DEF StaysBacked

\* The node of a frame of m that returns true passes from the open nodes to the visited ones.
LEMMA KTrue ==
    ASSUME KInv, CloseTrue
    PROVE  StaysBacked
<1>1. /\ ctl' = ctl /\ stack # << >> /\ stack' = Below
      /\ visited' = IF Top.fn = "m" THEN Append(visited, Top.node) ELSE visited
  BY DEF CloseTrue
<1>2. /\ Above(stack, 0, Len(stack)) = Above(Below, 0, Len(Below)) \cup Credit(Top)
      /\ FramesBacked(code, root, input, Below) /\ Top \in Frame
  BY <1>1, SplitTop
<1>3. VisitedNodes' = VisitedNodes \cup Credit(Top)
  <2>1. visited \in Seq(DOMAIN code) /\ Top.node \in DOMAIN code
    BY <1>2 DEF KInv, LInv, TInv, Frame
  <2>2. CASE Top.fn = "m"
    <3>1. /\ Len(visited') = Len(visited) + 1 /\ Len(visited) \in Nat
          /\ \A x \in 1..Len(visited) : visited'[x] = visited[x]
          /\ visited'[Len(visited) + 1] = Top.node
      BY <1>1, <2>1, <2>2, PushSeq
    <3>2. 1..Len(visited') = (1..Len(visited)) \cup {Len(visited) + 1}
      BY <3>1
    <3>3. VisitedNodes' = {visited'[x] : x \in (1..Len(visited)) \cup {Len(visited) + 1}}
      BY <3>2 DEF VisitedNodes
    <3>4. VisitedNodes' = VisitedNodes \cup {Top.node}
      BY <3>1, <3>3 DEF VisitedNodes
    <3> QED BY <2>2, <3>4 DEF Credit
  <2>3. CASE Top.fn # "m"
    <3>1. VisitedNodes' = VisitedNodes
      BY <1>1, <2>3 DEF VisitedNodes
    <3> QED BY <2>3, <3>1 DEF Credit
  <2> QED BY <2>2, <2>3
<1>4. Above(stack', 0, Len(stack')) \cup VisitedNodes'
          = Above(stack, 0, Len(stack)) \cup VisitedNodes
  BY <1>1, <1>2, <1>3
<1>5. Backed(code, root, input, Above(stack, 0, Len(stack)) \cup VisitedNodes, ctl)
  BY DEF KInv
<1> QED BY <1>1, <1>2, <1>4, <1>5 DEF StaysBacked

\* A rollback leaves nothing credited.
LEMMA UndoneNodes ==
    ASSUME KInv, ctl.op = "fail", stack # << >>, visited' = Truncated
    PROVE  VisitedNodes' = {}
<1>1. visited' = << >>
  BY TruncatedEmpty DEF KInv, LInv
<1> QED BY <1>1 DEF VisitedNodes

LEMMA KBack ==
    ASSUME KInv, RepBack
    PROVE  StaysBacked
<1> DEFINE n == Top.node
           k == Top.k
           i == Top.pos
           cont == Top.cont
           V == Above(Below, 0, Len(Below))
<1>1. /\ ctl.op = "fail" /\ stack # << >> /\ Top.fn = "rep" /\ visited' = Truncated
      /\ stack' = Below /\ ctl' = Settle(n, k, i, cont)
  BY DEF RepBack
<1>2. LInv /\ TInv /\ code[n].op = "Rep" /\ VisitedNodes' = {}
  <2>1. LInv /\ TInv
    BY DEF KInv, LInv
  <2>2. VisitedNodes' = {}
    BY <1>1, UndoneNodes
  <2>3. code[Top.node].op = "Rep"
    BY <1>1, <2>1, TruncatedEmpty
  <2> QED BY <2>1, <2>2, <2>3
<1>3. /\ Top \in Frame /\ i \in 0..Len(input)
      /\ FramesBacked(code, root, input, Below)
      /\ Backed(code, root, input, V, Resume(Top))
  BY <1>1, SplitTop
<1>4. n \in DOMAIN code /\ k \in Nat /\ cont \in Seq(ContItem)
  BY <1>3 DEF Frame
<1>5. Resume(Top) = RepStep(n, k, i, cont)
  BY <1>1 DEF Resume
<1>6. Needs(Resume(Top)) = Pending(cont) \cup {n} /\ Needs(ctl') \subseteq Pending(cont)
  BY <1>1, <1>5, NeedsForms, NeedsSettle
<1> HIDE DEF n, k, i, cont, V
<1>7. Needs(Resume(Top)) \subseteq V
  BY <1>3 DEF Backed
<1>8. ASSUME NEW W \in SUBSET DOMAIN code, V \subseteq W,
             Reads(Keeping(code, W), input, ctl')
      PROVE  Reads(Keeping(code, W), input, Resume(Top))
  <2> DEFINE T == Keeping(code, W)
             L == Derivable(T, input)
  <2>1. /\ DOMAIN T = DOMAIN code /\ IsLanguage(T, input, L) /\ T[n] = code[n]
        /\ \A d : Reads(T, input, d) <=> MayMatch(L, T, Len(input), d)
    BY <1>2, <1>4, <1>6, <1>7, <1>8, InKeeping
  <2> HIDE DEF T, L
  <2>2. MayMatch(L, T, Len(input), Settle(n, k, i, cont))
    BY <1>1, <1>8, <2>1 DEF T
  <2>3. MayMatch(L, T, Len(input), RepStep(n, k, i, cont))
    BY <1>2, <1>3, <1>4, <2>1, <2>2, RepGainsNothing
  <2> QED BY <1>5, <2>1, <2>3 DEF T
<1>9. Backed(code, root, input, V, ctl')
  <2>1. Needs(ctl') \subseteq V
    BY <1>6, <1>7
  <2> QED BY <1>3, <1>8, <2>1, BackedOn
<1>10. Above(stack', 0, Len(stack')) \cup VisitedNodes' = V
  BY <1>1, <1>2 DEF V
<1> QED BY <1>1, <1>3, <1>9, <1>10 DEF StaysBacked

LEMMA KRetry ==
    ASSUME KInv, NextBranch \/ SkipOpt
    PROVE  StaysBacked
<1> DEFINE V == Above(Below, 0, Len(Below))
           g(m) == [Top EXCEPT !.k = m]
<1>1. /\ ctl.op = "fail" /\ stack # << >> /\ Top.fn = "m" /\ visited' = Truncated
  BY DEF NextBranch, SkipOpt, HasBranch, CanSkip
<1>2. LInv /\ TInv /\ stack \in Seq(Frame) /\ VisitedNodes' = {}
  <2>1. LInv /\ TInv
    BY DEF KInv, LInv
  <2>2. VisitedNodes' = {}
    BY <1>1, UndoneNodes
  <2>3. stack \in Seq(Frame)
    BY <2>1, NowFacts
  <2> QED BY <2>1, <2>2, <2>3
<1>3. /\ Below \in Seq(Frame) /\ Top \in Frame
      /\ FramesBacked(code, root, input, Below)
      /\ Backed(code, root, input, V, Resume(Top))
  BY <1>1, SplitTop
<1>4. Needs(Resume(Top)) = Pending(Top.cont) /\ Needs(ctl') = Pending(Top.cont)
  <2>1. Resume(Top) = Call(Top.node, Top.pos, Top.cont)
    BY <1>1 DEF Resume
  <2>2. \/ ctl' = Call(code[Top.node].kids[Top.k + 1], Top.pos, Top.cont)
        \/ ctl' = RunCont(Top.cont, Top.pos)
    BY DEF NextBranch, SkipOpt
  <2> QED BY <2>1, <2>2, NeedsForms
<1>5. PICK m \in Nat : stack' = Append(Below, g(m))
  <2>1. Top.k \in Nat /\ stack[Len(stack)] = Top
    BY <1>3 DEF Frame, Top
  <2>2. PICK m \in Nat : stack' = [stack EXCEPT ![Len(stack)].k = m]
    <3>1. CASE NextBranch
      <4>1. stack' = [stack EXCEPT ![Len(stack)].k = Top.k + 1]
        BY <2>1, <3>1 DEF NextBranch
      <4>2. Top.k + 1 \in Nat
        BY <2>1
      <4> QED BY <4>1, <4>2
    <3>2. CASE SkipOpt
      <4>1. stack' = [stack EXCEPT ![Len(stack)].k = 0]
        BY <3>2 DEF SkipOpt
      <4> QED BY <4>1
    <3> QED BY <3>1, <3>2
  <2>3. stack' = [stack EXCEPT ![Len(stack)] = g(m)]
    BY <1>1, <1>2, <2>1, <2>2
  <2>4. g(m) \in Frame
    BY <1>3 DEF Frame
  <2> HIDE DEF g
  <2>5. [stack EXCEPT ![Len(stack)] = g(m)] = Append(Below, g(m))
    <3>1. /\ Len(stack) \in Nat \ {0} /\ Len(Below) = Len(stack) - 1
          /\ \A x \in 1..(Len(stack) - 1) : Below[x] = stack[x]
      BY <1>1, <1>2, FrontSeq DEF Below
    <3> DEFINE s == [stack EXCEPT ![Len(stack)] = g(m)]
               t == Append(Below, g(m))
    <3>2. /\ s \in Seq(Frame) /\ Len(s) = Len(stack)
          /\ \A x \in 1..Len(stack) : s[x] = IF x = Len(stack) THEN g(m) ELSE stack[x]
      BY <1>2, <2>4, <3>1
    <3>3. /\ t \in Seq(Frame) /\ Len(t) = Len(Below) + 1
          /\ \A x \in 1..Len(Below) : t[x] = Below[x]
          /\ t[Len(Below) + 1] = g(m)
      BY <1>3, <2>4, PushSeq
    <3> HIDE DEF s, t
    <3>4. Len(s) = Len(t) /\ \A x \in 1..Len(s) : s[x] = t[x]
      BY <3>1, <3>2, <3>3
    <3>5. s = t
      BY <3>2, <3>3, <3>4, SeqEqual
    <3> QED BY <3>5 DEF s, t
  <2> QED BY <2>3, <2>5
<1>6. /\ g(m) \in Frame /\ Resume(g(m)) = Resume(Top)
      /\ Credit(g(m)) = {Top.node}
  <2>1. /\ g(m) \in Frame /\ g(m).fn = Top.fn /\ g(m).node = Top.node /\ g(m).pos = Top.pos
        /\ g(m).cont = Top.cont
    BY <1>3 DEF Frame
  <2> HIDE DEF g
  <2> QED BY <1>1, <2>1 DEF Resume, Credit
<1> HIDE DEF g, V
<1>7. Above(stack', 0, Len(stack')) \cup VisitedNodes' = V \cup {Top.node}
  <2>1. Len(stack') = Len(Below) + 1
    BY <1>3, <1>5, <1>6, PushSeq
  <2>2. Above(Append(Below, g(m)), 0, Len(Below) + 1) = V \cup Credit(g(m))
    BY <1>3, <1>6, OpenPush DEF V
  <2> QED BY <1>2, <1>5, <1>6, <2>1, <2>2
<1>8. FramesBacked(code, root, input, stack')
  BY <1>3, <1>5, <1>6, FramesAppend DEF V
<1>9. ASSUME NEW W \in SUBSET DOMAIN code, V \cup {Top.node} \subseteq W,
             Reads(Keeping(code, W), input, ctl')
      PROVE  Reads(Keeping(code, W), input, Resume(Top))
  <2> DEFINE T == Keeping(code, W)
             L == Derivable(T, input)
  <2>1. Top.node \in DOMAIN code
    BY <1>3 DEF Frame
  <2>2. /\ DOMAIN T = DOMAIN code /\ IsLanguage(T, input, L) /\ T[Top.node] = code[Top.node]
        /\ \A d : Reads(T, input, d) <=> MayMatch(L, T, Len(input), d)
    BY <1>2, <1>9, <2>1, InKeeping
  <2> HIDE DEF T, L
  <2>3. MayMatch(L, T, Len(input), ctl')
    BY <1>9, <2>2 DEF T
  <2>4. MayMatch(L, T, Len(input), Resume(Top))
    BY <1>2, <2>2, <2>3, RetryGainsNothing
  <2> QED BY <2>2, <2>4 DEF T
<1>10. Backed(code, root, input, V \cup {Top.node}, ctl')
  <2>1. V \subseteq V \cup {Top.node} /\ Needs(ctl') \subseteq V \cup {Top.node}
    BY <1>3, <1>4 DEF Backed
  <2> QED BY <1>3, <1>9, <2>1, BackedOn
<1> QED BY <1>7, <1>8, <1>10 DEF StaysBacked
-----------------------------------------------------------------------------
(***************************************************************************)
(* The nodes a matched input credits are enough for it.                    *)
(***************************************************************************)
LEMMA KInvInit == Init => KInv
<1> SUFFICES ASSUME Init PROVE KInv
  OBVIOUS
<1>1. LInv /\ TInv /\ TableOK(code) /\ Len(input) \in Nat /\ root \in DOMAIN code
  BY LInvInit, TInvTable DEF LInv, TInv
<1>2. ctl = Call(root, 0, << >>) /\ stack = << >> /\ visited = << >>
  BY DEF Init
<1>3. Needs(ctl) = {}
  <2>1. Pending(<< >>) = {}
    BY DEF Pending
  <2> QED BY <1>2, <2>1, NeedsForms
<1>4. ASSUME NEW W \in SUBSET DOMAIN code, Reads(Keeping(code, W), input, ctl)
      PROVE  InLanguage(Keeping(code, W), root, input)
  <2> DEFINE T == Keeping(code, W)
             L == Derivable(T, input)
             end == Len(input)
  <2>1. DOMAIN T = DOMAIN code /\ IsLanguage(T, input, L)
    BY <1>1, InKeeping
  <2> HIDE DEF T, L
  <2>2. MayMatch(L, T, end, Call(root, 0, << >>))
    BY <1>2, <1>4 DEF Reads, T, L
  <2> HIDE DEF end
  <2>3. Leads(L, T, end, root, 0, 0, << >>)
    BY <2>2, MayMatchForms
  <2>4. TableOK(T) /\ end \in Nat
    BY <1>1, <2>1 DEF IsLanguage, end
  <2>5. \A j \in 0..end : Completes(L, T, end, j, << >>) <=> j = end
    BY <2>4, CompletesNone
  <2>6. end \in 0..end
    BY <2>4
  <2>7. Has(L, T, root, 0, 0, end)
    BY <2>3, <2>5, <2>6 DEF Leads
  <2>8. After(T[root], 0) = 0
    BY <1>1, <2>1, <2>4, AfterNone
  <2>9. <<root, 0, 0, end>> \in L
    BY <2>7, <2>8 DEF Has
  <2> QED BY <2>9 DEF InLanguage, T, L, end
<1>5. Backed(code, root, input, Above(stack, 0, Len(stack)) \cup VisitedNodes, ctl)
  BY <1>3, <1>4 DEF Backed
<1>6. FramesBacked(code, root, input, stack)
  BY <1>2 DEF FramesBacked
<1> QED BY <1>1, <1>5, <1>6 DEF KInv

LEMMA KInvNext == KInv /\ [Next]_vars => KInv'
<1> SUFFICES ASSUME KInv, [Next]_vars PROVE KInv'
  OBVIOUS
<1>1. LInv'
  BY LInvNext DEF KInv
<1>2. code' = code /\ root' = root /\ input' = input
  BY InputConstant DEF inputVars
<1>3. StaysBacked => KInv'
  BY <1>1, <1>2 DEF StaysBacked, KInv
<1>4. CASE UNCHANGED vars
  BY <1>1, <1>4 DEF vars, KInv, VisitedNodes
<1>5. CASE Next
  <2>1. \/ Refuse \/ Enter \/ (ContDone \/ ContSeq \/ ContRep) \/ RepTry \/ RepFull
        \/ CloseTrue \/ (NextBranch \/ SkipOpt) \/ RepBack \/ CloseFalse
    BY <1>5 DEF Next
  <2>2. StaysBacked
    BY <2>1, KRefuse, KEnter, KCont, KTry, KFull, KTrue, KRetry, KBack, KFalse
  <2> QED BY <1>3, <2>2
<1> QED BY <1>4, <1>5

\* Any grammar that keeps the credited nodes describes the input.
Sufficient == Matched => \A W \in SUBSET DOMAIN code :
                  VisitedNodes \subseteq W => InLanguage(Keeping(code, W), root, input)

LEMMA KInvSufficient == KInv => Sufficient
<1> SUFFICES ASSUME KInv, Matched, NEW W \in SUBSET DOMAIN code, VisitedNodes \subseteq W
             PROVE  InLanguage(Keeping(code, W), root, input)
  BY DEF Sufficient
<1>1. stack = << >> /\ ctl.op = "ok"
  BY DEF Matched, Returned
<1>2. Above(stack, 0, Len(stack)) = {}
  BY <1>1 DEF Above
<1>3. Reads(Keeping(code, W), input, ctl)
  BY <1>1 DEF Reads, MayMatch
<1>4. Backed(code, root, input, Above(stack, 0, Len(stack)) \cup VisitedNodes, ctl)
  BY DEF KInv
<1> QED BY <1>2, <1>3, <1>4 DEF Backed

\* Of a matched input, the nodes it credits are all it needs: a grammar that has lost any
\* of the others (so that nothing matches where one was) still describes the input.
THEOREM CreditsSuffice == Spec => []Sufficient
BY KInvInit, KInvNext, KInvSufficient, PTL DEF Spec

\* What a matched input credits holds the root, with every node the nodes a derivation
\* through it needs, and a whole derivation of the input: no pruning decision taken from the
\* counts can see a parent used without its mandatory children, or cut what an input was
\* matched by.
THEOREM HitsClosed == Spec => []HitsAreDerivation
<1>1. HInv /\ KInv => HitsAreDerivation
  <2> SUFFICES ASSUME HInv, KInv, Matched
               PROVE  /\ root \in VisitedNodes
                      /\ \A n \in VisitedNodes : Covered(code, n, VisitedNodes, << >>)
                      /\ InLanguage(Keeping(code, VisitedNodes), root, input)
    BY DEF HitsAreDerivation
  <2>1. VisitedNodes \in SUBSET DOMAIN code
    BY DEF KInv, LInv, TInv, VisitedNodes
  <2>2. InLanguage(Keeping(code, VisitedNodes), root, input)
    BY <2>1, KInvSufficient DEF Sufficient
  <2> QED BY <2>2, CreditsClosed
<1> QED BY <1>1, HInvInit, HInvNext, KInvInit, KInvNext, PTL DEF Spec
=============================================================================
