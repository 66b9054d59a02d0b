------------------------------ MODULE DerProofs ------------------------------
(***************************************************************************)
(* Theorems about DerWalker, for every schema, value and depth bound.      *)
(***************************************************************************)
EXTENDS DerWalker, FiniteSetTheorems, SequenceTheorems, TLAPS

-----------------------------------------------------------------------------
(***************************************************************************)
(* Sequences.                                                              *)
(***************************************************************************)
LEMMA PrefixSeq ==
    ASSUME NEW S, NEW s \in Seq(S), NEW n \in Nat, n <= Len(s)
    PROVE  /\ SubSeq(s, 1, n) \in Seq(S)
           /\ Len(SubSeq(s, 1, n)) = n
           /\ \A i \in 1..n : SubSeq(s, 1, n)[i] = s[i]
<1>1. \A i \in 1..n : s[i] \in S
  OBVIOUS
<1>2. /\ SubSeq(s, 1, n) \in Seq(S)
      /\ Len(SubSeq(s, 1, n)) = IF 1 <= n THEN n - 1 + 1 ELSE 0
      /\ \A i \in 1..(n - 1 + 1) : SubSeq(s, 1, n)[i] = s[1 + i - 1]
  BY <1>1, SubSeqProperties
<1>3. QED
  BY <1>2

LEMMA FrontSeq ==
    ASSUME NEW S, NEW s \in Seq(S), s # << >>
    PROVE  /\ SubSeq(s, 1, Len(s) - 1) \in Seq(S)
           /\ Len(SubSeq(s, 1, Len(s) - 1)) = Len(s) - 1
           /\ \A i \in 1..(Len(s) - 1) : SubSeq(s, 1, Len(s) - 1)[i] = s[i]
<1> DEFINE n == Len(s) - 1
<1>1. n \in Nat /\ n <= Len(s)
  OBVIOUS
<1> HIDE DEF n
<1>2. /\ SubSeq(s, 1, n) \in Seq(S)
      /\ Len(SubSeq(s, 1, n)) = n
      /\ \A i \in 1..n : SubSeq(s, 1, n)[i] = s[i]
  BY <1>1, PrefixSeq
<1>3. QED
  BY <1>2 DEF n

LEMMA PushSeq ==
    ASSUME NEW S, NEW s \in Seq(S), NEW e \in S
    PROVE  /\ Append(s, e) \in Seq(S)
           /\ Len(Append(s, e)) = Len(s) + 1
           /\ \A i \in 1..Len(s) : Append(s, e)[i] = s[i]
           /\ Append(s, e)[Len(s) + 1] = e
OBVIOUS

LEMMA PushTwo ==
    ASSUME NEW S, NEW s \in Seq(S), NEW d \in S, NEW e \in S
    PROVE  /\ s \o <<d, e>> \in Seq(S)
           /\ Len(s \o <<d, e>>) = Len(s) + 2
           /\ \A i \in 1..Len(s) : (s \o <<d, e>>)[i] = s[i]
           /\ (s \o <<d, e>>)[Len(s) + 1] = d
           /\ (s \o <<d, e>>)[Len(s) + 2] = e
OBVIOUS

LEMMA LastOf ==
    ASSUME NEW S, NEW s \in Seq(S), s # << >>
    PROVE  Len(s) \in Nat \ {0} /\ s[Len(s)] \in S
OBVIOUS
-----------------------------------------------------------------------------
(***************************************************************************)
(* Values and calls.                                                       *)
(***************************************************************************)
CallCtl == [op : {"type", "value"}, node : DOMAIN ast.nodes, tlv : Value]
RetCtl  == [op : {"ok", "fail", "loop"}]

LEMMA AtType ==
    ASSUME NEW buf \in Buffers, NEW p \in Nat
    PROVE  At(buf, p) \in Value
<1>1. buf.items \in Seq(Tlvs)
  BY DEF Buffers
<1>2. p < Len(buf.items) => buf.items[p + 1] \in Tlvs
  BY <1>1
<1>3. QED
  BY <1>2 DEF At, Value

LEMMA ContentType ==
    ASSUME NEW t \in Value, t # NoTlv
    PROVE  t.content \in Buffers /\ t.content.items \in Seq(Tlvs)
BY TlvsNested DEF Value, Buffers

LEMMA AstType ==
    ASSUME ast \in Asts
    PROVE  /\ ast.root \in DOMAIN ast.nodes
           /\ \A n \in DOMAIN ast.nodes : /\ Kind(n) \in Walkable
                                          /\ Kids(n) \in Seq(DOMAIN ast.nodes)
           /\ \A n \in DOMAIN ast.nodes : Targets(n) # {} => Target(n) \in DOMAIN ast.nodes
<1>1. /\ ast.root \in DOMAIN ast.nodes
      /\ \A n \in DOMAIN ast.nodes : /\ Kind(n) \in Walkable
                                     /\ Kids(n) \in Seq(DOMAIN ast.nodes)
  BY AstsWellFormed DEF WellFormed, Kind, Kids
<1>2. \A n \in DOMAIN ast.nodes : Targets(n) \subseteq DOMAIN ast.nodes
  BY <1>1 DEF Targets, RulesNamed
<1>3. ASSUME NEW n \in DOMAIN ast.nodes, Targets(n) # {}
      PROVE  Target(n) \in DOMAIN ast.nodes
  <2>1. Target(n) \in Targets(n)
    BY <1>3 DEF Target
  <2>2. QED
    BY <1>2, <2>1
<1>4. QED
  BY <1>1, <1>3

\* What Fits gives each kind that goes on below the node.
LEMMA FitsGives ==
    ASSUME NEW n, NEW t, Fits(n, t)
    PROVE  /\ Kind(n) \in Wrapping \cup {"reference"} => Targets(n) # {}
           /\ Kind(n) \in {"sequence", "repetition", "tag", "alternation"} => t # NoTlv
           /\ Kind(n) \in {"repetition", "tag"} => Kids(n) # << >>
BY DEF Fits, Kind, Kids, IsBody, Universal, Wrapping
-----------------------------------------------------------------------------
(***************************************************************************)
(* Type correctness and depth.  TInv strengthens TypeOK: the marks of the  *)
(* frames grow along the stack and stay within what has been credited, so  *)
(* that a rollback truncates to a length visited has, and the depth counts *)
(* the open calls of match_type, so that returning never takes it below 0. *)
(***************************************************************************)
\* A loop has a value to go through, and a repetition an element.
FrameFact(a, f) ==
    /\ a.nodes[f.node].kind \in {"sequence", "repetition"} => f.tlv # NoTlv
    /\ a.nodes[f.node].kind = "repetition" => a.nodes[f.node].children # << >>

StackOK ==
    /\ stack \in Seq(Frames)
    /\ \A i \in 1..Len(stack) : FrameFact(ast, stack[i])
MarksOK ==
    /\ \A i \in 1..Len(stack) : stack[i].mark <= Len(visited)
    /\ \A i, j \in 1..Len(stack) : i <= j => stack[i].mark <= stack[j].mark

TInv == /\ ast \in Asts /\ input \in Inputs
        /\ ctl \in CallCtl \cup RetCtl
        /\ StackOK
        /\ visited \in Seq(DOMAIN ast.nodes)
        /\ MarksOK
        /\ depth \in Nat
        /\ DepthIsOpenCalls
        /\ depth_exceeded \in BOOLEAN

LEMMA TInvTypeOK == TInv => TypeOK
BY DEF TInv, TypeOK, StackOK, CallCtl, RetCtl

LEMMA OpenFinite ==
    ASSUME stack \in Seq(Frames)
    PROVE  IsFiniteSet(OpenTypes) /\ Cardinality(OpenTypes) \in Nat
<1>1. Len(stack) \in Nat /\ OpenTypes \subseteq 1..Len(stack)
  BY DEF OpenTypes
<1>2. IsFiniteSet(1..Len(stack))
  BY <1>1, FS_Interval
<1>3. QED
  BY <1>1, <1>2, FS_Subset, FS_CardinalityType

LEMMA MarkType ==
    ASSUME NEW f \in Frames
    PROVE  f.mark \in Nat /\ f.fn \in {"type", "value"}
BY DEF Frames

LEMMA FramesAt ==
    ASSUME stack \in Seq(Frames)
    PROVE  \A i \in 1..Len(stack) : stack[i] \in Frames
OBVIOUS

LEMMA SameSchema ==
    ASSUME UNCHANGED ast
    PROVE  Frames' = Frames /\ CallCtl' = CallCtl
BY DEF Frames, CallCtl

LEMMA TopType ==
    ASSUME TInv, stack # << >>
    PROVE  /\ Len(stack) \in Nat \ {0} /\ Len(stack) \in 1..Len(stack)
           /\ Top \in Frames /\ FrameFact(ast, Top)
           /\ Top.node \in DOMAIN ast.nodes /\ Top.mark \in Nat /\ Top.mark <= Len(visited)
           /\ Top.tlv \in Value /\ Top.k \in Nat \ {0} /\ Top.p \in Nat
<1>1. Len(stack) \in Nat \ {0} /\ Top \in Frames
  BY LastOf DEF TInv, StackOK, Top
<1>2. Len(stack) \in 1..Len(stack)
  BY <1>1
<1>3. FrameFact(ast, Top) /\ Top.mark <= Len(visited)
  BY <1>2 DEF TInv, StackOK, MarksOK, Top
<1>4. QED
  BY <1>1, <1>2, <1>3 DEF Frames

\* The frame of a new call.
LEMMA Push ==
    ASSUME TInv, ast' = ast, visited' = visited,
           NEW f \in Frames, FrameFact(ast, f), f.mark = Len(visited),
           stack' = Append(stack, f)
    PROVE  /\ StackOK' /\ MarksOK'
           /\ f.fn = "type"  => Cardinality(OpenTypes') = Cardinality(OpenTypes) + 1
           /\ f.fn = "value" => OpenTypes' = OpenTypes
<1>1. /\ stack \in Seq(Frames) /\ stack' \in Seq(Frames)
      /\ Len(stack') = Len(stack) + 1 /\ Len(stack) \in Nat
      /\ \A i \in 1..Len(stack) : stack'[i] = stack[i]
      /\ stack'[Len(stack) + 1] = f
  BY PushSeq DEF TInv, StackOK
<1>2. StackOK'
  BY <1>1, SameSchema DEF TInv, StackOK
<1>3. MarksOK'
  <2>1. Len(visited) \in Nat
    BY DEF TInv
  <2>2. \A i \in 1..Len(stack) : stack[i].mark \in Nat
    BY <1>1, FramesAt, MarkType
  <2>3. QED
    BY <1>1, <2>1, <2>2 DEF TInv, MarksOK
<1>4. CASE f.fn = "type"
  <2>1. OpenTypes' = OpenTypes \cup {Len(stack) + 1}
    BY <1>1, <1>4 DEF OpenTypes
  <2>2. Len(stack) + 1 \notin OpenTypes
    BY <1>1 DEF OpenTypes
  <2>3. QED
    BY <1>1, <1>2, <1>3, <1>4, <2>1, <2>2, OpenFinite, FS_AddElement
<1>5. CASE f.fn = "value"
  BY <1>1, <1>2, <1>3, <1>5 DEF OpenTypes
<1>6. QED
  BY <1>4, <1>5 DEF Frames

\* The topmost call returns.
LEMMA Pop ==
    ASSUME TInv, ast' = ast, stack # << >>, stack' = Below, depth' = Outer,
           Len(visited') \in Nat, Top.mark <= Len(visited')
    PROVE  StackOK' /\ MarksOK' /\ depth' \in Nat /\ DepthIsOpenCalls'
<1>1. /\ stack \in Seq(Frames) /\ Len(stack) \in Nat \ {0} /\ Top \in Frames
      /\ stack' \in Seq(Frames) /\ Len(stack') = Len(stack) - 1
      /\ \A i \in 1..(Len(stack) - 1) : stack'[i] = stack[i]
  <2>1. stack \in Seq(Frames) /\ Len(stack) \in Nat \ {0} /\ Top \in Frames
    BY TopType DEF TInv, StackOK
  <2>2. stack' = SubSeq(stack, 1, Len(stack) - 1)
    BY DEF Below
  <2>3. QED
    BY <2>1, <2>2, FrontSeq
<1>2. StackOK'
  BY <1>1, SameSchema DEF TInv, StackOK
<1>3. MarksOK'
  <2>1. \A i \in 1..Len(stack) : stack[i].mark \in Nat
    BY <1>1, FramesAt, MarkType
  <2>2. \A i \in 1..Len(stack) : stack[i].mark <= Top.mark
    BY <1>1 DEF TInv, MarksOK, Top
  <2>3. 1..Len(stack') \subseteq 1..Len(stack) /\ Top.mark \in Nat
    BY <1>1, MarkType
  <2>4. \A i \in 1..Len(stack') : stack'[i] = stack[i]
    BY <1>1
  <2>5. \A i \in 1..Len(stack') : stack'[i].mark <= Len(visited')
    BY <2>1, <2>2, <2>3, <2>4
  <2>6. \A i, j \in 1..Len(stack') : i <= j => stack'[i].mark <= stack'[j].mark
    BY <2>3, <2>4 DEF TInv, MarksOK
  <2>7. QED
    BY <2>5, <2>6 DEF MarksOK
<1>4. CASE Top.fn = "type"
  <2>1. OpenTypes' = OpenTypes \ {Len(stack)}
    BY <1>1 DEF OpenTypes
  <2>2. Len(stack) \in OpenTypes
    BY <1>1, <1>4 DEF OpenTypes, Top
  <2>3. /\ Cardinality(OpenTypes) \in Nat \ {0}
        /\ Cardinality(OpenTypes') = Cardinality(OpenTypes) - 1
    BY <1>1, <2>1, <2>2, OpenFinite, FS_RemoveElement, FS_EmptySet
  <2>4. QED
    BY <1>2, <1>3, <1>4, <2>3, DepthAssumption DEF TInv, DepthIsOpenCalls, Outer
<1>5. CASE Top.fn # "type"
  <2>1. OpenTypes' = OpenTypes
    BY <1>1, <1>5 DEF OpenTypes, Top
  <2>2. QED
    BY <1>2, <1>3, <1>5, <2>1 DEF TInv, DepthIsOpenCalls, Outer
<1>6. QED
  BY <1>4, <1>5

\* A loop goes on in the topmost frame.
LEMMA Move ==
    ASSUME TInv, stack # << >>, NEW dk \in Nat, NEW dp \in Nat, Advance(dk, dp),
           Len(visited') \in Nat, Top.mark <= Len(visited')
    PROVE  StackOK' /\ MarksOK' /\ depth' \in Nat /\ DepthIsOpenCalls'
<1> DEFINE f == [Top EXCEPT !.k = Top.k + dk, !.p = Top.p + dp]
<1>1. /\ stack \in Seq(Frames) /\ Len(stack) \in Nat \ {0} /\ Top \in Frames
      /\ Top.k \in Nat \ {0} /\ Top.p \in Nat
  BY TopType DEF TInv, StackOK
<1>2. /\ f \in Frames /\ f.fn = Top.fn /\ f.node = Top.node /\ f.tlv = Top.tlv
      /\ f.mark = Top.mark
  <2>1. Top.k + dk \in Nat \ {0} /\ Top.p + dp \in Nat
    BY <1>1
  <2>2. QED
    BY <1>1, <2>1 DEF Frames
<1>3. UNCHANGED <<ast, depth>>
  BY DEF Advance, fixed
<1>4. stack' = [stack EXCEPT ![Len(stack)] = f]
  BY <1>1 DEF Advance, Top
<1>5. /\ stack' \in Seq(Frames) /\ Len(stack') = Len(stack)
      /\ \A i \in 1..Len(stack) : stack'[i] = IF i = Len(stack) THEN f ELSE stack[i]
  <2> HIDE DEF f
  <2>1. QED
    BY <1>1, <1>2, <1>4
<1>6. \A i \in 1..Len(stack) : /\ stack'[i].fn = stack[i].fn
                                /\ stack'[i].mark = stack[i].mark
                                /\ stack'[i].node = stack[i].node
                                /\ stack'[i].tlv = stack[i].tlv
  <2> HIDE DEF f
  <2>1. QED
    BY <1>2, <1>5 DEF Top
<1>7. StackOK'
  BY <1>3, <1>5, <1>6, SameSchema DEF TInv, StackOK, FrameFact
<1>8. MarksOK'
  <2>1. \A i \in 1..Len(stack) : stack[i].mark <= Top.mark /\ stack[i].mark \in Nat
    <3>1. \A i \in 1..Len(stack) : stack[i].mark <= Top.mark
      BY <1>1 DEF TInv, MarksOK, Top
    <3>2. QED
      BY <1>1, <3>1, FramesAt, MarkType
  <2>2. \A i \in 1..Len(stack) : stack[i].mark <= Len(visited')
    BY <1>1, <2>1, MarkType
  <2>3. QED
    BY <1>5, <1>6, <2>2 DEF TInv, MarksOK
<1>9. OpenTypes' = OpenTypes
  BY <1>5, <1>6 DEF OpenTypes
<1>10. QED
  BY <1>3, <1>7, <1>8, <1>9 DEF TInv, DepthIsOpenCalls

\* Truncating to the mark of the topmost frame.
LEMMA Rollback ==
    ASSUME TInv, stack # << >>
    PROVE  /\ Truncated \in Seq(DOMAIN ast.nodes) /\ Len(Truncated) = Top.mark
           /\ \A i \in 1..Top.mark : Truncated[i] = visited[i]
<1>1. visited \in Seq(DOMAIN ast.nodes) /\ Top.mark \in Nat /\ Top.mark <= Len(visited)
  BY TopType DEF TInv
<1>2. QED
  BY <1>1, PrefixSeq DEF Truncated
-----------------------------------------------------------------------------
LEMMA TInvInit == Init => TInv
<1> SUFFICES ASSUME Init PROVE TInv
  OBVIOUS
<1>1. /\ ast \in Asts /\ input \in Inputs /\ stack = << >> /\ visited = << >>
      /\ depth = 0 /\ depth_exceeded = FALSE /\ ctl = Call("type", ast.root, At(input, 0))
  BY DEF Init
<1>2. At(input, 0) \in Value
  BY <1>1, AtType, InputsAreBuffers
<1>3. ctl \in CallCtl
  BY <1>1, <1>2, AstType DEF Call, CallCtl
<1>4. StackOK /\ MarksOK /\ OpenTypes = {}
  BY <1>1 DEF StackOK, MarksOK, OpenTypes
<1>5. DepthIsOpenCalls
  BY <1>1, <1>4, FS_EmptySet, DepthAssumption DEF DepthIsOpenCalls
<1>6. << >> \in Seq(DOMAIN ast.nodes)
  OBVIOUS
<1>7. QED
  BY <1>1, <1>3, <1>4, <1>5, <1>6 DEF TInv

\* A step that leaves the frames alone and credits nothing, or something.
LEMMA Quiet ==
    ASSUME TInv, UNCHANGED <<fixed, stack, depth>>, ctl' \in CallCtl \cup RetCtl,
           visited' \in Seq(DOMAIN ast.nodes), Len(visited) <= Len(visited'),
           depth_exceeded' \in BOOLEAN
    PROVE  TInv'
<1>1. ast' = ast /\ input' = input /\ stack' = stack /\ depth' = depth
  BY DEF fixed
<1>2. StackOK' /\ OpenTypes' = OpenTypes
  BY <1>1, SameSchema DEF TInv, StackOK, OpenTypes
<1>3. MarksOK'
  <2>1. \A i \in 1..Len(stack) : stack[i].mark \in Nat
    BY FramesAt, MarkType DEF TInv, StackOK
  <2>2. Len(visited) \in Nat /\ Len(visited') \in Nat
    BY DEF TInv
  <2>3. QED
    BY <1>1, <2>1, <2>2 DEF TInv, MarksOK
<1>4. DepthIsOpenCalls'
  BY <1>1, <1>2 DEF TInv, DepthIsOpenCalls
<1>5. ctl' \in CallCtl' \cup RetCtl'
  BY <1>1, SameSchema DEF RetCtl
<1>6. QED
  BY <1>1, <1>2, <1>3, <1>4, <1>5 DEF TInv

\* A step that opens a frame.
LEMMA Opens ==
    ASSUME TInv, ctl \in CallCtl, ctl.op = "value" \/ depth < MaxDepth,
           Fits(ctl.node, ctl.tlv), Open,
           UNCHANGED <<fixed, visited, depth_exceeded>>, ctl' \in CallCtl \cup RetCtl
    PROVE  TInv'
<1> DEFINE f == [fn |-> ctl.op, node |-> ctl.node, tlv |-> ctl.tlv,
                 mark |-> Len(visited), k |-> 1, p |-> 0]
<1>1. /\ ctl.op \in {"type", "value"} /\ ctl.node \in DOMAIN ast.nodes /\ ctl.tlv \in Value
      /\ Len(visited) \in Nat
  BY DEF CallCtl, TInv
<1>2. f \in Frames /\ f.mark = Len(visited) /\ f.fn = ctl.op
  BY <1>1 DEF Frames
<1>3. FrameFact(ast, f)
  BY FitsGives DEF FrameFact, Kind, Kids
<1>4. /\ stack' = Append(stack, f) /\ ast' = ast /\ input' = input /\ visited' = visited
      /\ depth' = IF ctl.op = "type" THEN depth + 1 ELSE depth
      /\ depth_exceeded' = depth_exceeded
  BY DEF Open, fixed
<1> HIDE DEF f
<1>5. /\ StackOK' /\ MarksOK'
      /\ f.fn = "type"  => Cardinality(OpenTypes') = Cardinality(OpenTypes) + 1
      /\ f.fn = "value" => OpenTypes' = OpenTypes
  BY <1>2, <1>3, <1>4, Push
<1>6. DepthIsOpenCalls' /\ depth' \in Nat
  BY <1>1, <1>2, <1>4, <1>5, DepthAssumption DEF TInv, DepthIsOpenCalls
<1>7. ctl' \in CallCtl' \cup RetCtl'
  BY <1>4, SameSchema DEF RetCtl
<1>8. QED
  BY <1>4, <1>5, <1>6, <1>7 DEF TInv

\* A step that closes the topmost frame and credits its node.
LEMMA Closes ==
    ASSUME TInv, stack # << >>, Credit
    PROVE  TInv'
<1>1. /\ visited' = Append(visited, Top.node) /\ stack' = Below /\ depth' = Outer
      /\ ctl' = ReturnTrue /\ ast' = ast /\ input' = input
      /\ depth_exceeded' = depth_exceeded
  BY DEF Credit, fixed
<1>2. /\ visited' \in Seq(DOMAIN ast.nodes) /\ Len(visited') = Len(visited) + 1
      /\ Len(visited) \in Nat
  <2>1. visited \in Seq(DOMAIN ast.nodes) /\ Top.node \in DOMAIN ast.nodes
    BY TopType DEF TInv
  <2>2. Len(visited) \in Nat
    BY <2>1
  <2>3. QED
    BY <1>1, <2>1, <2>2, PushSeq
<1>3. Len(visited') \in Nat /\ Top.mark <= Len(visited')
  BY <1>2, TopType
<1>4. StackOK' /\ MarksOK' /\ depth' \in Nat /\ DepthIsOpenCalls'
  BY <1>1, <1>3, Pop
<1>5. ctl' \in RetCtl'
  BY <1>1 DEF ReturnTrue, RetCtl
<1>6. QED
  BY <1>1, <1>2, <1>4, <1>5 DEF TInv

\* What is called in the end of each kind of step.
LEMMA CtlCall ==
    ASSUME NEW op \in {"type", "value"}, NEW n \in DOMAIN ast.nodes, NEW t \in Value
    PROVE  Call(op, n, t) \in CallCtl
BY DEF Call, CallCtl

LEMMA Entered ==
    ASSUME TInv, NEW kinds, Entering(kinds)
    PROVE  /\ ctl \in CallCtl /\ ctl.op \in {"type", "value"}
           /\ ctl.op = "value" \/ depth < MaxDepth
           /\ ctl.node \in DOMAIN ast.nodes /\ ctl.tlv \in Value
           /\ Kind(ctl.node) \in kinds
BY DEF TInv, Entering, CallCtl, RetCtl

LEMMA TInvNext == TInv /\ [Next]_vars => TInv'
<1> SUFFICES ASSUME TInv, [Next]_vars PROVE TInv'
  OBVIOUS
<1>1. /\ ast \in Asts /\ visited \in Seq(DOMAIN ast.nodes) /\ Len(visited) \in Nat
      /\ depth_exceeded \in BOOLEAN /\ ctl \in CallCtl \cup RetCtl
  BY DEF TInv
<1>2. CASE UNCHANGED vars
  BY <1>1, <1>2, Quiet DEF vars, fixed
<1>3. CASE Refuse
  BY <1>1, <1>3, Quiet DEF Refuse, ReturnFalse, RetCtl
<1>4. CASE Reject
  BY <1>1, <1>4, Quiet DEF Reject, ReturnFalse, RetCtl
<1>5. CASE EnterWrapper
  <2>1. Entering(Wrapping \cup {"reference"}) /\ Fits(ctl.node, ctl.tlv)
    BY <1>5 DEF EnterWrapper
  <2>2. Target(ctl.node) \in DOMAIN ast.nodes
    BY <1>1, <2>1, Entered, FitsGives, AstType
  <2>3. ctl' \in CallCtl
    BY <1>5, <2>1, <2>2, Entered, CtlCall DEF EnterWrapper
  <2>4. QED
    BY <1>5, <2>1, <2>3, Entered, Opens DEF EnterWrapper
<1>6. CASE EnterLoop
  <2>1. ctl' \in RetCtl
    BY <1>6 DEF EnterLoop, Loop, RetCtl
  <2>2. QED
    BY <1>6, <2>1, Entered, Opens DEF EnterLoop
<1>7. CASE EnterExplicit
  <2>1. Entering({"tag"}) /\ Fits(ctl.node, ctl.tlv)
    BY <1>7 DEF EnterExplicit
  <2>2. ctl.tlv \in Value /\ ctl.tlv # NoTlv /\ Kids(ctl.node) # << >>
        /\ Kids(ctl.node) \in Seq(DOMAIN ast.nodes)
    BY <1>1, <2>1, Entered, FitsGives, AstType
  <2>3. Kids(ctl.node)[1] \in DOMAIN ast.nodes /\ At(ctl.tlv.content, 0) \in Value
    BY <2>2, ContentType, AtType
  <2>4. ctl' \in CallCtl
    BY <1>7, <2>3, CtlCall DEF EnterExplicit
  <2>5. QED
    BY <1>7, <2>1, <2>4, Entered, Opens DEF EnterExplicit
<1>8. CASE EnterImplicit
  <2>1. Entering({"tag"}) /\ Fits(ctl.node, ctl.tlv)
    BY <1>8 DEF EnterImplicit
  <2>2. ctl.node \in DOMAIN ast.nodes /\ Kids(ctl.node) # << >>
        /\ Kids(ctl.node) \in Seq(DOMAIN ast.nodes)
    BY <1>1, <2>1, Entered, FitsGives, AstType
  <2>3. Kids(ctl.node)[1] \in DOMAIN ast.nodes
    BY <2>2
  <2> DEFINE N    == DOMAIN ast.nodes
             in   == Kids(ctl.node)[1]
             out  == ctl.node
             both == visited \o <<in, out>>
  <2>4. visited' = both
    BY <1>8 DEF EnterImplicit
  <2>4a. visited \in Seq(N) /\ in \in N /\ out \in N
    BY <1>1, <2>2, <2>3
  <2> HIDE DEF N, in, out
  <2>4b. both \in Seq(N) /\ Len(both) = Len(visited) + 2
    BY <2>4a, PushTwo
  <2> HIDE DEF both
  <2>4c. visited' \in Seq(N) /\ Len(visited') = Len(visited) + 2
    BY <2>4, <2>4b
  <2>5. visited' \in Seq(DOMAIN ast.nodes) /\ Len(visited') = Len(visited) + 2
    BY <2>4c DEF N
  <2>6. QED
    BY <1>1, <1>8, <2>5, Quiet DEF EnterImplicit, ReturnTrue, RetCtl
<1>9. CASE EnterLeaf
  <2>1. ctl.node \in DOMAIN ast.nodes /\ visited' = Append(visited, ctl.node)
    BY <1>9, Entered DEF EnterLeaf
  <2>2. visited' \in Seq(DOMAIN ast.nodes) /\ Len(visited') = Len(visited) + 1
    BY <1>1, <2>1, PushSeq
  <2>3. QED
    BY <1>1, <1>9, <2>2, Quiet DEF EnterLeaf, ReturnTrue, RetCtl
<1>10. CASE NextComponent \/ NextElement \/ NextAlternative
  <2>1. stack # << >> /\ MoreToDo
    BY <1>10 DEF NextComponent, NextElement, NextAlternative, InLoop
  <2>2. /\ Top \in Frames /\ FrameFact(ast, Top) /\ Top.node \in DOMAIN ast.nodes
        /\ Top.tlv \in Value /\ Top.k \in Nat \ {0} /\ Top.p \in Nat
    BY <2>1, TopType
  <2>3. Kids(Top.node) \in Seq(DOMAIN ast.nodes)
    BY <1>1, <2>2, AstType
  <2>4. Kind(Top.node) \in {"sequence", "repetition"} => At(Top.tlv.content, Top.p) \in Value
    BY <2>2, ContentType, AtType DEF FrameFact, Kind
  <2>5. ctl' \in CallCtl
    <3>1. CASE NextComponent
      <4>0. Kind(Top.node) = "sequence" /\ MoreToDo
        BY <3>1 DEF NextComponent, InLoop
      <4>0a. Top.k <= Len(Kids(Top.node))
        BY <4>0 DEF MoreToDo
      <4>1. Kids(Top.node)[Top.k] \in DOMAIN ast.nodes /\ Kind(Top.node) = "sequence"
        BY <2>2, <2>3, <4>0, <4>0a
      <4>2. QED
        BY <2>4, <3>1, <4>1, CtlCall DEF NextComponent
    <3>2. CASE NextElement
      <4>1. Kids(Top.node)[1] \in DOMAIN ast.nodes /\ Kind(Top.node) = "repetition"
        BY <2>2, <2>3, <3>2 DEF NextElement, InLoop, FrameFact, Kind, Kids
      <4>2. QED
        BY <2>4, <3>2, <4>1, CtlCall DEF NextElement
    <3>3. CASE NextAlternative
      <4>1. Kids(Top.node)[Top.k] \in DOMAIN ast.nodes
        BY <2>2, <2>3, <3>3 DEF NextAlternative, InLoop, MoreToDo
      <4>2. QED
        BY <2>2, <3>3, <4>1, CtlCall DEF NextAlternative
    <3>4. QED
      BY <1>10, <3>1, <3>2, <3>3
  <2>6. QED
    BY <1>1, <1>10, <2>5, Quiet DEF NextComponent, NextElement, NextAlternative
<1>11. CASE LoopDone
  BY <1>11, Closes DEF LoopDone, InLoop
<1>12. CASE Succeed \/ Unreadable
  BY <1>12, Closes DEF Succeed, Unreadable, Returning
<1>13. CASE ItemMatched \/ Absent \/ PassOver
  <2>1. stack # << >> /\ visited' = visited
    BY <1>13 DEF ItemMatched, Absent, PassOver, Returning
  <2>2. PICK dk \in Nat, dp \in Nat : Advance(dk, dp)
    BY <1>13 DEF ItemMatched, Absent, PassOver
  <2>3. StackOK' /\ MarksOK' /\ depth' \in Nat /\ DepthIsOpenCalls'
    BY <1>1, <2>1, <2>2, TopType, Move
  <2>4. QED
    BY <1>1, <2>1, <2>2, <2>3 DEF TInv, Advance, fixed, Loop, RetCtl
<1>14. CASE NotThisOne
  <2>1. stack # << >> /\ visited' = Truncated /\ Advance(1, 0)
    BY <1>14 DEF NotThisOne, Returning
  <2>2. visited' \in Seq(DOMAIN ast.nodes) /\ Len(visited') = Top.mark /\ Top.mark \in Nat
    BY <2>1, TopType, Rollback
  <2>3. StackOK' /\ MarksOK' /\ depth' \in Nat /\ DepthIsOpenCalls'
    BY <2>1, <2>2, Move
  <2>4. QED
    BY <1>1, <2>1, <2>2, <2>3 DEF TInv, Advance, fixed, Loop, RetCtl
<1>15. CASE Fail
  <2>1. /\ stack # << >> /\ visited' = Truncated /\ stack' = Below /\ depth' = Outer
        /\ ctl' = ctl /\ ctl.op = "fail" /\ ast' = ast /\ input' = input
        /\ depth_exceeded' = depth_exceeded
    BY <1>15 DEF Fail, Returning, fixed
  <2>2. visited' \in Seq(DOMAIN ast.nodes) /\ Len(visited') = Top.mark /\ Top.mark \in Nat
    BY <2>1, TopType, Rollback
  <2>3. StackOK' /\ MarksOK' /\ depth' \in Nat /\ DepthIsOpenCalls'
    BY <2>1, <2>2, Pop
  <2>4. ctl' \in CallCtl' \cup RetCtl'
    BY <1>1, <2>1, SameSchema DEF RetCtl
  <2>5. QED
    BY <2>1, <2>2, <2>3, <2>4 DEF TInv
<1>16. QED
  BY <1>2, <1>3, <1>4, <1>5, <1>6, <1>7, <1>8, <1>9, <1>10, <1>11, <1>12, <1>13,
     <1>14, <1>15 DEF Next

\* A wrong type, or a rollback past what has been credited, cannot come about.
THEOREM TypeCorrect == Spec => []TypeOK
<1>1. Spec => []TInv
  BY TInvInit, TInvNext, PTL DEF Spec
<1>2. QED
  BY <1>1, TInvTypeOK, PTL

\* Whatever is decoded and wherever a call gives up, the depth counter is the number of
\* open calls of match_type, and never more than the bound.
THEOREM DepthBounded == Spec => []DepthIsOpenCalls
<1>1. Spec => []TInv
  BY TInvInit, TInvNext, PTL DEF Spec
<1>2. TInv => DepthIsOpenCalls
  BY DEF TInv
<1>3. QED
  BY <1>1, <1>2, PTL
-----------------------------------------------------------------------------
(***************************************************************************)
(* What is credited is closed.  CreditsClosed alone is not inductive: a    *)
(* rollback might take away what an earlier node needs, and a node is      *)
(* credited long after the call that decoded what it stands for.  CInv     *)
(* says that needs are met by EARLIER credits, which truncation keeps, and *)
(* that every open call is a call for what the call below it needs.        *)
(***************************************************************************)
\* What every node needs, as a function, and a sequence that meets needs in order.
NeedsMap == [n \in DOMAIN ast.nodes |-> Needs(n)]

Occurs(m, seq) == \E j \in 1..Len(seq) : seq[j] = m
Ordered(seq, needs) ==
    \A i \in 1..Len(seq) : \A m \in needs[seq[i]] :
        \E j \in 1..Len(seq) : j < i /\ seq[j] = m

PostOrder == Ordered(visited, NeedsMap)
Chained ==
    \A i \in 1..(Len(stack) - 1) : NeedsMap[stack[i].node] \subseteq {stack[i + 1].node}
Called  == ctl.op \in {"type", "value"} /\ stack # << >> =>
               NeedsMap[Top.node] \subseteq {ctl.node}
Met     == ctl.op = "ok" /\ stack # << >> =>
               \A m \in NeedsMap[Top.node] : Occurs(m, visited)

CInv == PostOrder /\ Chained /\ Called /\ Met

LEMMA SameNeeds ==
    ASSUME UNCHANGED ast
    PROVE  NeedsMap' = NeedsMap /\ ImplicitOnPlain' = ImplicitOnPlain
BY DEF NeedsMap, Needs, Target, Targets, RulesNamed, Kind, Kids, ImplicitOnPlain

LEMMA NeedsNothing ==
    ASSUME NEW n \in DOMAIN ast.nodes, Kind(n) \in Plain
    PROVE  NeedsMap[n] = {}
BY DEF NeedsMap, Needs, Plain, Wrapping

\* One more credit.
LEMMA CreditOne ==
    ASSUME NEW S, NEW seq \in Seq(S), NEW n \in S, NEW needs, Ordered(seq, needs),
           \A m \in needs[n] : Occurs(m, seq)
    PROVE  Ordered(Append(seq, n), needs) /\ Occurs(n, Append(seq, n))
<1> DEFINE more == Append(seq, n)
<1>1. /\ Len(seq) \in Nat /\ Len(more) = Len(seq) + 1
      /\ \A i \in 1..Len(seq) : more[i] = seq[i]
      /\ more[Len(seq) + 1] = n
  BY PushSeq
<1> HIDE DEF more
<1>2. SUFFICES Ordered(more, needs) /\ Occurs(n, more)
  BY DEF more
<1>3. Len(seq) + 1 \in 1..Len(more)
  BY <1>1
<1>4. ASSUME NEW i \in 1..Len(more), NEW m \in needs[more[i]]
      PROVE  \E j \in 1..Len(more) : j < i /\ more[j] = m
  <2>1. CASE i = Len(seq) + 1
    <3>0. more[i] = n
      BY <1>1, <2>1
    <3>1. PICK j \in 1..Len(seq) : seq[j] = m
      BY <1>4, <3>0 DEF Occurs
    <3>2. j \in 1..Len(more) /\ j < i /\ more[j] = seq[j]
      BY <1>1, <2>1, <3>1
    <3>3. QED
      BY <3>1, <3>2
  <2>2. CASE i \in 1..Len(seq)
    <3>0. more[i] = seq[i]
      BY <1>1, <2>2
    <3>1. PICK j \in 1..Len(seq) : j < i /\ seq[j] = m
      BY <1>4, <2>2, <3>0 DEF Ordered
    <3>2. j \in 1..Len(more) /\ more[j] = seq[j]
      BY <1>1, <3>1
    <3>3. QED
      BY <3>1, <3>2
  <2>3. QED
    BY <1>1, <2>1, <2>2
<1>5. QED
  BY <1>1, <1>3, <1>4 DEF Ordered, Occurs

\* A prefix of what is credited.
LEMMA CreditLess ==
    ASSUME NEW S, NEW seq \in Seq(S), NEW k \in Nat, k <= Len(seq), NEW needs,
           Ordered(seq, needs)
    PROVE  Ordered(SubSeq(seq, 1, k), needs)
<1> DEFINE less == SubSeq(seq, 1, k)
<1>1. Len(seq) \in Nat /\ Len(less) = k /\ \A i \in 1..k : less[i] = seq[i]
  BY PrefixSeq
<1> HIDE DEF less
<1>2. SUFFICES Ordered(less, needs)
  BY DEF less
<1>3. ASSUME NEW i \in 1..Len(less), NEW m \in needs[less[i]]
      PROVE  \E j \in 1..Len(less) : j < i /\ less[j] = m
  <2>1. i \in 1..Len(seq) /\ i \in 1..k /\ less[i] = seq[i]
    BY <1>1, <1>3
  <2>2. m \in needs[seq[i]]
    BY <1>3, <2>1
  <2>3. PICK j \in 1..Len(seq) : j < i /\ seq[j] = m
    BY <2>1, <2>2 DEF Ordered
  <2>4. j \in 1..k
    BY <1>1, <2>1, <2>3
  <2>5. QED
    BY <1>1, <2>3, <2>4
<1>4. QED
  BY <1>3 DEF Ordered

\* The frame above: a call is opened for what the calling frame needs.
LEMMA ChainUp ==
    ASSUME NEW S, NEW frames \in Seq(S), NEW f \in S, NEW needs,
           \A i \in 1..(Len(frames) - 1) :
               needs[frames[i].node] \subseteq {frames[i + 1].node},
           frames # << >> => needs[frames[Len(frames)].node] \subseteq {f.node}
    PROVE  \A i \in 1..(Len(Append(frames, f)) - 1) :
               needs[Append(frames, f)[i].node] \subseteq {Append(frames, f)[i + 1].node}
<1> DEFINE more == Append(frames, f)
<1>1. /\ Len(frames) \in Nat /\ Len(more) = Len(frames) + 1
      /\ \A i \in 1..Len(frames) : more[i] = frames[i]
      /\ more[Len(frames) + 1] = f /\ (Len(frames) > 0 => frames # << >>)
  BY PushSeq
<1> HIDE DEF more
<1>2. ASSUME NEW i \in 1..(Len(more) - 1)
      PROVE  needs[more[i].node] \subseteq {more[i + 1].node}
  <2>1. CASE i = Len(frames)
    <3>1. i \in 1..Len(frames) /\ Len(frames) > 0
      BY <1>1, <1>2, <2>1
    <3>2. more[i] = frames[Len(frames)] /\ more[i + 1] = f /\ frames # << >>
      BY <1>1, <2>1, <3>1
    <3>3. QED
      BY <3>2
  <2>2. CASE i # Len(frames)
    <3>1. i \in 1..(Len(frames) - 1) /\ i + 1 \in 1..Len(frames)
      BY <1>1, <1>2, <2>2
    <3>2. more[i] = frames[i] /\ more[i + 1] = frames[i + 1]
      BY <1>1, <3>1
    <3>3. QED
      BY <3>1, <3>2
  <2>3. QED
    BY <2>1, <2>2
<1>3. QED
  BY <1>2 DEF more

LEMMA CInvInit == Init => CInv
<1> SUFFICES ASSUME Init PROVE CInv
  OBVIOUS
<1>1. stack = << >> /\ visited = << >>
  BY DEF Init
<1>2. Ordered(<< >>, NeedsMap)
  BY DEF Ordered
<1>3. QED
  BY <1>1, <1>2 DEF CInv, PostOrder, Chained, Called, Met

\* A call that leaves the frames alone: it fails, or returns having credited its node.
LEMMA CQuiet ==
    ASSUME CInv, UNCHANGED <<ast, stack>>, Ordered(visited', NeedsMap), ctl.op \in {"type", "value"},
           \/ ctl' = ReturnFalse
           \/ ctl' = ReturnTrue /\ Occurs(ctl.node, visited')
    PROVE  CInv'
<1>1. NeedsMap' = NeedsMap /\ stack' = stack /\ Top' = Top
  BY SameNeeds DEF Top
<1>2. PostOrder' /\ Chained'
  BY <1>1 DEF PostOrder, Chained, CInv
<1>3. CASE ctl' = ReturnFalse
  BY <1>2, <1>3 DEF CInv, Called, Met, ReturnFalse
<1>4. CASE ctl' = ReturnTrue /\ Occurs(ctl.node, visited')
  <2>1. ctl'.op = "ok"
    BY <1>4 DEF ReturnTrue
  <2>2. stack # << >> => \A m \in NeedsMap[Top.node] : Occurs(m, visited')
    BY <1>4 DEF CInv, Called
  <2>3. Met'
    BY <1>1, <2>2 DEF Met
  <2>4. Called'
    BY <2>1 DEF Called
  <2>5. QED
    BY <1>2, <2>3, <2>4 DEF CInv
<1>5. QED
  BY <1>3, <1>4

\* A call that opens a frame, and goes on with what its node needs.
LEMMA COpens ==
    ASSUME TInv, CInv, ctl \in CallCtl, Open, UNCHANGED <<fixed, visited>>,
           \/ ctl' = Loop
           \/ ctl'.op \in {"type", "value"} /\ NeedsMap[ctl.node] \subseteq {ctl'.node}
    PROVE  CInv'
<1> DEFINE f == [fn |-> ctl.op, node |-> ctl.node, tlv |-> ctl.tlv,
                 mark |-> Len(visited), k |-> 1, p |-> 0]
           needs == NeedsMap
<1>1. /\ f \in Frames /\ f.node = ctl.node /\ stack \in Seq(Frames)
      /\ ctl.op \in {"type", "value"}
  <2>1. Len(visited) \in Nat /\ stack \in Seq(Frames)
    BY DEF TInv, StackOK
  <2>2. QED
    BY <2>1 DEF CallCtl, Frames
<1>2. stack' = Append(stack, f) /\ visited' = visited /\ needs' = needs
  BY SameNeeds DEF Open, fixed
<1>3. /\ \A i \in 1..(Len(stack) - 1) : needs[stack[i].node] \subseteq {stack[i + 1].node}
      /\ stack # << >> => needs[stack[Len(stack)].node] \subseteq {f.node}
      /\ Ordered(visited, needs)
  BY <1>1 DEF CInv, Chained, Called, PostOrder, Top
<1> HIDE DEF f, needs
<1>4. /\ stack' # << >> /\ Len(stack') = Len(stack) + 1 /\ stack'[Len(stack')] = f
      /\ Len(stack) \in Nat
  BY <1>1, <1>2, PushSeq
<1>5. \A i \in 1..(Len(Append(stack, f)) - 1) :
         needs[Append(stack, f)[i].node] \subseteq {Append(stack, f)[i + 1].node}
  BY <1>1, <1>3, ChainUp
<1>6. Chained' /\ PostOrder'
  BY <1>2, <1>3, <1>5 DEF Chained, PostOrder, needs
<1>7. Top' = f
  BY <1>4 DEF Top
<1>8. Called'
  BY <1>1, <1>2, <1>7 DEF Called, Loop, needs
<1>9. Met'
  BY DEF Met, Loop
<1>10. QED
  BY <1>6, <1>8, <1>9 DEF CInv

\* The topmost call returns.
LEMMA CBelow ==
    ASSUME TInv, CInv, stack # << >>, stack' = Below, UNCHANGED ast
    PROVE  /\ Chained'
           /\ stack' # << >> => NeedsMap[Top'.node] \subseteq {Top.node}
<1>1. /\ Len(stack) \in Nat \ {0} /\ Len(stack') = Len(stack) - 1
      /\ \A i \in 1..(Len(stack) - 1) : stack'[i] = stack[i]
      /\ stack' \in Seq(Frames)
  BY TopType, FrontSeq DEF TInv, StackOK, Below
<1>2. NeedsMap' = NeedsMap
  BY SameNeeds
<1>3. \A i \in 1..(Len(stack') - 1) : /\ stack'[i] = stack[i] /\ stack'[i + 1] = stack[i + 1]
                                       /\ i \in 1..(Len(stack) - 1)
  BY <1>1
<1>4. Chained'
  BY <1>2, <1>3 DEF CInv, Chained
<1>5. ASSUME stack' # << >>
      PROVE  NeedsMap[Top'.node] \subseteq {Top.node}
  <2>1. Len(stack) - 1 \in 1..(Len(stack) - 1) /\ Len(stack') = Len(stack) - 1
    BY <1>1, <1>5
  <2>2. Top' = stack[Len(stack) - 1]
    BY <1>1, <2>1 DEF Top
  <2>3. NeedsMap[stack[Len(stack) - 1].node] \subseteq {stack[Len(stack) - 1 + 1].node}
    BY <2>1 DEF CInv, Chained
  <2>4. Len(stack) - 1 + 1 = Len(stack)
    BY <1>1
  <2>5. QED
    BY <2>2, <2>3, <2>4 DEF Top
<1>6. QED
  BY <1>4, <1>5

LEMMA CCloses ==
    ASSUME TInv, CInv, stack # << >>, Credit,
           \A m \in NeedsMap[Top.node] : Occurs(m, visited)
    PROVE  CInv'
<1>1. /\ visited' = Append(visited, Top.node) /\ stack' = Below /\ ctl'.op = "ok"
      /\ ast' = ast /\ NeedsMap' = NeedsMap
  BY SameNeeds DEF Credit, fixed, ReturnTrue
<1> DEFINE needs == NeedsMap
           node  == Top.node
           N     == DOMAIN ast.nodes
<1>2. /\ visited \in Seq(N) /\ node \in N /\ Ordered(visited, needs)
      /\ \A m \in needs[node] : Occurs(m, visited)
  BY TopType DEF TInv, CInv, PostOrder
<1> HIDE DEF needs, node, N
<1>3. Ordered(Append(visited, node), needs) /\ Occurs(node, Append(visited, node))
  BY <1>2, CreditOne
<1>4. Ordered(visited', NeedsMap') /\ Occurs(Top.node, visited')
  BY <1>1, <1>3 DEF needs, node
<1>5. /\ Chained'
      /\ stack' # << >> => NeedsMap[Top'.node] \subseteq {Top.node}
  BY <1>1, CBelow
<1>6. Met'
  BY <1>1, <1>4, <1>5 DEF Met
<1>7. QED
  BY <1>1, <1>4, <1>5, <1>6 DEF CInv, PostOrder, Called

\* The topmost call goes on.
LEMMA CMoves ==
    ASSUME TInv, CInv, stack # << >>, NEW dk \in Nat, NEW dp \in Nat, Advance(dk, dp),
           Ordered(visited', NeedsMap)
    PROVE  CInv'
<1> DEFINE f == [Top EXCEPT !.k = Top.k + dk, !.p = Top.p + dp]
<1>1. /\ stack \in Seq(Frames) /\ Len(stack) \in Nat \ {0} /\ Top \in Frames
      /\ Top.k \in Nat \ {0} /\ Top.p \in Nat
  BY TopType DEF TInv, StackOK
<1>2. f \in Frames /\ f.node = Top.node
  <2>1. Top.k + dk \in Nat \ {0} /\ Top.p + dp \in Nat
    BY <1>1
  <2>2. QED
    BY <1>1, <2>1 DEF Frames
<1>3. /\ stack' = [stack EXCEPT ![Len(stack)] = f] /\ ctl' = Loop /\ NeedsMap' = NeedsMap
  BY <1>1, SameNeeds DEF Advance, Top, fixed
<1> HIDE DEF f
<1>4. /\ Len(stack') = Len(stack)
      /\ \A i \in 1..Len(stack) : stack'[i] = IF i = Len(stack) THEN f ELSE stack[i]
  BY <1>1, <1>2, <1>3
<1>5. \A i \in 1..Len(stack) : stack'[i].node = stack[i].node
  BY <1>2, <1>4 DEF Top
<1>6. \A i \in 1..(Len(stack) - 1) : i \in 1..Len(stack) /\ i + 1 \in 1..Len(stack)
  BY <1>1
<1>7. Chained'
  BY <1>3, <1>4, <1>5, <1>6 DEF CInv, Chained
<1>8. QED
  BY <1>3, <1>7 DEF CInv, PostOrder, Called, Met, Loop

\* A call can be made only of a node the schema has.
LEMMA NeedsOf ==
    ASSUME NEW n \in DOMAIN ast.nodes
    PROVE  /\ Kind(n) \in Wrapping \cup {"reference"} => NeedsMap[n] = {Target(n)}
           /\ Kind(n) = "tag" => NeedsMap[n] = {Kids(n)[1]}
           /\ Kind(n) \notin SingleKinds => NeedsMap[n] = {}
BY DEF NeedsMap, Needs, SingleKinds, Wrapping

LEMMA CInvNext == TInv /\ ImplicitOnPlain /\ CInv /\ [Next]_vars => CInv'
<1> SUFFICES ASSUME TInv, ImplicitOnPlain, CInv, [Next]_vars PROVE CInv'
  OBVIOUS
<1>1. /\ ast \in Asts /\ visited \in Seq(DOMAIN ast.nodes)
      /\ Ordered(visited, NeedsMap)
  BY DEF TInv, CInv, PostOrder
<1>2. CASE UNCHANGED vars
  <2>1. UNCHANGED <<ast, ctl, stack, visited>> /\ NeedsMap' = NeedsMap
    BY <1>2, SameNeeds DEF vars, fixed
  <2>2. QED
    BY <2>1 DEF CInv, PostOrder, Chained, Called, Met, Top
<1>3. CASE Refuse \/ Reject
  <2>1. /\ UNCHANGED <<ast, stack>> /\ visited' = visited /\ ctl' = ReturnFalse
        /\ ctl.op \in {"type", "value"}
    BY <1>3 DEF Refuse, Reject, Entering, fixed
  <2>2. QED
    BY <1>1, <2>1, CQuiet
<1>4. CASE EnterWrapper
  <2>1. Entering(Wrapping \cup {"reference"}) /\ Open /\ UNCHANGED <<fixed, visited>>
    BY <1>4 DEF EnterWrapper
  <2>2. ctl'.op = ctl.op /\ ctl'.node = Target(ctl.node)
    BY <1>4 DEF EnterWrapper, Call
  <2>3. NeedsMap[ctl.node] \subseteq {ctl'.node} /\ ctl'.op \in {"type", "value"}
    BY <2>1, <2>2, Entered, NeedsOf
  <2>4. QED
    BY <2>1, <2>3, Entered, COpens
<1>5. CASE EnterLoop
  <2>1. /\ Entering({"sequence", "repetition", "alternation"}) /\ Open
        /\ UNCHANGED <<fixed, visited>> /\ ctl' = Loop
    BY <1>5 DEF EnterLoop
  <2>2. QED
    BY <2>1, Entered, COpens
<1>6. CASE EnterExplicit
  <2>1. Entering({"tag"}) /\ Open /\ UNCHANGED <<fixed, visited>>
    BY <1>6 DEF EnterExplicit
  <2>2. ctl'.op = "type" /\ ctl'.node = Kids(ctl.node)[1]
    BY <1>6 DEF EnterExplicit, Call
  <2>3. NeedsMap[ctl.node] \subseteq {ctl'.node}
    BY <2>1, <2>2, Entered, NeedsOf
  <2>4. QED
    BY <2>1, <2>2, <2>3, Entered, COpens
<1>7. CASE EnterImplicit
  <2> DEFINE N     == DOMAIN ast.nodes
             in    == Kids(ctl.node)[1]
             out   == ctl.node
             needs == NeedsMap
             one   == Append(visited, in)
  <2>1. /\ Entering({"tag"}) /\ Fits(ctl.node, ctl.tlv) /\ ~ IsExplicit(ctl.node, ctl.tlv)
        /\ visited' = visited \o <<in, out>> /\ ctl' = ReturnTrue /\ UNCHANGED <<ast, stack>>
        /\ ctl.op \in {"type", "value"}
    BY <1>7 DEF EnterImplicit, Entering, fixed
  <2>2. out \in N /\ Kids(out) # << >> /\ Kids(out) \in Seq(N) /\ Kind(out) = "tag"
    BY <1>1, <2>1, Entered, FitsGives, AstType
  <2>3. in \in N
    BY <2>2
  <2>4. Kind(in) \in Plain
    BY <2>1, <2>2 DEF ImplicitOnPlain, IsExplicit
  <2>5. needs[in] = {} /\ needs[out] = {in}
    BY <2>2, <2>3, <2>4, NeedsNothing, NeedsOf
  <2>6. visited \in Seq(N) /\ Ordered(visited, needs)
    BY <1>1
  <2> HIDE DEF N, in, out, needs
  <2>7. one \in Seq(N) /\ Ordered(one, needs) /\ Occurs(in, one)
    BY <2>3, <2>5, <2>6, PushSeq, CreditOne
  <2>8. visited \o <<in, out>> = Append(one, out)
    BY <2>2, <2>3, <2>6
  <2> HIDE DEF one
  <2>9. Ordered(Append(one, out), needs) /\ Occurs(out, Append(one, out))
    BY <2>2, <2>5, <2>7, CreditOne
  <2>10. Ordered(visited', needs) /\ Occurs(out, visited')
    BY <2>1, <2>8, <2>9
  <2>11. QED
    BY <2>1, <2>10, CQuiet DEF needs, out
<1>8. CASE EnterLeaf
  <2> DEFINE N     == DOMAIN ast.nodes
             out   == ctl.node
             needs == NeedsMap
  <2>1. /\ Entering({"terminal", "string-type"}) /\ visited' = Append(visited, out)
        /\ ctl' = ReturnTrue /\ UNCHANGED <<ast, stack>> /\ ctl.op \in {"type", "value"}
    BY <1>8 DEF EnterLeaf, Entering, fixed
  <2>2. out \in N /\ needs[out] = {}
    BY <2>1, Entered, NeedsNothing DEF Plain
  <2>3. visited \in Seq(N) /\ Ordered(visited, needs)
    BY <1>1
  <2> HIDE DEF N, out, needs
  <2>4. Ordered(Append(visited, out), needs) /\ Occurs(out, Append(visited, out))
    BY <2>2, <2>3, CreditOne
  <2>5. Ordered(visited', needs) /\ Occurs(out, visited')
    BY <2>1, <2>4
  <2>6. QED
    BY <2>1, <2>5, CQuiet DEF needs, out
<1>9. CASE NextComponent \/ NextElement \/ NextAlternative
  <2>1. /\ stack # << >> /\ Kind(Top.node) \in {"sequence", "repetition", "alternation"}
        /\ UNCHANGED <<ast, stack, visited>> /\ ctl'.op \in {"type", "value"}
    BY <1>9 DEF NextComponent, NextElement, NextAlternative, InLoop, Call, fixed
  <2>2. NeedsMap' = NeedsMap /\ Top' = Top /\ NeedsMap[Top.node] = {}
    BY <2>1, SameNeeds, TopType, NeedsNothing DEF Top, Plain
  <2>3. QED
    BY <2>1, <2>2 DEF CInv, PostOrder, Chained, Called, Met
<1>10. CASE LoopDone \/ Unreadable
  <2>1. /\ stack # << >> /\ Kind(Top.node) \in {"sequence", "repetition", "alternation"}
        /\ Credit
    BY <1>10 DEF LoopDone, Unreadable, InLoop, Returning
  <2>2. NeedsMap[Top.node] = {}
    BY <2>1, TopType, NeedsNothing DEF Plain
  <2>3. QED
    BY <2>1, <2>2, CCloses
<1>11. CASE Succeed
  <2>1. ctl.op = "ok" /\ stack # << >> /\ Credit
    BY <1>11 DEF Succeed, Returning
  <2>2. \A m \in NeedsMap[Top.node] : Occurs(m, visited)
    BY <2>1 DEF CInv, Met
  <2>3. QED
    BY <2>1, <2>2, CCloses
<1>12. CASE ItemMatched \/ Absent \/ PassOver
  <2>1. stack # << >> /\ visited' = visited
    BY <1>12 DEF ItemMatched, Absent, PassOver, Returning
  <2>2. PICK dk \in Nat, dp \in Nat : Advance(dk, dp)
    BY <1>12 DEF ItemMatched, Absent, PassOver
  <2>3. QED
    BY <1>1, <2>1, <2>2, CMoves
<1>13. ASSUME stack # << >>, visited' = Truncated
       PROVE  Ordered(visited', NeedsMap)
  <2> DEFINE needs == NeedsMap
             mark  == Top.mark
             N     == DOMAIN ast.nodes
  <2>1. visited \in Seq(N) /\ mark \in Nat /\ mark <= Len(visited) /\ Ordered(visited, needs)
    BY <1>1, <1>13, TopType
  <2>2. visited' = SubSeq(visited, 1, mark)
    BY <1>13 DEF Truncated
  <2> HIDE DEF needs, mark, N
  <2>3. Ordered(SubSeq(visited, 1, mark), needs)
    BY <2>1, CreditLess
  <2>4. QED
    BY <2>2, <2>3 DEF needs
<1>14. CASE NotThisOne
  <2>1. stack # << >> /\ visited' = Truncated /\ Advance(1, 0)
    BY <1>14 DEF NotThisOne, Returning
  <2>2. QED
    BY <1>13, <2>1, CMoves
<1>15. CASE Fail
  <2>1. /\ stack # << >> /\ visited' = Truncated /\ stack' = Below /\ ast' = ast
        /\ ctl'.op = "fail"
    BY <1>15 DEF Fail, Returning, fixed
  <2>2. NeedsMap' = NeedsMap /\ Ordered(visited', NeedsMap)
    BY <1>13, <2>1, SameNeeds
  <2>3. Chained'
    BY <2>1, CBelow
  <2>4. QED
    BY <2>1, <2>2, <2>3 DEF CInv, PostOrder, Called, Met
<1>16. QED
  BY <1>2, <1>3, <1>4, <1>5, <1>6, <1>7, <1>8, <1>9, <1>10, <1>11, <1>12, <1>14, <1>15
     DEF Next

LEMMA OrderedClosed == TInv /\ CInv => CreditsClosed
<1> SUFFICES ASSUME TInv, CInv, NEW n \in VisitedNodes, NEW m \in Needs(n)
             PROVE  m \in VisitedNodes
  BY DEF CreditsClosed
<1>1. PICK i \in 1..Len(visited) : visited[i] = n
  BY DEF VisitedNodes
<1>2. n \in DOMAIN ast.nodes
  BY <1>1 DEF TInv
<1>3. m \in NeedsMap[visited[i]]
  BY <1>1, <1>2 DEF NeedsMap
<1>4. PICK j \in 1..Len(visited) : j < i /\ visited[j] = m
  BY <1>3 DEF CInv, PostOrder, Ordered
<1>5. QED
  BY <1>4 DEF VisitedNodes

\* Of every schema whose IMPLICIT tags are on types written out in full, for every value
\* and depth bound: at every moment, whatever has been rolled back, what a credited
\* wrapper, reference or tag stands for is credited too, which is what the code generator
\* rests on.
THEOREM CreditsClosedWhenPlain == Spec => []PlainCreditsClosed
<1> DEFINE Inv == TInv /\ (ImplicitOnPlain => CInv)
<1>1. Init => Inv
  BY TInvInit, CInvInit
<1>2. Inv /\ [Next]_vars => Inv'
  <2> SUFFICES ASSUME Inv, [Next]_vars PROVE Inv'
    OBVIOUS
  <2>1. TInv'
    BY TInvNext
  <2>2. ast' = ast
    BY DEF Next, vars, fixed, Refuse, Reject, EnterWrapper, EnterLoop, EnterExplicit,
           EnterImplicit, EnterLeaf, NextComponent, NextElement, NextAlternative,
           LoopDone, Succeed, ItemMatched, Absent, PassOver, Unreadable, NotThisOne,
           Fail, Credit, Advance
  <2>3. ImplicitOnPlain' = ImplicitOnPlain
    BY <2>2, SameNeeds
  <2>4. ImplicitOnPlain => CInv'
    BY CInvNext
  <2>5. QED
    BY <2>1, <2>3, <2>4
<1>3. Inv => PlainCreditsClosed
  BY OrderedClosed DEF PlainCreditsClosed
<1>4. QED
  BY <1>1, <1>2, <1>3, PTL DEF Spec
=============================================================================
