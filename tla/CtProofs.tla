------------------------------ MODULE CtProofs ------------------------------
(***************************************************************************)
(* Proofs about CtFetch and CtRun, for every log, range, page size, budget *)
(* of retries and number of runs: the run over the retrying client         *)
(* implements the run whose pages come in one step; the provenance and the *)
(* directory are those of the range, whatever earlier runs have left; and  *)
(* every call goes on as promised.                                         *)
(***************************************************************************)
EXTENDS CtRun, FiniteSetTheorems, TLAPS

-----------------------------------------------------------------------------
(***************************************************************************)
(* The composition implements CtFetch.                                     *)
(***************************************************************************)
\* The attempts and waits of a call (http.py _run_with_retries) do not show to iter_ders
\* (ct.py): every step of a run over the network is one of CtFetch or changes nothing
\* CtFetch sees.
THEOREM NetworkImplementsPages == RunSpec => PagesAreAtomic
<1>1. RunInit => Init
  BY DEF RunInit
<1>2. [RunNext]_allVars => [Next]_vars
  <2> SUFFICES ASSUME [RunNext]_allVars PROVE [Next]_vars
    OBVIOUS
  <2>1. CASE Ask \/ Fetching
    BY <2>1 DEF Ask, Fetching
  <2>2. CASE Answered
    BY <2>2 DEF Answered, Next
  <2>3. CASE Failed
    BY <2>3 DEF Failed, Next
  <2>4. CASE Locally
    BY <2>4 DEF Locally, Next
  <2>5. CASE Growing
    BY <2>5 DEF Growing, Next
  <2>6. CASE UNCHANGED allVars
    BY <2>6 DEF allVars
  <2> QED BY <2>1, <2>2, <2>3, <2>4, <2>5, <2>6 DEF RunNext
<1> QED BY <1>1, <1>2, PTL DEF RunSpec, PagesAreAtomic, Spec
-----------------------------------------------------------------------------
(***************************************************************************)
(* The reader's counters, over the log instead of a copy of the range.     *)
(***************************************************************************)
At(i)    == Log[Start + i]
NewIn(i) == At(i) # Malformed /\ \A k \in 1..(i - 1) : At(k) # At(i)
KeptIn(n)   == {i \in 1..n : NewIn(i) /\ At(i) \in Sampled}
DoubleIn(n) == {i \in 1..n : At(i) # Malformed /\ ~ NewIn(i)}

LEMMA LeastFacts ==
    ASSUME NEW x \in Int, NEW y \in Int
    PROVE  Least(x, y) \in Int /\ Least(x, y) <= x /\ Least(x, y) <= y
BY DEF Least

LEMMA EmptyOnlyLen ==
    ASSUME NEW S, NEW q \in Seq(S)
    PROVE  Len(q) \in Nat /\ (q = << >> <=> Len(q) = 0)
OBVIOUS

LEMMA RangeOfLog ==
    ASSUME NEW n \in Nat, Start + n <= Len(Log)
    PROVE  LET s == InRange(n)
           IN  /\ KeptAt(s) = KeptIn(n)
               /\ {i \in 1..Len(s) : s[i] # Malformed /\ ~ NewAt(s, i)} = DoubleIn(n)
<1> DEFINE s == InRange(n)
<1>1. Start \in Nat /\ Log \in Seq(Range(Log))
  BY CtAssumption
<1>2. Len(s) = n /\ \A i \in 1..n : s[i] = At(i)
  BY <1>1 DEF InRange, At
<1> HIDE DEF s
<1>3. ASSUME NEW i \in 1..n PROVE NewAt(s, i) <=> NewIn(i)
  BY <1>2 DEF NewAt, NewIn
<1>4. KeptAt(s) = KeptIn(n)
  BY <1>2, <1>3 DEF KeptAt, KeptIn
<1>5. {i \in 1..Len(s) : s[i] # Malformed /\ ~ NewAt(s, i)} = DoubleIn(n)
  BY <1>2, <1>3 DEF DoubleIn
<1> QED BY <1>4, <1>5 DEF s

\* One more entry adds itself to the one set, to the other, or to none.
LEMMA OneMore ==
    ASSUME NEW n \in Nat
    PROVE  /\ KeptIn(n + 1) = KeptIn(n) \cup {i \in {n + 1} : NewIn(i) /\ At(i) \in Sampled}
           /\ DoubleIn(n + 1) = DoubleIn(n) \cup {i \in {n + 1} : At(i) # Malformed /\ ~ NewIn(i)}
<1>1. 1..(n + 1) = 1..n \cup {n + 1}
  OBVIOUS
<1> QED BY <1>1 DEF KeptIn, DoubleIn

LEMMA CountOneMore ==
    ASSUME NEW n \in Nat, NEW S \in SUBSET (1..n)
    PROVE  /\ IsFiniteSet(S) /\ Cardinality(S) \in Nat
           /\ Cardinality(S \cup {n + 1}) = Cardinality(S) + 1
<1>1. IsFiniteSet(1..n)
  BY FS_Interval
<1>2. IsFiniteSet(S)
  BY <1>1, FS_Subset
<1>3. n + 1 \notin S
  OBVIOUS
<1> QED BY <1>2, <1>3, FS_AddElement, FS_CardinalityType

Active == phase \in {"fetch", "page", "finish", "done"}

\* The counters are those of the entries looked at; the rest of the page follows them
\* in the log.
Reading ==
    LET n == counts.scanned
    IN  /\ counts \in Counts
        /\ page \in Seq(Range(Log))
        /\ phase = "page" <=> page # << >>
        /\ idx = Start + n + Len(page) /\ idx <= Len(Log)
        /\ remaining = Count - n - Len(page) /\ remaining >= 0
        /\ \A i \in 1..Len(page) : page[i] = At(n + i)
        /\ seen = {At(i) : i \in 1..n} \ {Malformed}
        /\ counts.kept = Cardinality(KeptIn(n))
        /\ counts.duplicates = Cardinality(DoubleIn(n))

CInv == /\ tree \in Nat /\ Start <= tree /\ tree <= Len(Log)
        /\ Active => Reading
        /\ phase = "done" => provenance = counts
-----------------------------------------------------------------------------
LEMMA CInitInv == Init => CInv
BY CtAssumption DEF Init, CInv, Active

LEMMA BeginInv == ASSUME CInv, Begin PROVE CInv'
<1>1. /\ tree' = tree /\ phase' = "fetch" /\ idx' = Start /\ remaining' = Count
      /\ page' = << >> /\ seen' = {} /\ counts' = NoCount
  BY DEF Begin, disk
<1>2. /\ KeptIn(0) = {} /\ DoubleIn(0) = {} /\ Cardinality({}) = 0
  BY FS_EmptySet DEF KeptIn, DoubleIn
<1>3. /\ Start \in Nat /\ Count \in Nat /\ Start <= Len(Log) /\ Len(Log) \in Nat
  BY CtAssumption
<1>4. /\ counts' \in Counts /\ counts'.scanned = 0 /\ counts'.kept = 0
      /\ counts'.duplicates = 0 /\ page' \in Seq(Range(Log)) /\ Len(page') = 0
  BY <1>1 DEF NoCount, Counts
<1>5. /\ idx' = Start + counts'.scanned + Len(page') /\ idx' <= Len(Log)
      /\ remaining' = Count - counts'.scanned - Len(page') /\ remaining' >= 0
  BY <1>1, <1>3, <1>4
<1>6. 1..0 = {} /\ 1..Len(page') = {}
  BY <1>4
<1>7. seen' = {At(i) : i \in 1..counts'.scanned} \ {Malformed}
  BY <1>1, <1>4, <1>6
<1>8. Reading'
  BY <1>1, <1>2, <1>4, <1>5, <1>6, <1>7 DEF Reading
<1> QED BY <1>1, <1>3, <1>8 DEF CInv

LEMMA RequestInv == ASSUME CInv, Request PROVE CInv'
<1> DEFINE want == Least(PageSize, remaining)
           n == counts.scanned
<1>1. /\ phase = "fetch" /\ phase' = "page" /\ remaining > 0
      /\ tree' = tree /\ seen' = seen /\ counts' = counts
  BY DEF Request
<1>2. PICK got \in 1..Least(want, tree - idx) :
         /\ page' = SubSeq(Log, idx + 1, idx + got)
         /\ idx' = idx + got /\ remaining' = remaining - got
  BY DEF Request
<1>3. Reading
  BY <1>1 DEF CInv, Active
<1>4. /\ n \in Nat /\ Start \in Nat /\ Count \in Nat /\ PageSize \in Nat
      /\ Log \in Seq(Range(Log)) /\ Len(Log) \in Nat
      /\ tree \in Nat /\ tree <= Len(Log)
      /\ page = << >> /\ Len(page) = 0
      /\ idx = Start + n /\ remaining = Count - n
  BY <1>1, <1>3, CtAssumption DEF CInv, Reading, Counts
<1> HIDE DEF n
<1>5. /\ got \in Nat /\ got >= 1 /\ got <= remaining /\ idx + got <= Len(Log)
  <2>1. /\ idx \in Int /\ remaining \in Int /\ tree - idx \in Int /\ PageSize \in Int
    BY <1>4
  <2>2. want \in Int /\ want <= remaining
    BY <2>1, LeastFacts
  <2> HIDE DEF want
  <2>3. Least(want, tree - idx) \in Int /\ Least(want, tree - idx) <= want
        /\ Least(want, tree - idx) <= tree - idx
    BY <2>1, <2>2, LeastFacts
  <2> QED BY <1>4, <2>1, <2>2, <2>3
<1>6. /\ page' \in Seq(Range(Log)) /\ Len(page') = got
      /\ \A i \in 1..got : page'[i] = Log[idx + i]
  <2>1. \A i \in (idx + 1)..(idx + got) : Log[i] \in Range(Log)
    BY <1>4, <1>5
  <2> QED BY <1>2, <1>4, <1>5, <2>1
<1>7. \A i \in 1..Len(page') : page'[i] = At(n + i)
  BY <1>4, <1>6 DEF At
<1>8. page' # << >>
  BY <1>5, <1>6, EmptyOnlyLen
<1>9. /\ idx' = Start + n + Len(page') /\ idx' <= Len(Log)
      /\ remaining' = Count - n - Len(page') /\ remaining' >= 0
  BY <1>2, <1>4, <1>5, <1>6
<1>10. Reading'
  BY <1>1, <1>3, <1>6, <1>7, <1>8, <1>9 DEF Reading, n
<1> QED BY <1>1, <1>4, <1>10 DEF CInv

LEMMA EntryInv == ASSUME CInv, Entry PROVE CInv'
<1> DEFINE n == counts.scanned
           c == Head(page)
<1>1. /\ phase = "page" /\ page' = Tail(page)
      /\ phase' = IF Len(page) = 1 THEN "fetch" ELSE "page"
      /\ tree' = tree /\ idx' = idx /\ remaining' = remaining
  BY DEF Entry
<1>2. Reading
  BY <1>1 DEF CInv, Active
<1>3. /\ counts \in Counts /\ n \in Nat /\ Start \in Nat /\ Count \in Nat
      /\ page \in Seq(Range(Log)) /\ page # << >> /\ Len(page) \in Nat /\ Len(page) >= 1
  BY <1>1, <1>2, CtAssumption DEF Reading, Counts
<1>4. c = At(n + 1)
  BY <1>2, <1>3 DEF Reading
<1>5. /\ page' \in Seq(Range(Log)) /\ Len(page') = Len(page) - 1
      /\ \A i \in 1..Len(page') : page'[i] = page[i + 1]
  BY <1>1, <1>3
<1>6. \A i \in 1..Len(page') : page'[i] = At((n + 1) + i)
  <2> SUFFICES ASSUME NEW i \in 1..Len(page') PROVE page'[i] = At((n + 1) + i)
    OBVIOUS
  <2>1. page'[i] = page[i + 1] /\ i + 1 \in 1..Len(page)
    BY <1>3, <1>5
  <2>2. page[i + 1] = At(n + (i + 1))
    BY <1>2, <2>1 DEF Reading
  <2>3. n + (i + 1) = (n + 1) + i
    BY <1>3
  <2> QED BY <2>1, <2>2, <2>3
<1>7. phase' = "page" <=> page' # << >>
  <2>1. page' = << >> <=> Len(page') = 0
    BY <1>5, EmptyOnlyLen
  <2>2. Len(page') = 0 <=> Len(page) = 1
    BY <1>3, <1>5
  <2> QED BY <1>1, <2>1, <2>2
<1>8. /\ idx = Start + (n + 1) + Len(page') /\ idx <= Len(Log)
      /\ remaining = Count - (n + 1) - Len(page') /\ remaining >= 0
  <2>1. /\ idx = Start + n + Len(page) /\ idx <= Len(Log)
        /\ remaining = Count - n - Len(page) /\ remaining >= 0
    BY <1>2 DEF Reading
  <2> HIDE DEF n
  <2> QED BY <1>3, <1>5, <2>1
<1>s. seen = {At(i) : i \in 1..n} \ {Malformed}
  BY <1>2 DEF Reading
<1>9. 1..(n + 1) = 1..n \cup {n + 1} /\ (n + 1) - 1 = n
  BY <1>3
<1>10. {At(i) : i \in 1..(n + 1)} = {At(i) : i \in 1..n} \cup {c}
  BY <1>4, <1>9
<1>11. c # Malformed => (NewIn(n + 1) <=> c \notin seen)
  BY <1>4, <1>9, <1>s DEF NewIn
<1>12. /\ counts.kept = Cardinality(KeptIn(n)) /\ counts.duplicates = Cardinality(DoubleIn(n))
  BY <1>2 DEF Reading
<1>13. /\ Cardinality(KeptIn(n) \cup {n + 1}) = Cardinality(KeptIn(n)) + 1
       /\ Cardinality(DoubleIn(n) \cup {n + 1}) = Cardinality(DoubleIn(n)) + 1
  <2>1. KeptIn(n) \in SUBSET (1..n) /\ DoubleIn(n) \in SUBSET (1..n)
    BY DEF KeptIn, DoubleIn
  <2> QED BY <1>3, <2>1, CountOneMore
<1>14. /\ KeptIn(n + 1) = KeptIn(n) \cup {i \in {n + 1} : NewIn(i) /\ At(i) \in Sampled}
       /\ DoubleIn(n + 1) = DoubleIn(n) \cup {i \in {n + 1} : At(i) # Malformed /\ ~ NewIn(i)}
  BY <1>3, OneMore
<1> HIDE DEF c
<1>15. /\ counts' \in Counts /\ counts'.scanned = n + 1
       /\ counts'.kept = Cardinality(KeptIn(n + 1))
       /\ counts'.duplicates = Cardinality(DoubleIn(n + 1))
       /\ seen' = {At(i) : i \in 1..(n + 1)} \ {Malformed}
  <2> DEFINE Counted(k, d) == /\ counts' \in Counts /\ counts'.scanned = n + 1
                              /\ counts'.kept = counts.kept + k
                              /\ counts'.duplicates = counts.duplicates + d
  <2>0. counts.kept \in Nat /\ counts.duplicates \in Nat
    BY <1>3 DEF Counts
  <2>1. CASE c = Malformed
    <3>1. counts' = [counts EXCEPT !.scanned = @ + 1] /\ seen' = seen
      BY <2>1 DEF Entry, c
    <3>2. KeptIn(n + 1) = KeptIn(n) /\ DoubleIn(n + 1) = DoubleIn(n)
      BY <1>4, <1>14, <2>1 DEF NewIn
    <3>3. Counted(0, 0)
      BY <1>3, <2>0, <3>1 DEF Counts
    <3> QED BY <1>10, <1>12, <1>s, <2>0, <2>1, <3>1, <3>2, <3>3
  <2>2. CASE c # Malformed /\ c \in seen
    <3>1. /\ counts' = [counts EXCEPT !.scanned = @ + 1, !.duplicates = @ + 1] /\ seen' = seen
      BY <1>3, <2>2 DEF Entry, c, Counts
    <3>2. KeptIn(n + 1) = KeptIn(n) /\ DoubleIn(n + 1) = DoubleIn(n) \cup {n + 1}
      BY <1>4, <1>11, <1>14, <2>2
    <3>3. /\ counts'.scanned = counts.scanned + 1
          /\ counts'.duplicates = counts.duplicates + 1
          /\ counts'.kept = counts.kept
          /\ counts' \in Counts
      <4>1. counts \in [scanned : Nat, duplicates : Nat, kept : Nat]
        BY <1>3 DEF Counts
      <4>2. counts' = [scanned    |-> counts.scanned + 1,
                       duplicates |-> counts.duplicates + 1,
                       kept       |-> counts.kept]
        BY <3>1, <4>1
      <4> QED BY <4>1, <4>2 DEF Counts
    <3>4. seen' = {At(i) : i \in 1..(n + 1)} \ {Malformed}
      BY <1>10, <1>s, <2>2, <3>1
    <3> QED BY <1>12, <1>13, <3>2, <3>3, <3>4
  <2>3. CASE c # Malformed /\ c \notin seen /\ c \in Sampled
    <3>1. /\ counts' = [counts EXCEPT !.scanned = @ + 1, !.kept = @ + 1]
          /\ seen' = seen \cup {c}
      BY <1>3, <2>3 DEF Entry, c, Counts
    <3>2. KeptIn(n + 1) = KeptIn(n) \cup {n + 1} /\ DoubleIn(n + 1) = DoubleIn(n)
      BY <1>4, <1>11, <1>14, <2>3
    <3>3. /\ counts'.scanned = counts.scanned + 1
          /\ counts'.kept = counts.kept + 1
          /\ counts'.duplicates = counts.duplicates
          /\ counts' \in Counts
      <4>1. counts \in [scanned : Nat, duplicates : Nat, kept : Nat]
        BY <1>3 DEF Counts
      <4>2. counts' = [scanned    |-> counts.scanned + 1,
                       duplicates |-> counts.duplicates,
                       kept       |-> counts.kept + 1]
        BY <3>1, <4>1
      <4> QED BY <4>1, <4>2 DEF Counts
    <3>4. seen' = {At(i) : i \in 1..(n + 1)} \ {Malformed}
      BY <1>10, <1>s, <2>3, <3>1
    <3> QED BY <1>12, <1>13, <3>2, <3>3, <3>4
  <2>4. CASE c # Malformed /\ c \notin seen /\ c \notin Sampled
    <3>1. counts' = [counts EXCEPT !.scanned = @ + 1] /\ seen' = seen \cup {c}
      BY <2>4 DEF Entry, c
    <3>2. KeptIn(n + 1) = KeptIn(n) /\ DoubleIn(n + 1) = DoubleIn(n)
      BY <1>4, <1>11, <1>14, <2>4
    <3>3. Counted(0, 0)
      BY <1>3, <2>0, <3>1 DEF Counts
    <3> QED BY <1>10, <1>12, <1>s, <2>0, <2>4, <3>1, <3>2, <3>3
  <2> QED BY <2>1, <2>2, <2>3, <2>4
<1>16. Reading'
  BY <1>1, <1>5, <1>6, <1>7, <1>8, <1>15 DEF Reading
<1> QED BY <1>1, <1>16 DEF CInv

\* The reader stands still.
LEMMA StillInv ==
    ASSUME CInv, UNCHANGED <<reader, provenance>>, tree' \in Nat, Start <= tree', tree' <= Len(Log),
           \/ phase' = "failed"
           \/ phase = "fetch" /\ phase' = "finish"
           \/ phase' = phase
    PROVE  CInv'
<1>1. /\ idx' = idx /\ remaining' = remaining /\ page' = page /\ seen' = seen
      /\ counts' = counts /\ provenance' = provenance
  BY DEF reader
<1>2. CASE phase' = "failed"
  BY <1>2 DEF CInv, Active
<1>3. CASE phase = "fetch" /\ phase' = "finish"
  BY <1>1, <1>3 DEF CInv, Active, Reading
<1>4. CASE phase' = phase
  BY <1>1, <1>4 DEF CInv, Active, Reading
<1> QED BY <1>2, <1>3, <1>4

LEMMA FinishInv == ASSUME CInv, Finish PROVE CInv'
<1>1. /\ phase \in {"fetch", "finish"} /\ phase' = "done" /\ provenance' = counts
      /\ tree' = tree /\ idx' = idx /\ remaining' = remaining /\ page' = page
      /\ seen' = seen /\ counts' = counts
  BY DEF Finish, reader
<1> QED BY <1>1 DEF CInv, Active, Reading

LEMMA CStepInv == CInv /\ [Next]_vars => CInv'
<1> SUFFICES ASSUME CInv, [Next]_vars PROVE CInv'
  OBVIOUS
<1>1. CASE Grow
  <2>1. tree' \in Nat /\ Start <= tree' /\ tree' <= Len(Log)
    BY <1>1, CtAssumption DEF Grow, CInv
  <2> QED BY <1>1, <2>1, StillInv DEF Grow, disk
<1>2. CASE EndOfLog \/ Fail
  BY <1>2, StillInv DEF EndOfLog, Fail, CInv, disk
<1>3. CASE UNCHANGED vars
  BY <1>3, StillInv DEF vars, CInv, disk
<1> QED BY <1>1, <1>2, <1>3, BeginInv, RequestInv, EntryInv, FinishInv DEF Next

THEOREM CInvariance == Spec => []CInv
BY CInitInv, CStepInv, PTL DEF Spec

\* ct.py: "the pager advances by what it actually got": however the answers are cut, the
\* provenance of a finished run counts every entry of the range once, as kept, duplicate
\* or neither.
THEOREM ProvenanceIsRange == Spec => []ProvenanceAccounts
<1>1. ASSUME CInv, phase = "done"
      PROVE  LET s == InRange(provenance.scanned)
             IN  /\ provenance.kept = Cardinality(KeptAt(s))
                 /\ provenance.duplicates =
                       Cardinality({i \in 1..Len(s) : s[i] # Malformed /\ ~ NewAt(s, i)})
                 /\ provenance.scanned = Count \/ Start + provenance.scanned = idx
                 /\ provenance.scanned <= Count
  <2> DEFINE n == counts.scanned
  <2>1. Reading /\ provenance = counts
    BY <1>1 DEF CInv, Active
  <2>2. page = << >> /\ Len(page) = 0
    BY <1>1, <2>1 DEF Reading
  <2>3. /\ n \in Nat /\ Start \in Nat /\ Count \in Nat
        /\ idx = Start + n /\ idx <= Len(Log) /\ n <= Count
    BY <2>1, <2>2, CtAssumption DEF Reading, Counts
  <2>4. /\ KeptAt(InRange(n)) = KeptIn(n)
        /\ {i \in 1..Len(InRange(n)) : InRange(n)[i] # Malformed /\ ~ NewAt(InRange(n), i)}
              = DoubleIn(n)
    BY <2>3, RangeOfLog
  <2>5. counts.kept = Cardinality(KeptIn(n)) /\ counts.duplicates = Cardinality(DoubleIn(n))
    BY <2>1 DEF Reading
  <2> QED BY <2>1, <2>3, <2>4, <2>5
<1>2. CInv => ProvenanceAccounts
  BY <1>1 DEF ProvenanceAccounts
<1> QED BY <1>2, CInvariance, PTL

-----------------------------------------------------------------------------
(***************************************************************************)
(* The directory.  A certificate's number is that of the kept ones before   *)
(* it in the log, so every run writes it to the same file; and no run reads *)
(* past the range, nor past the end of the log, which a finished one has    *)
(* reached.                                                                 *)
(***************************************************************************)
Number(p) == Cardinality(KeptIn(p - 1))

\* Where a file comes from, of this run or an earlier one: entries of the range that
\* were in the log.
InReach(p) == p <= Count /\ Start + p <= tree
Founded == \A i \in 0..(Count - 1) : files[i] # NoCert =>
              \E p \in Nat \ {0} : /\ InReach(p)
                                   /\ NewIn(p) /\ At(p) \in Sampled /\ Number(p) = i

\* What this run has written.
Written == Active => \A p \in KeptIn(counts.scanned) : files[Number(p)] = At(p)

\* Beyond the entries a finished run has looked at there is nothing it has left out.
Exhausted(n) == \A i \in 0..(Count - 1) : files[i] # NoCert =>
                   \E p \in KeptIn(n) : Number(p) = i
Ended == phase \in {"finish", "done"} => Exhausted(counts.scanned)

DInv == /\ files \in [0..(Count - 1) -> Range(Log) \cup {NoCert}]
        /\ Active => Start + counts.scanned + Len(page) <= tree
        /\ Founded /\ Written /\ Ended

\* Kept entries are numbered in log order, below any count that includes them.
LEMMA NumberBelow ==
    ASSUME NEW n \in Nat, NEW p \in KeptIn(n)
    PROVE  Number(p) \in 0..(Cardinality(KeptIn(n)) - 1)
<1>1. p \in 1..n /\ p \in Nat /\ p - 1 \in Nat /\ (p - 1) + 1 = p
  BY DEF KeptIn
<1>2. KeptIn(p - 1) \in SUBSET (1..(p - 1)) /\ KeptIn(n) \in SUBSET (1..n)
  BY DEF KeptIn
<1>3. /\ Cardinality(KeptIn(p - 1)) \in Nat
      /\ Cardinality(KeptIn(p - 1) \cup {(p - 1) + 1}) = Cardinality(KeptIn(p - 1)) + 1
      /\ IsFiniteSet(KeptIn(n)) /\ Cardinality(KeptIn(n)) \in Nat
  BY <1>1, <1>2, CountOneMore
<1>4. KeptIn(p - 1) \cup {p} \subseteq KeptIn(n)
  BY <1>1 DEF KeptIn
<1>5. Cardinality(KeptIn(p - 1) \cup {p}) <= Cardinality(KeptIn(n))
  BY <1>3, <1>4, FS_Subset
<1> QED BY <1>1, <1>3, <1>5 DEF Number

LEMMA CardinalityBound ==
    ASSUME NEW n \in Nat
    PROVE  Cardinality(KeptIn(n)) \in 0..n
<1>1. IsFiniteSet(1..n) /\ Cardinality(1..n) = n
  BY FS_Interval
<1>2. KeptIn(n) \subseteq 1..n
  BY DEF KeptIn
<1> QED BY <1>1, <1>2, FS_Subset, FS_CardinalityType

\* A step that writes no file and does not move the reader.
LEMMA NothingWritten ==
    ASSUME CInv, DInv, UNCHANGED <<reader, files>>, tree' \in Nat, tree <= tree',
           \/ phase' = "failed"
           \/ phase' \in {"finish", "done"} /\ phase \in {"fetch", "finish"}
              /\ Exhausted(counts.scanned)
           \/ phase' = phase
    PROVE  DInv'
<1>1. /\ files' = files /\ counts' = counts /\ page' = page
  BY DEF reader
<1>2. /\ tree \in Nat /\ Start \in Nat
      /\ \A p \in Nat \ {0} : InReach(p) => InReach(p)'
  <2>1. tree \in Nat /\ Start \in Nat
    BY CtAssumption DEF CInv
  <2> QED BY <2>1 DEF InReach
<1>3. Founded'
  BY <1>1, <1>2 DEF DInv, Founded
<1>4. Active' => Active
  BY DEF Active
<1>5. Active' => Start + counts'.scanned + Len(page') <= tree'
  <2> SUFFICES ASSUME Active' PROVE Start + counts.scanned + Len(page) <= tree'
    BY <1>1
  <2>1. Start + counts.scanned + Len(page) <= tree
    BY <1>4 DEF DInv
  <2>2. counts.scanned \in Nat /\ Len(page) \in Nat
    BY <1>4 DEF CInv, Reading, Counts
  <2> QED BY <1>2, <2>1, <2>2
<1>6. Written'
  BY <1>1, <1>4 DEF DInv, Written
<1>7. Ended'
  BY <1>1 DEF DInv, Ended, Exhausted
<1> QED BY <1>1, <1>3, <1>5, <1>6, <1>7 DEF DInv

\* Every earlier run has stopped where this one has, or before.
LEMMA NothingBeyond ==
    ASSUME CInv, DInv, phase \in {"fetch", "finish"},
           remaining <= 0 \/ idx >= tree
    PROVE  phase = "fetch" => Exhausted(counts.scanned)
<1> DEFINE n == counts.scanned
<1> SUFFICES ASSUME phase = "fetch", NEW i \in 0..(Count - 1), files[i] # NoCert
             PROVE  \E p \in KeptIn(n) : Number(p) = i
  BY DEF Exhausted
<1>1. PICK p \in Nat \ {0} : /\ InReach(p) /\ NewIn(p) /\ At(p) \in Sampled
                            /\ Number(p) = i
  BY DEF DInv, Founded
<1>2. Reading /\ page = << >> /\ Len(page) = 0
  BY DEF CInv, Active, Reading
<1>3. /\ n \in Nat /\ Start \in Nat /\ Count \in Nat /\ tree \in Nat
      /\ idx = Start + n /\ remaining = Count - n
  BY <1>2, CtAssumption DEF CInv, Reading, Counts
<1> HIDE DEF n
<1>4. p <= n
  BY <1>1, <1>3 DEF InReach
<1>5. p \in KeptIn(n)
  BY <1>1, <1>3, <1>4 DEF KeptIn
<1> QED BY <1>1, <1>5

LEMMA DInitInv == Init => DInv
<1> SUFFICES ASSUME Init PROVE DInv
  OBVIOUS
<1>1. /\ files = [i \in 0..(Count - 1) |-> NoCert] /\ phase = "idle"
  BY DEF Init
<1> QED BY <1>1 DEF DInv, Founded, Written, Ended, Active

LEMMA DBeginInv == ASSUME CInv, DInv, Begin PROVE DInv'
<1>1. /\ tree' = tree /\ phase' = "fetch" /\ page' = << >> /\ counts' = NoCount
      /\ files' = files
  BY DEF Begin, disk
<1>2. Founded'
  BY <1>1 DEF DInv, Founded, InReach
<1>3. Written'
  BY <1>1 DEF Written, NoCount, KeptIn
<1>4. Start + counts'.scanned + Len(page') <= tree'
  <2>1. Start \in Nat /\ tree \in Nat /\ Start <= tree
    BY CtAssumption DEF CInv
  <2> QED BY <1>1, <2>1 DEF NoCount
<1> QED BY <1>1, <1>2, <1>3, <1>4 DEF DInv, Ended

LEMMA DRequestInv == ASSUME CInv, DInv, Request PROVE DInv'
<1>1. /\ phase = "fetch" /\ phase' = "page" /\ tree' = tree /\ counts' = counts
      /\ files' = files
  BY DEF Request, disk
<1>2. CInv'
  BY RequestInv
<1>3. PICK got \in 1..Least(Least(PageSize, remaining), tree - idx) : idx' = idx + got
  BY DEF Request
<1>4. /\ tree \in Nat /\ idx \in Int /\ remaining \in Int /\ PageSize \in Int
  <2>1. Reading
    BY <1>1 DEF CInv, Active
  <2>2. counts.scanned \in Nat /\ Len(page) \in Nat
    BY <2>1 DEF Reading, Counts
  <2>3. tree \in Nat
    BY DEF CInv
  <2>4. idx \in Int /\ remaining \in Int
    BY <2>1, <2>2, CtAssumption DEF Reading
  <2> QED BY <2>3, <2>4, CtAssumption
<1>5. idx' <= tree
  <2>1. Least(PageSize, remaining) \in Int /\ tree - idx \in Int
    BY <1>4, LeastFacts
  <2>2. Least(Least(PageSize, remaining), tree - idx) <= tree - idx
        /\ Least(Least(PageSize, remaining), tree - idx) \in Int
    BY <2>1, LeastFacts
  <2> QED BY <1>3, <1>4, <2>2
<1>6. Start + counts'.scanned + Len(page') <= tree'
  BY <1>1, <1>2, <1>5 DEF CInv, Active, Reading
<1>7. Founded' /\ Written'
  BY <1>1 DEF DInv, Founded, InReach, Written, Active
<1> QED BY <1>1, <1>6, <1>7 DEF DInv, Ended

LEMMA DEntryInv == ASSUME CInv, DInv, Entry PROVE DInv'
<1> DEFINE n == counts.scanned
           c == Head(page)
<1>1. /\ phase = "page" /\ page' = Tail(page) /\ phase' \in {"fetch", "page"}
      /\ tree' = tree
  BY DEF Entry
<1>2. Reading /\ CInv'
  BY <1>1, EntryInv DEF CInv, Active
<1>3. /\ n \in Nat /\ Start \in Nat /\ Count \in Nat /\ tree \in Nat
      /\ page \in Seq(Range(Log)) /\ Len(page) \in Nat /\ Len(page) >= 1
      /\ Start + n + Len(page) <= tree /\ n + Len(page) <= Count
      /\ c \in Range(Log)
  <2>1. /\ n \in Nat /\ Start \in Nat /\ Count \in Nat /\ tree \in Nat
        /\ page \in Seq(Range(Log)) /\ Len(page) \in Nat /\ page # << >>
    BY <1>1, <1>2, CtAssumption DEF CInv, Reading, Counts
  <2>2. Len(page) # 0
    BY <2>1, EmptyOnlyLen
  <2>3. remaining = Count - n - Len(page) /\ remaining >= 0
    BY <1>2 DEF Reading
  <2>4. Start + n + Len(page) <= tree
    BY <1>1 DEF DInv, Active
  <2>5. c \in Range(Log)
    BY <2>1, <2>2
  <2> HIDE DEF n, c
  <2> QED BY <2>1, <2>2, <2>3, <2>4, <2>5
<1>4. /\ c = At(n + 1) /\ counts'.scanned = n + 1
      /\ seen = {At(i) : i \in 1..n} \ {Malformed}
      /\ counts.kept = Cardinality(KeptIn(n))
  <2>1. c = At(n + 1)
    BY <1>2, <1>3 DEF Reading
  <2>2. counts'.scanned = n + 1
    BY <1>2 DEF Entry, Reading, Counts
  <2> QED BY <1>2, <2>1, <2>2 DEF Reading
<1>5. Number(n + 1) = counts.kept /\ counts.kept \in 0..n
  <2>1. (n + 1) - 1 = n
    BY <1>3
  <2> QED BY <1>3, <1>4, <2>1, CardinalityBound DEF Number
<1>6. KeptIn(n + 1) = KeptIn(n) \cup {i \in {n + 1} : NewIn(i) /\ At(i) \in Sampled}
  BY <1>3, OneMore
<1>7. /\ c = Malformed \/ c \in seen \/ c \notin Sampled => files' = files
      /\ c # Malformed /\ c \notin seen /\ c \in Sampled =>
            files' = [files EXCEPT ![counts.kept] = c]
  BY DEF Entry
<1>8. c # Malformed /\ c \notin seen <=> NewIn(n + 1)
  <2>1. (n + 1) - 1 = n
    BY <1>3
  <2> QED BY <1>4, <2>1 DEF NewIn
<1>9. \A p \in KeptIn(n) : files[Number(p)] = At(p)
  BY <1>1 DEF DInv, Written, Active
<1>10. \A p \in KeptIn(n) : Number(p) \in 0..(counts.kept - 1)
  BY <1>3, <1>4, NumberBelow
<1>11. Start + counts'.scanned + Len(page') <= tree'
  <2>1. Len(page') = Len(page) - 1
    BY <1>1, <1>3
  <2> HIDE DEF n, c
  <2>2. Start + (n + 1) + (Len(page) - 1) = Start + n + Len(page)
    BY <1>3
  <2> QED BY <1>1, <1>3, <1>4, <2>1, <2>2
<1>12. files \in [0..(Count - 1) -> Range(Log) \cup {NoCert}]
  BY DEF DInv
<1> HIDE DEF n, c
<1>13. CASE ~ (NewIn(n + 1) /\ c \in Sampled)
  <2>1. files' = files
    BY <1>7, <1>8, <1>13
  <2>2. KeptIn(n + 1) = KeptIn(n)
    BY <1>4, <1>6, <1>13
  <2>3. Written'
    BY <1>4, <1>9, <2>1, <2>2 DEF Written
  <2>4. Founded'
    BY <1>1, <2>1 DEF DInv, Founded, InReach
  <2> QED BY <1>1, <1>11, <1>12, <2>1, <2>3, <2>4 DEF DInv, Ended
<1>14. CASE NewIn(n + 1) /\ c \in Sampled
  <2>1. files' = [files EXCEPT ![counts.kept] = c]
    BY <1>7, <1>8, <1>14
  <2>2. counts.kept \in 0..(Count - 1) /\ counts.kept \in Nat
    BY <1>3, <1>5
  <2>3. KeptIn(n + 1) = KeptIn(n) \cup {n + 1}
    BY <1>4, <1>6, <1>14
  <2>4. files' \in [0..(Count - 1) -> Range(Log) \cup {NoCert}]
    BY <1>3, <1>12, <2>1, <2>2
  <2>5. \A i \in 0..(Count - 1) : files'[i] = IF i = counts.kept THEN c ELSE files[i]
    BY <1>12, <2>1, <2>2
  <2>6. ASSUME NEW p \in KeptIn(n + 1) PROVE files'[Number(p)] = At(p)
    <3>1. CASE p = n + 1
      BY <1>4, <1>5, <2>2, <2>5, <3>1
    <3>2. CASE p \in KeptIn(n)
      <4>1. Number(p) \in 0..(counts.kept - 1)
        BY <1>10, <3>2
      <4>2. Number(p) \in 0..(Count - 1) /\ Number(p) # counts.kept
        BY <1>3, <2>2, <4>1
      <4> QED BY <1>9, <2>5, <3>2, <4>2
    <3> QED BY <2>3, <2>6, <3>1, <3>2
  <2>7. Written'
    BY <1>4, <2>6 DEF Written
  <2>8. Founded'
    <3> SUFFICES ASSUME NEW i \in 0..(Count - 1), files'[i] # NoCert
                 PROVE  \E p \in Nat \ {0} : /\ InReach(p) /\ NewIn(p)
                                             /\ At(p) \in Sampled /\ Number(p) = i
      BY <1>1 DEF Founded, InReach
    <3>1. CASE i = counts.kept
      <4>1. n + 1 \in Nat \ {0} /\ InReach(n + 1)
        BY <1>3 DEF InReach
      <4> QED BY <1>4, <1>5, <1>14, <3>1, <4>1
    <3>2. CASE i # counts.kept
      BY <2>5, <3>2 DEF DInv, Founded
    <3> QED BY <3>1, <3>2
  <2> QED BY <1>1, <1>11, <2>4, <2>7, <2>8 DEF DInv, Ended
<1> QED BY <1>13, <1>14

LEMMA DStepInv == CInv /\ DInv /\ [Next]_vars => DInv'
<1> SUFFICES ASSUME CInv, DInv, [Next]_vars PROVE DInv'
  OBVIOUS
<1>t. tree \in Nat /\ tree <= tree
  BY DEF CInv
<1>1. CASE Grow
  <2>1. tree' \in Nat /\ tree <= tree'
    BY <1>1, <1>t DEF Grow
  <2> QED BY <1>1, <2>1, NothingWritten DEF Grow, disk
<1>2. CASE EndOfLog
  <2>1. Exhausted(counts.scanned)
    BY <1>2, NothingBeyond DEF EndOfLog
  <2> QED BY <1>2, <1>t, <2>1, NothingWritten DEF EndOfLog, disk
<1>3. CASE Fail
  BY <1>3, <1>t, NothingWritten DEF Fail, disk
<1>4. CASE Finish
  <2>1. Exhausted(counts.scanned)
    BY <1>4, NothingBeyond DEF Finish, DInv, Ended
  <2> QED BY <1>4, <1>t, <2>1, NothingWritten DEF Finish
<1>5. CASE UNCHANGED vars
  BY <1>5, <1>t, NothingWritten DEF vars, disk
<1> QED BY <1>1, <1>2, <1>3, <1>4, <1>5, DBeginInv, DRequestInv, DEntryInv DEF Next

THEOREM DInvariance == Spec => []DInv
BY DInitInv, DStepInv, CInvariance, PTL DEF Spec

\* Whatever earlier runs over the same directory have left, failed ones included, the
\* cert-NNNNNN.der files of a finished run are the corpus of the range it read (ct.py
\* iter_ders and _main).
THEOREM DirectoryIsRange == Spec => []DirectoryIsCorpus
<1>1. ASSUME CInv, DInv, phase = "done"
      PROVE  LET s  == InRange(counts.scanned)
                 at == KeptAt(s)
             IN  /\ \A p \in at : files[NumberOf(at, p)] = s[p]
                 /\ \A i \in Cardinality(at)..(Count - 1) : files[i] = NoCert
  <2> DEFINE n == counts.scanned
             s == InRange(n)
  <2>1. Reading /\ page = << >> /\ Len(page) = 0
    BY <1>1 DEF CInv, Active, Reading
  <2>2. /\ n \in Nat /\ Start \in Nat /\ idx = Start + n /\ idx <= Len(Log)
        /\ Log \in Seq(Range(Log)) /\ Count \in Nat
    BY <2>1, CtAssumption DEF Reading, Counts
  <2>3. KeptAt(s) = KeptIn(n)
    BY <2>2, RangeOfLog
  <2>4. \A p \in KeptIn(n) : s[p] = At(p)
    <3>1. \A p \in KeptIn(n) : p \in 1..n
      BY DEF KeptIn
    <3> HIDE DEF n
    <3>2. \A p \in 1..n : InRange(n)[p] = At(p)
      BY <2>2 DEF InRange, At
    <3> QED BY <3>1, <3>2
  <2> HIDE DEF n, s
  <2>5. ASSUME NEW p \in KeptIn(n) PROVE NumberOf(KeptIn(n), p) = Number(p)
    <3>1. p \in 1..n
      BY DEF KeptIn
    <3>2. {q \in KeptIn(n) : q < p} = KeptIn(p - 1)
      BY <2>2, <3>1 DEF KeptIn
    <3> QED BY <3>2 DEF NumberOf, Number
  <2>6. \A p \in KeptIn(n) : files[Number(p)] = At(p)
    BY <1>1 DEF DInv, Written, Active, n
  <2>7. ASSUME NEW i \in Cardinality(KeptIn(n))..(Count - 1) PROVE files[i] = NoCert
    <3> SUFFICES ASSUME files[i] # NoCert PROVE FALSE
      OBVIOUS
    <3>1. Cardinality(KeptIn(n)) \in Nat
      BY <2>2, CardinalityBound
    <3>2. i \in 0..(Count - 1)
      BY <2>2, <3>1
    <3>3. PICK p \in KeptIn(n) : Number(p) = i
      BY <1>1, <3>2 DEF DInv, Ended, Exhausted, n
    <3>4. Number(p) \in 0..(Cardinality(KeptIn(n)) - 1)
      BY <2>2, NumberBelow
    <3> QED BY <3>1, <3>2, <3>3, <3>4
  <2> QED BY <2>3, <2>4, <2>5, <2>6, <2>7 DEF n, s
<1>2. CInv /\ DInv => DirectoryIsCorpus
  BY <1>1 DEF DirectoryIsCorpus
<1> QED BY <1>2, CInvariance, DInvariance, PTL

\* The same of every run over the network (ct.py over http.py), by refinement.
THEOREM CorpusOverNetwork == RunSpec => [](DirectoryIsCorpus /\ ProvenanceAccounts)
BY DirectoryIsRange, ProvenanceIsRange, NetworkImplementsPages, PTL DEF PagesAreAtomic
-----------------------------------------------------------------------------
(***************************************************************************)
(* The calls.                                                              *)
(***************************************************************************)
Delays == {H!Delay(e, n) : e \in H!Answers, n \in Nat}

\* Every attempt but the last has met a transient error and, but for the one at hand,
\* waited for it.
Calling ==
    /\ call \in {"trying", "sleeping", "returned", "raised"}
    /\ attempt \in Nat
    /\ met \in Seq(H!Answers) /\ slept \in Seq(Delays)
    /\ Len(met) = attempt + (IF call = "trying" THEN 0 ELSE 1)
    /\ Len(slept) = attempt + (IF call = "sleeping" THEN 1 ELSE 0)
    /\ \A i \in 1..Len(slept) : /\ met[i].kind \in H!Transient
                                /\ slept[i] = H!Delay(met[i], i - 1)
    /\ call = "raised" /\ met[Len(met)].kind \in H!Transient => attempt = Retries

HInv == NoCall \/ Calling

LEMMA TransientErrors ==
    ASSUME NEW e PROVE H!Retryable(e) <=> e.kind \in H!Transient
BY DEF H!Retryable, H!Transient

\* A delay is the server's wish, or the doubling schedule up to its cap.
LEMMA DelayFacts ==
    ASSUME NEW e \in H!Answers, NEW n \in Nat
    PROVE  /\ H!Delay(e, n) \in Delays
           /\ e.kind = "busy" /\ e.after \in RetryAfters => H!Delay(e, n) = e.after
           /\ ~ (e.kind = "busy" /\ e.after \in RetryAfters) =>
                 H!Delay(e, n) <= Cap /\ (H!Delay(e, n) = Cap \/ H!Delay(e, n) = Base * 2^n)
<1>1. RetryAfters \subseteq Nat /\ Base \in Nat /\ Cap \in Nat
  BY RetryAssumption DEF H!RetryParameters
<1>2. H!Delay(e, n) \in Delays
  BY DEF Delays
<1>3. e.kind = "busy" => e.after \in RetryAfters \cup {H!NoHeader}
  BY DEF H!Answers
<1>4. H!NoHeader \notin RetryAfters
  BY <1>1 DEF H!NoHeader
<1> QED BY <1>1, <1>2, <1>3, <1>4 DEF H!Delay, H!Least

LEMMA BackOffInv == ASSUME Calling, H!BackOff, call = "trying" PROVE Calling'
<1>1. PICK e \in H!Answers : /\ H!Retryable(e)
                            /\ met' = Append(met, e)
                            /\ slept' = Append(slept, H!Delay(e, attempt))
  BY DEF H!BackOff
<1>2. call' = "sleeping" /\ attempt' = attempt
  BY DEF H!BackOff
<1>3. /\ attempt \in Nat /\ met \in Seq(H!Answers) /\ slept \in Seq(Delays)
      /\ Len(met) = attempt /\ Len(slept) = attempt
      /\ \A i \in 1..Len(slept) : met[i].kind \in H!Transient /\ slept[i] = H!Delay(met[i], i - 1)
  BY DEF Calling
<1>4. H!Delay(e, attempt) \in Delays /\ e.kind \in H!Transient
  BY <1>1, <1>3, DelayFacts, TransientErrors
<1>5. /\ met' \in Seq(H!Answers) /\ Len(met') = attempt + 1 /\ met'[attempt + 1] = e
      /\ \A i \in 1..attempt : met'[i] = met[i]
  BY <1>1, <1>3
<1>6. /\ slept' \in Seq(Delays) /\ Len(slept') = attempt + 1
      /\ slept'[attempt + 1] = H!Delay(e, attempt)
      /\ \A i \in 1..attempt : slept'[i] = slept[i]
  BY <1>1, <1>3, <1>4
<1>7. ASSUME NEW i \in 1..(attempt + 1)
      PROVE  met'[i].kind \in H!Transient /\ slept'[i] = H!Delay(met'[i], i - 1)
  <2>1. CASE i = attempt + 1
    <3>1. i - 1 = attempt
      BY <1>3, <2>1
    <3> QED BY <1>4, <1>5, <1>6, <2>1, <3>1
  <2>2. CASE i \in 1..attempt
    BY <1>3, <1>5, <1>6, <2>2
  <2> QED BY <1>3, <2>1, <2>2
<1> QED BY <1>2, <1>3, <1>5, <1>6, <1>7 DEF Calling

\* The last attempt: a success, or an error that is raised.
LEMMA LastInv == ASSUME Calling, H!Return \/ H!Raise, call = "trying" PROVE Calling'
<1>1. PICK e \in H!Answers : met' = Append(met, e)
        /\ (call' = "raised" => e.kind \notin H!Transient \/ attempt = Retries)
  <2>1. CASE H!Return
    <3>1. [kind |-> "ok"] \in H!Answers
      BY DEF H!Answers
    <3> QED BY <2>1, <3>1 DEF H!Return
  <2>2. CASE H!Raise
    BY <2>2, TransientErrors DEF H!Raise
  <2> QED BY <2>1, <2>2
<1>2. call' \in {"returned", "raised"} /\ attempt' = attempt /\ slept' = slept
  BY DEF H!Return, H!Raise
<1>3. /\ attempt \in Nat /\ met \in Seq(H!Answers) /\ slept \in Seq(Delays)
      /\ Len(met) = attempt /\ Len(slept) = attempt
      /\ \A i \in 1..Len(slept) : met[i].kind \in H!Transient /\ slept[i] = H!Delay(met[i], i - 1)
  BY DEF Calling
<1>4. /\ met' \in Seq(H!Answers) /\ Len(met') = attempt + 1 /\ met'[attempt + 1] = e
      /\ \A i \in 1..attempt : met'[i] = met[i]
  BY <1>1, <1>3
<1> QED BY <1>1, <1>2, <1>3, <1>4 DEF Calling

LEMMA WakeInv == ASSUME Calling, H!Wake PROVE Calling'
<1>1. /\ call = "sleeping" /\ call' = "trying" /\ attempt' = attempt + 1
      /\ met' = met /\ slept' = slept
  BY DEF H!Wake
<1> QED BY <1>1 DEF Calling

LEMMA HStepInv == HInv /\ [RunNext]_allVars => HInv'
<1> SUFFICES ASSUME HInv, [RunNext]_allVars PROVE HInv'
  OBVIOUS
<1>1. CASE Ask
  <2>1. NoCall
    BY <1>1 DEF Ask, HInv, Calling
  <2> QED BY <1>1, <2>1 DEF Ask, NoCall, HInv, Calling, H!Transient
<1>2. CASE Fetching
  <2>1. Calling
    BY <1>2 DEF Fetching, HInv, NoCall
  <2>2. CASE H!BackOff
    BY <2>1, <2>2, BackOffInv DEF H!BackOff, HInv
  <2>3. CASE H!Return \/ H!Raise
    BY <2>1, <2>3, LastInv DEF H!Return, H!Raise, HInv
  <2>4. CASE H!Wake
    BY <2>1, <2>4, WakeInv DEF HInv
  <2> QED BY <1>2, <2>2, <2>3, <2>4 DEF Fetching, H!Next
<1>3. CASE Answered \/ Failed
  BY <1>3 DEF Answered, Failed, Hangup, HInv, NoCall
<1>4. CASE Locally \/ Growing \/ UNCHANGED allVars
  BY <1>4 DEF Locally, Growing, allVars, http, HInv, NoCall, Calling
<1> QED BY <1>1, <1>2, <1>3, <1>4 DEF RunNext

\* http.py _run_with_retries: in every call of a run the attempts go on exactly while the
\* errors are transient and the budget lasts, and wait as the schedule or the server says.
THEOREM CallsAsPromised == RunSpec => []RetriesAsPromised
<1>1. RunInit => HInv
  BY DEF RunInit, HInv
<1>2. ASSUME NoCall PROVE RetriesAsPromised
  BY <1>2 DEF NoCall, RetriesAsPromised, H!RetriesAsPromised, H!GivesUpInTime,
              H!WaitsAsScheduled
<1>3. ASSUME Calling PROVE H!GivesUpInTime
  <2> SUFFICES ASSUME call \in {"returned", "raised"}
               PROVE  /\ \A i \in 1..(Len(met) - 1) : met[i].kind \in H!Transient
                      /\ call = "raised" /\ met[Len(met)].kind \in H!Transient =>
                            Len(met) = Retries + 1
    BY DEF H!GivesUpInTime
  <2>1. /\ attempt \in Nat /\ Len(met) = attempt + 1 /\ Len(slept) = attempt
        /\ \A i \in 1..Len(slept) : met[i].kind \in H!Transient
        /\ call = "raised" /\ met[Len(met)].kind \in H!Transient => attempt = Retries
    BY <1>3 DEF Calling
  <2> QED BY <2>1
<1>4. ASSUME Calling PROVE H!WaitsAsScheduled
  <2> SUFFICES ASSUME NEW i \in 1..Len(slept)
               PROVE  IF met[i].kind = "busy" /\ met[i].after \in RetryAfters
                      THEN slept[i] = met[i].after
                      ELSE slept[i] <= Cap /\ (slept[i] = Cap \/ slept[i] = Base * 2^(i - 1))
    BY DEF H!WaitsAsScheduled
  <2>1. met[i] \in H!Answers /\ i - 1 \in Nat /\ slept[i] = H!Delay(met[i], i - 1)
    BY <1>4 DEF Calling
  <2> QED BY <2>1, DelayFacts
<1>5. HInv => RetriesAsPromised
  BY <1>2, <1>3, <1>4 DEF HInv, RetriesAsPromised, H!RetriesAsPromised
<1> QED BY <1>1, <1>5, HStepInv, PTL DEF RunSpec
=============================================================================
