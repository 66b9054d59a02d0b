------------------------------- MODULE CtFetch -------------------------------
(***************************************************************************)
(* Fetching a certificate corpus from a Certificate Transparency log       *)
(* (ct.py): CtLogSource.iter_ders pages get-entries over a range of the    *)
(* log and _main writes what it yields to cert-NNNNNN.der, then the        *)
(* provenance.  The command is run again and again with the same           *)
(* arguments and output directory.                                         *)
(*                                                                         *)
(* The log is append-only and grows; the server may return fewer entries   *)
(* than asked for, and past its end none at all or an error.  A request is *)
(* one step here, and may fail; CtRun composes it of its attempts.         *)
(***************************************************************************)
EXTENDS Integers, Sequences, FiniteSets, Functions

CONSTANTS Log,        \* the entries, as they will be: a certificate or Malformed each
          Malformed,  \* cert_der_from_entry returns None for it
          NoCert,     \* no such file
          Sampled,    \* the certificates keep_sample keeps
          Start, Count, PageSize,
          MaxRuns     \* bound: runs of the command

ASSUME CtAssumption == /\ Start \in Nat /\ Count \in Nat \ {0} /\ PageSize \in Nat \ {0}
                       /\ Log \in Seq(Range(Log)) /\ Start <= Len(Log)
                       /\ MaxRuns \in Nat \ {0}

VARIABLES tree,        \* entries in the log so far
          runs,        \* runs started
          phase,       \* "idle", "fetch", "page", "finish", "done" or "failed"
          idx,         \* the next index to ask for
          remaining,
          page,        \* the entries of the last answer not yet looked at
          seen,        \* fingerprints of this run
          counts,      \* entries_scanned, duplicates_dropped, certs_kept
          files,       \* index -> the certificate in cert-NNNNNN.der
          provenance   \* provenance.json, NoFile before the first run is done

reader == <<idx, remaining, page, seen, counts>>
disk   == <<files, provenance>>
vars   == <<tree, runs, phase, reader, disk>>
-----------------------------------------------------------------------------
NoFile  == [scanned |-> -1, duplicates |-> -1, kept |-> -1]
NoCount == [scanned |-> 0, duplicates |-> 0, kept |-> 0]
Least(x, y) == IF x <= y THEN x ELSE y

Init == /\ tree \in Start..Len(Log)
        /\ runs = 0 /\ phase = "idle"
        /\ idx = Start /\ remaining = 0 /\ page = << >> /\ seen = {} /\ counts = NoCount
        /\ files = [i \in 0..(Count - 1) |-> NoCert] /\ provenance = NoFile

Grow == /\ tree < Len(Log)
        /\ tree' = tree + 1
        /\ UNCHANGED <<runs, phase, reader, disk>>

Begin == /\ phase \in {"idle", "done", "failed"}
         /\ runs < MaxRuns
         /\ runs' = runs + 1
         /\ phase' = "fetch"
         /\ idx' = Start /\ remaining' = Count
         /\ page' = << >> /\ seen' = {} /\ counts' = NoCount
         /\ UNCHANGED <<tree, disk>>

\* Mutant of Request: the pager advances by what it asked for, not by what it got.
RequestWanted ==
    /\ phase = "fetch" /\ remaining > 0
    /\ LET want == Least(PageSize, remaining)
       IN  \E got \in 1..Least(want, tree - idx) :
              /\ page' = SubSeq(Log, idx + 1, idx + got)
              /\ idx' = idx + want /\ remaining' = remaining - want
    /\ phase' = "page"
    /\ UNCHANGED <<tree, runs, seen, counts, disk>>

\* An answer with at least one entry.  The reader moves on by what it got.
Request ==
    /\ phase = "fetch" /\ remaining > 0
    /\ LET want == Least(PageSize, remaining)
       IN  \E got \in 1..Least(want, tree - idx) :
              /\ page' = SubSeq(Log, idx + 1, idx + got)
              /\ idx' = idx + got
              /\ remaining' = remaining - got
    /\ phase' = "page"
    /\ UNCHANGED <<tree, runs, seen, counts, disk>>

\* Mutant of EndOfLog: it is asked again until entries come.
EndOfLogAgain == /\ phase = "fetch" /\ remaining > 0 /\ idx >= tree
                 /\ UNCHANGED vars

\* An empty answer: the end of the log has been reached.
EndOfLog == /\ phase = "fetch" /\ remaining > 0
            /\ idx >= tree
            /\ phase' = "finish"
            /\ UNCHANGED <<tree, runs, reader, disk>>

\* The request fails: nothing is cleaned up and no provenance is written.
Fail == /\ phase = "fetch" /\ remaining > 0
        /\ phase' = "failed"
        /\ UNCHANGED <<tree, runs, reader, disk>>

\* Mutant of Entry: duplicates are not dropped.
EntryDup ==
    /\ phase = "page"
    /\ LET c == Head(page)
       IN  IF c = Malformed \/ c \notin Sampled
           THEN counts' = [counts EXCEPT !.scanned = @ + 1] /\ UNCHANGED <<seen, files>>
           ELSE /\ seen' = seen \cup {c}
                /\ counts' = [counts EXCEPT !.scanned = @ + 1, !.kept = @ + 1]
                /\ files' = [files EXCEPT ![counts.kept] = c]
    /\ page' = Tail(page)
    /\ phase' = IF Len(page) = 1 THEN "fetch" ELSE "page"
    /\ UNCHANGED <<tree, runs, idx, remaining, provenance>>

\* One entry of the page; a certificate that is yielded is written at once.
Entry ==
    /\ phase = "page"
    /\ LET c == Head(page)
           scanned == [counts EXCEPT !.scanned = @ + 1]
       IN  IF c = Malformed THEN counts' = scanned /\ UNCHANGED <<seen, files>>
           ELSE IF c \in seen
           THEN counts' = [scanned EXCEPT !.duplicates = @ + 1] /\ UNCHANGED <<seen, files>>
           ELSE /\ seen' = seen \cup {c}
                /\ IF c \in Sampled
                   THEN /\ counts' = [scanned EXCEPT !.kept = @ + 1]
                        /\ files' = [files EXCEPT ![counts.kept] = c]
                   ELSE counts' = scanned /\ UNCHANGED files
    /\ page' = Tail(page)
    /\ phase' = IF Len(page) = 1 THEN "fetch" ELSE "page"
    /\ UNCHANGED <<tree, runs, idx, remaining, provenance>>

\* The range has been read, or the log has ended: the provenance is written.
Finish == /\ phase = "finish" \/ (phase = "fetch" /\ remaining <= 0)
          /\ provenance' = counts
          /\ phase' = "done"
          /\ UNCHANGED <<tree, runs, reader, files>>

Next == Grow \/ Begin \/ Request \/ EndOfLog \/ Fail \/ Entry \/ Finish

Spec == Init /\ [][Next]_vars
-----------------------------------------------------------------------------
(***************************************************************************)
(* Properties.                                                             *)
(***************************************************************************)
Certs  == Range(Log) \ {Malformed}
Counts == [scanned : Nat, duplicates : Nat, kept : Nat]

TypeOK == /\ tree \in 0..Len(Log) /\ runs \in 0..MaxRuns
          /\ phase \in {"idle", "fetch", "page", "finish", "done", "failed"}
          /\ idx \in Nat /\ remaining \in 0..Count
          /\ phase = "page" => page # << >>
          /\ page \in Seq(Range(Log)) /\ seen \subseteq Certs
          /\ counts \in Counts /\ counts.scanned <= Count
          /\ files \in [0..(Count - 1) -> Certs \cup {NoCert}]
          /\ provenance \in Counts \cup {NoFile}

\* The corpus the first n entries of the range stand for: the first occurrence of
\* every certificate that the sampling keeps, in log order.
InRange(n)  == SubSeq(Log, Start + 1, Start + n)
NewAt(s, i) == s[i] # Malformed /\ \A k \in 1..(i - 1) : s[k] # s[i]
KeptAt(s)   == {i \in 1..Len(s) : NewAt(s, i) /\ s[i] \in Sampled}
NumberOf(at, p) == Cardinality({q \in at : q < p})

\* "The pager advances by what it actually got": however the answers are cut, the run
\* has looked at the entries of the range once each, and the directory the telemetry
\* walks holds their corpus and nothing else: what earlier runs with these arguments
\* left, failed ones included, has been overwritten.
DirectoryIsCorpus ==
    phase = "done" =>
        LET s  == InRange(counts.scanned)
            at == KeptAt(s)
        IN  /\ \A p \in at : files[NumberOf(at, p)] = s[p]
            /\ \A i \in Cardinality(at)..(Count - 1) : files[i] = NoCert

\* The provenance accounts for every entry of the range, and the range was read to its
\* end or to the end of the log.
ProvenanceAccounts ==
    phase = "done" =>
        LET s == InRange(provenance.scanned)
        IN  /\ provenance.kept = Cardinality(KeptAt(s))
            /\ provenance.duplicates =
                  Cardinality({i \in 1..Len(s) : s[i] # Malformed /\ ~ NewAt(s, i)})
            /\ provenance.scanned = Count \/ Start + provenance.scanned = idx
            /\ provenance.scanned <= Count
=============================================================================
