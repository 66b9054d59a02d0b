-------------------------------- MODULE CtRun --------------------------------
(***************************************************************************)
(* A run of the CT fetcher over the network: every page that CtFetch asks  *)
(* for is a call of fetch_bytes, whose attempts, waits and errors are      *)
(* those of HttpRetry.  While a call lasts the log may grow; the reader    *)
(* waits.  What the call raises ends the run.                              *)
(***************************************************************************)
EXTENDS CtFetch

CONSTANTS Retries, Base, Cap, RetryAfters   \* of HttpRetry

VARIABLES call,      \* the state of the open call, or "none"
          attempt, met, slept

http    == <<call, attempt, met, slept>>
allVars == <<vars, http>>

H == INSTANCE HttpRetry WITH phase <- call

ASSUME RetryAssumption == H!RetryParameters
-----------------------------------------------------------------------------
NoCall == call = "none" /\ attempt = 0 /\ met = << >> /\ slept = << >>
Hangup == call' = "none" /\ attempt' = 0 /\ met' = << >> /\ slept' = << >>

RunInit == Init /\ NoCall

\* get_entries is called for the next page.
Ask == /\ phase = "fetch" /\ remaining > 0 /\ call = "none"
       /\ call' = "trying"
       /\ UNCHANGED <<vars, attempt, met, slept>>

\* fetch_bytes at work.
Fetching == /\ call \in {"trying", "sleeping"}
            /\ H!Next
            /\ UNCHANGED vars

\* The body of the answer: what the server had when the attempt succeeded at last.
Answered == /\ call = "returned"
            /\ Request \/ EndOfLog
            /\ Hangup

\* Mutant of Failed: an error is taken for the end of the log.
FailedQuietly == /\ call = "raised"
                 /\ phase' = "finish"
                 /\ UNCHANGED <<tree, runs, reader, disk>>
                 /\ Hangup

\* The error leaves iter_ders and _main.  A body that is not an answer does, too.
Failed == /\ call \in {"raised", "returned"}
          /\ Fail
          /\ Hangup

\* What needs no request.
Locally == /\ Begin \/ Entry \/ Finish
           /\ UNCHANGED http

Growing == Grow /\ UNCHANGED http

RunNext == Ask \/ Fetching \/ Answered \/ Failed \/ Locally \/ Growing

\* The command executes until it ends and its waits are finite; the log need not grow, nor
\* anybody run the command.
Working  == Ask \/ Fetching \/ Answered \/ Failed \/ ((Entry \/ Finish) /\ UNCHANGED http)
RunSpec  == RunInit /\ [][RunNext]_allVars
FairSpec == RunSpec /\ WF_allVars(Working)
-----------------------------------------------------------------------------
(***************************************************************************)
(* Properties.                                                             *)
(***************************************************************************)
RunTypeOK == TypeOK /\ (NoCall \/ (phase = "fetch" /\ H!TypeOK))

\* The properties of the retrying client, of every call of a run.
RetriesAsPromised == H!RetriesAsPromised
DropIsRetried     == H!DropIsRetried

\* The retries do not show: to the reader of the log every page comes in one step or the
\* run fails.  In particular an error is never taken for the end of the log, which would
\* pass a part of the range off as the whole.
PagesAreAtomic == Spec

\* A started run ends, however short the answers are and whatever its calls meet.
RunEnds == phase \in {"fetch", "page", "finish"} ~> phase \in {"done", "failed"}
=============================================================================
