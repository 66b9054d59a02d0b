----------------------------- MODULE HttpRetry -----------------------------
(***************************************************************************)
(* The bounded retries of the streaming connectors (collector/http.py):    *)
(* _run_with_retries around one open (open_stream) or one open and read    *)
(* (fetch_bytes).  The server and the network choose what an attempt meets. *)
(***************************************************************************)
EXTENDS Integers, Sequences, FiniteSetsExt

CONSTANTS Retries,      \* the attempt budget is Retries + 1
          Base, Cap,    \* the backoff schedule, in seconds
          RetryAfters   \* the Retry-After values a server may ask for

RetryParameters == /\ Retries \in Nat
                   /\ Base \in Nat \ {0} /\ Cap \in Nat \ {0}
                   /\ RetryAfters \subseteq Nat

\* What an attempt meets.  "busy": a status of RETRYABLE_STATUS, with or without
\* Retry-After; "refused": a status that is not (404); "unreachable": an error urlopen
\* wraps in URLError; "stalled": TimeoutError; "dropped": the connection is lost while
\* the response is awaited or read (RemoteDisconnected, IncompleteRead,
\* ConnectionResetError), which urllib does not wrap.
NoHeader == -1
Answers  == {[kind |-> "ok"], [kind |-> "refused"], [kind |-> "unreachable"],
             [kind |-> "stalled"], [kind |-> "dropped"]}
            \cup {[kind |-> "busy", after |-> s] : s \in RetryAfters \cup {NoHeader}}

VARIABLES phase,     \* "trying", "sleeping", "returned" or "raised"
          attempt,   \* the attempt at hand, from 0
          met,       \* what the attempts have met
          slept      \* the delays slept

vars == <<phase, attempt, met, slept>>
-----------------------------------------------------------------------------
\* Mutant of Retryable: a status that will not change is retried.
RetryableAny(e) == e.kind # "ok"

\* _is_retryable
Retryable(e) == e.kind \in {"busy", "unreachable", "stalled"}

Least(x, y) == IF y < x THEN y ELSE x

\* _retry_after, or _backoff_seconds
Delay(e, n) ==
    IF e.kind = "busy" /\ e.after # NoHeader THEN e.after ELSE Least(Cap, Base * 2^n)

Init == phase = "trying" /\ attempt = 0 /\ met = << >> /\ slept = << >>

Return == /\ phase = "trying"
          /\ met' = Append(met, [kind |-> "ok"])
          /\ phase' = "returned"
          /\ UNCHANGED <<attempt, slept>>

\* The error is re-raised: not transient, or the budget is spent.
Raise == /\ phase = "trying"
         /\ \E e \in Answers \ {[kind |-> "ok"]} :
               /\ ~ Retryable(e) \/ attempt = Retries
               /\ met' = Append(met, e)
         /\ phase' = "raised"
         /\ UNCHANGED <<attempt, slept>>

BackOff == /\ phase = "trying"
           /\ \E e \in Answers \ {[kind |-> "ok"]} :
                 /\ Retryable(e) /\ attempt # Retries
                 /\ met' = Append(met, e)
                 /\ slept' = Append(slept, Delay(e, attempt))
           /\ phase' = "sleeping"
           /\ UNCHANGED attempt

Wake == /\ phase = "sleeping"
        /\ attempt' = attempt + 1
        /\ phase' = "trying"
        /\ UNCHANGED <<met, slept>>

Next == Return \/ Raise \/ BackOff \/ Wake

Spec == Init /\ [][Next]_vars
-----------------------------------------------------------------------------
(***************************************************************************)
(* Properties.                                                             *)
(***************************************************************************)
TypeOK == /\ phase \in {"trying", "sleeping", "returned", "raised"}
          /\ attempt \in 0..Retries
          /\ met \in Seq(Answers) /\ slept \in Seq(Nat)
          /\ Len(met) = attempt + (IF phase = "trying" THEN 0 ELSE 1)

\* http.py: "Re-raises the last error once the budget is spent, or immediately on an
\* error that is not transient": what ended the attempts was a success, the budget, or
\* an error of no retryable kind, and nothing before it was either.
Transient == {"busy", "unreachable", "stalled"}
GivesUpInTime ==
    phase \in {"returned", "raised"} =>
        /\ \A i \in 1..(Len(met) - 1) : met[i].kind \in Transient
        /\ phase = "raised" /\ met[Len(met)].kind \in Transient => Len(met) = Retries + 1

\* However many failures the attempts have met, a call without Retry-After is never kept
\* waiting longer than Cap a failure, nor hits the server earlier than the doubling
\* schedule says; with it, the server's wish is honored, also that not to wait.
WaitsAsScheduled ==
    \A i \in 1..Len(slept) :
        IF met[i].kind = "busy" /\ met[i].after \in RetryAfters THEN slept[i] = met[i].after
        ELSE slept[i] <= Cap /\ (slept[i] = Cap \/ slept[i] = Base * 2^(i - 1))

RetriesAsPromised == GivesUpInTime /\ WaitsAsScheduled

\* http.py: fetch_bytes "retries the whole open+read for a bounded body - a mid-read
\* drop is retried too".
DropIsRetried ==
    phase = "raised" /\ met[Len(met)].kind = "dropped" => Len(met) = Retries + 1
=============================================================================
