------------------------------ MODULE HttpRetry ------------------------------
(***************************************************************************)
(* One call of HTTPClient.RequestCtx: the attempt loop with its back-off,  *)
(* doOnce's classification of failures, and the caller's context.  The     *)
(* server is external: it may handle a request before or after the client  *)
(* has given the attempt up, and every handling is an effect (for a POST,  *)
(* an order placed).                                                       *)
(***************************************************************************)
EXTENDS Naturals, Sequences

CONSTANTS
    Configs,    \* RetryConfigs to check: [max, base, cap : Nat, repost : BOOLEAN]
    Methods     \* the methods of a request alone

ASSUME HttpAssumption ==
    /\ Configs \subseteq [max : Nat, base : Nat, cap : Nat, repost : BOOLEAN]
    /\ Methods \subseteq {"GET", "POST", "DELETE"}

VARIABLES
    cfg,        \* c.retryCfg
    method,     \* the method of the request
    ctx,        \* the caller's context: "open" or "done"
    pc,         \* where RequestCtx is
    attempts,   \* the loop's bound
    attempt,    \* its counter
    delay,      \* the next wait
    answers,    \* history: how each attempt ended
    handled,    \* the server has handled the attempt in flight
    late,       \* given-up attempts the server may still handle
    effects,    \* history: requests the server has handled
    result      \* what RequestCtx returned

vars == <<cfg, method, ctx, pc, attempts, attempt, delay, answers,
          handled, late, effects, result>>

client == <<attempts, attempt, delay>>

Labels == {"start", "backoff", "send", "flight", "returned"}

\* What doOnce can end with.  status: a code of RetryStatuses; business: any
\* other code but 200; net: a transport error; read: a body cut short;
\* large: a body over 16 MiB; timeout, canceled: the context or a deadline.
Answers == {"ok", "status", "business", "net", "read", "large", "timeout",
            "canceled"}

TypeOK ==
    /\ cfg \in Configs
    /\ method \in {"GET", "POST", "DELETE"}
    /\ ctx \in {"open", "done"}
    /\ pc \in Labels
    /\ attempts \in Nat /\ attempt \in Nat /\ delay \in Nat
    /\ answers \in Seq(Answers)
    /\ late \in Nat /\ effects \in Nat
    /\ handled \in BOOLEAN
    /\ result \in Answers \cup {"none", "exhausted"}

Init ==
    /\ cfg \in Configs
    /\ method \in Methods
    /\ ctx = "open"
    /\ pc = "start"
    /\ attempts = 0
    /\ attempt = 0
    /\ delay = 0
    /\ answers = <<>>
    /\ handled = FALSE
    /\ late = 0
    /\ effects = 0
    /\ result = "none"

\* Mutant: every method is taken for an idempotent one.
AlwaysIdempotent == TRUE

\* GET and HEAD, or whatever the configuration declares repeatable.
Idempotent == method = "GET" \/ cfg.repost

\* The number of attempts: one unless the request may be repeated.
Attempts == IF ~Idempotent \/ cfg.max < 1 THEN 1 ELSE cfg.max

\* delay *= 2, held at MaxDelay when there is one.
NextDelay(d) == IF 2 * d > cfg.cap /\ cfg.cap > 0 THEN cfg.cap ELSE 2 * d

\* Mutant: a business status is retried like the transient ones.
RetryAllStatuses(a) == a \in {"status", "business", "net", "read"}

\* doOnce's second result: transient statuses, transport errors and cut
\* bodies are retried; a cancelled context or a deadline is not.
Retryable(a) == a \in {"status", "net", "read"}

-----------------------------------------------------------------------------

\* Mutant: an empty result is returned.
ReturnUnset(r) == pc' = "returned" /\ result' = "nil"

Return(r) == pc' = "returned" /\ result' = r

\* The loop is set up.
Start ==
    /\ pc = "start"
    /\ attempts' = Attempts
    /\ delay' = cfg.base
    /\ pc' = "send"
    /\ UNCHANGED <<cfg, method, ctx, attempt, answers, handled, late,
                   effects, result>>

\* time.After(delay) fires.
Wait ==
    /\ pc = "backoff"
    /\ delay' = NextDelay(delay)
    /\ pc' = "send"
    /\ UNCHANGED <<cfg, method, ctx, attempts, attempt, answers, handled, late,
                   effects, result>>

\* ctx.Done() while backing off.
WaitCancelled ==
    /\ pc = "backoff"
    /\ ctx = "done"
    /\ Return("canceled")
    /\ UNCHANGED <<cfg, method, ctx, client, answers, handled, late, effects>>

\* doOnce hands the request to the transport, which refuses a dead context.
Send ==
    /\ pc = "send"
    /\ \/ /\ ctx = "open"
          /\ handled' = FALSE
          /\ pc' = "flight"
          /\ UNCHANGED result
       \/ /\ ctx = "done"
          /\ Return("canceled")
          /\ UNCHANGED handled
    /\ UNCHANGED <<cfg, method, ctx, client, answers, late, effects>>

\* The server handles the attempt in flight (external).
Handle ==
    /\ pc = "flight" /\ ~handled
    /\ handled' = TRUE
    /\ effects' = effects + 1
    /\ UNCHANGED <<cfg, method, ctx, pc, client, answers, late, result>>

\* The server handles an attempt the client has given up (external).
HandleLate ==
    /\ late > 0
    /\ late' = late - 1
    /\ effects' = effects + 1
    /\ UNCHANGED <<cfg, method, ctx, pc, client, answers, handled, result>>

\* How the attempt in flight can end: a 200 or an oversized body only if the
\* server handled it, a cancellation only if the caller cancelled.
Possible(a) ==
    /\ a \in {"ok", "large", "read"} => handled
    /\ a = "canceled" => ctx = "done"

\* attempt++ leaves the loop.
Last == attempt + 1 >= attempts

\* doOnce returns: the loop goes on, gives up or is done.
Reply ==
    /\ pc = "flight"
    /\ \E a \in Answers :
         /\ Possible(a)
         /\ answers' = Append(answers, a)
         /\ late' = IF handled \/ a = "business" THEN late ELSE late + 1
         /\ \/ /\ Retryable(a)
               /\ ~Last
               /\ attempt' = attempt + 1
               /\ pc' = "backoff"
               /\ UNCHANGED result
            \/ /\ Retryable(a)
               /\ Last
               /\ Return("exhausted")
               /\ UNCHANGED attempt
            \/ /\ ~Retryable(a)
               /\ Return(a)
               /\ UNCHANGED attempt
    /\ handled' = FALSE
    /\ UNCHANGED <<cfg, method, ctx, attempts, delay, effects>>

\* The caller cancels, or its deadline passes.
Cancel ==
    /\ ctx = "open" /\ pc # "returned"
    /\ ctx' = "done"
    /\ UNCHANGED <<cfg, method, pc, client, answers, handled, late, effects,
                   result>>

Client == Start \/ Wait \/ WaitCancelled \/ Send \/ Reply

Next == Client \/ Handle \/ HandleLate \/ Cancel

Spec == Init /\ [][Next]_vars

\* The goroutine runs, timers fire, and http.Client's 30s timeout ends every
\* attempt; nothing forces the server or the caller.
FairSpec == Spec /\ WF_vars(Client)

-----------------------------------------------------------------------------
(* Properties.                                                             *)

\* A request that must not be repeated takes effect at most once, even when
\* the server handles it after the client has given up.
NonIdempotentOnce == (method # "GET" /\ ~cfg.repost) => effects <= 1

\* A definite answer is final: after a success or a business error (a 4xx)
\* nothing is sent again, and that answer is what the caller gets.
DefiniteAnswerIsFinal ==
    \A i \in DOMAIN answers :
        answers[i] \in {"ok", "business"}
            => i = Len(answers) /\ result = answers[i]
=============================================================================
