----------------------------- MODULE NodeClient -----------------------------
(***************************************************************************)
(* BitcoinRpcAdapter: how rockshrew-mono asks bitcoind for a block.        *)
(* get_block_info is two requests, getblockhash and getblock, and a check  *)
(* that the body carries the hash.  Every request is retried, may go       *)
(* through an SSH tunnel that all requests share under a lock held for     *)
(* the whole retry loop, and may be authenticated with a cookie file that  *)
(* bitcoind replaces when it restarts and that a process-wide cache keeps. *)
(*                                                                         *)
(* The height asked for is one height at which the node may switch         *)
(* between two blocks.  Cookies and tunnels are numbered in the order they *)
(* are made.  How long a back-off or a cached cookie lasts is left open.   *)
(***************************************************************************)
EXTENDS Naturals, FiniteSets

CONSTANTS
  Callers,        \* tasks with a request under way: fetches, RPC handlers
  Blocks,         \* the blocks the node may have at the height
  Nobody,         \* no task holds the lock
  Attempts,       \* max_retries of request_with_retry, 5 in the code
  MaxFaults,      \* bound: failing calls and broken tunnels
  MaxRotations    \* bound: restarts of bitcoind with a new cookie

ASSUME ClientAssumption ==
  /\ Attempts \in Nat \ {0} /\ MaxFaults \in Nat /\ MaxRotations \in Nat
  /\ Nobody \notin Callers /\ Nobody \notin Blocks

VARIABLES
  conf,       \* what the command line asks for: a tunnel, a cookie file
  best,       \* the node's block at the height
  cookie,     \* the node's current cookie
  faults,     \* faults so far
  breaks,     \* history: how many of them were a tunnel that broke
  call,       \* call[c]: where the task is in get_block_info
  guard,      \* active_tunnel: the holder of its lock and the tunnel kept
  live,       \* the tunnels whose SSH session works
  listeners,  \* the tunnels whose local listener accepts connections
  cache       \* AUTH_CACHE: content, needs_refresh and the holder of its lock

vars == <<conf, best, cookie, faults, breaks, call, guard, live, listeners, cache>>
env == <<conf, best, cookie, faults, breaks>>

None == 0     \* no tunnel, no cookie
Fault == faults < MaxFaults /\ faults' = faults + 1

Asking(stage, hash) ==
  [pc |-> "ask", stage |-> stage, tries |-> 0, tunnel |-> None, sent |-> None,
   answer |-> Nobody, hash |-> hash, body |-> Nobody]
Idle == [Asking("hash", Nobody) EXCEPT !.pc = "idle"]

Init ==
  /\ conf \in [tunnel : BOOLEAN, cookie : BOOLEAN]
  /\ best \in Blocks /\ cookie = 1 /\ faults = 0 /\ breaks = 0
  /\ call = [c \in Callers |-> Idle]
  /\ guard = [by |-> Nobody, tunnel |-> None]
  /\ live = {} /\ listeners = {}
  /\ cache = [content |-> None, refresh |-> FALSE, by |-> Nobody]

At(c, pc) == call[c].pc = pc
Goes(c, pc) == call' = [call EXCEPT ![c].pc = pc]

\* get_block_info: getblockhash first.
Begin(c) ==
  /\ At(c, "idle") /\ call' = [call EXCEPT ![c] = Asking("hash", Nobody)]
  /\ UNCHANGED <<env, guard, live, listeners, cache>>

\* request_with_retry takes the tunnel's lock before the first attempt.
Enter(c) ==
  /\ At(c, "ask") /\ Goes(c, "connect")
  /\ IF conf.tunnel THEN guard.by = Nobody /\ guard' = [guard EXCEPT !.by = c]
                    ELSE UNCHANGED guard
  /\ UNCHANGED <<env, live, listeners, cache>>

Freed == [guard EXCEPT !.by = IF conf.tunnel THEN Nobody ELSE @]

\* What is kept of the tunnel after a response, and after an error.
KeptNever(c) == guard.tunnel
Kept(c) == IF conf.tunnel /\ guard.tunnel = None THEN call[c].tunnel ELSE guard.tunnel
ForgottenNever == guard.tunnel
Forgotten == None

\* A failed attempt: back off and try again, or give up.
Again(c, tunnel) ==
  IF call[c].tries + 1 < Attempts
  THEN /\ call' = [call EXCEPT ![c].pc = "connect", ![c].tries = @ + 1,
                                ![c].tunnel = None, ![c].sent = None]
       /\ guard' = [guard EXCEPT !.tunnel = tunnel]
  ELSE /\ Goes(c, "failed")
       /\ guard' = [Freed EXCEPT !.tunnel = tunnel]
Fails(c) == Again(c, Forgotten)

\* The tunnel that is there is used without a look at its session.
Reuse(c) ==
  /\ At(c, "connect") /\ (conf.tunnel => guard.tunnel # None)
  /\ call' = [call EXCEPT ![c].pc = "auth", ![c].tunnel = guard.tunnel]
  /\ UNCHANGED <<env, guard, live, listeners, cache>>

\* SshTunnel::create: a session and a listener on a port that is free; the
\* task that accepts on it is detached and outlives the tunnel.
Create(c) ==
  LET t == Cardinality(listeners) + 1 IN
  /\ At(c, "connect") /\ conf.tunnel /\ guard.tunnel = None
  /\ listeners' = listeners \cup {t} /\ live' = live \cup {t}
  /\ call' = [call EXCEPT ![c].pc = "auth", ![c].tunnel = t]
  /\ UNCHANGED <<env, guard, cache>>
CreateFails(c) ==
  /\ At(c, "connect") /\ conf.tunnel /\ guard.tunnel = None
  /\ Fault /\ Fails(c)
  /\ UNCHANGED <<conf, best, cookie, breaks, live, listeners, cache>>

\* AuthCache::get: the cached cookie, or the file read under the cache's lock.
\* A cookie older than an hour is read again; the clock is left open.
NeedsRefresh == cache.refresh \/ cache.content = None
Authenticate(c) ==
  /\ At(c, "auth") /\ ~conf.cookie /\ Goes(c, "send")
  /\ UNCHANGED <<env, guard, live, listeners, cache>>
CachedCookie(c) ==
  /\ At(c, "auth") /\ conf.cookie /\ cache.by = Nobody /\ ~NeedsRefresh
  /\ call' = [call EXCEPT ![c].pc = "send", ![c].sent = cache.content]
  /\ UNCHANGED <<env, guard, live, listeners, cache>>
ReadCookie(c) ==
  /\ At(c, "auth") /\ conf.cookie /\ cache.by = Nobody
  /\ cache' = [cache EXCEPT !.by = c]
  /\ call' = [call EXCEPT ![c].pc = "reading", ![c].sent = cookie]
  /\ UNCHANGED <<env, guard, live, listeners>>
ReadFails(c) ==
  /\ At(c, "reading") /\ Fault /\ Fails(c)
  /\ cache' = [cache EXCEPT !.by = Nobody]
  /\ UNCHANGED <<conf, best, cookie, breaks, live, listeners>>
StoreCookie(c) ==
  /\ At(c, "reading") /\ Goes(c, "send")
  /\ cache' = [content |-> call[c].sent, refresh |-> FALSE, by |-> Nobody]
  /\ UNCHANGED <<env, guard, live, listeners>>

\* The node answers the hash of the height, or the body of a hash.
Answer(c, a) ==
  /\ At(c, "send") /\ (conf.tunnel => call[c].tunnel \in live)
  /\ (conf.cookie => call[c].sent = cookie)
  /\ call' = [call EXCEPT ![c].pc = "answer", ![c].answer = a]
  /\ UNCHANGED <<guard, live, listeners, cache>>
NodeAnswers(c) ==
  /\ Answer(c, IF call[c].stage = "hash" THEN best ELSE call[c].hash)
  /\ UNCHANGED env
\* A proxy in front of the node hands out another block's body.
WrongBody(c) ==
  /\ At(c, "send") /\ call[c].stage = "body" /\ Fault
  /\ \E b \in Blocks \ {call[c].hash} : Answer(c, b)
  /\ UNCHANGED <<conf, best, cookie, breaks>>
\* Something that is no JSON comes back: the tunnel is kept.
Garbled(c) ==
  /\ At(c, "send") /\ (conf.tunnel => call[c].tunnel \in live)
  /\ Fault /\ Again(c, Kept(c))
  /\ UNCHANGED <<conf, best, cookie, breaks, live, listeners, cache>>
\* 401: the body is no JSON either, and the cache is told to read again.
Refused(c) ==
  /\ At(c, "send") /\ (conf.tunnel => call[c].tunnel \in live)
  /\ conf.cookie /\ call[c].sent # cookie /\ Goes(c, "refused")
  /\ UNCHANGED <<env, guard, live, listeners, cache>>
MarkedNever == cache.refresh
Marked == TRUE
Refresh(c) ==
  /\ At(c, "refused") /\ Again(c, Kept(c))
  /\ cache' = [cache EXCEPT !.refresh = Marked]
  /\ UNCHANGED <<env, live, listeners>>
\* No connection or a time-out; and the tunnel's session may be gone.
SendFails(c) ==
  /\ At(c, "send") /\ Fault /\ Fails(c)
  /\ UNCHANGED <<conf, best, cookie, breaks, live, listeners, cache>>
TunnelGone(c) ==
  /\ At(c, "send") /\ conf.tunnel /\ call[c].tunnel \notin live /\ Fails(c)
  /\ UNCHANGED <<env, live, listeners, cache>>

\* verify_block_hash.
VerifiedBlindly(hash, body) == TRUE
Verified(hash, body) == hash = body
Receive(c) ==
  LET k == call[c] IN
  /\ At(c, "answer")
  /\ guard' = [Freed EXCEPT !.tunnel = Kept(c)]
  /\ IF k.stage = "hash" THEN call' = [call EXCEPT ![c] = Asking("body", k.answer)]
     ELSE IF Verified(k.hash, k.answer)
          THEN call' = [call EXCEPT ![c].pc = "done", ![c].body = k.answer]
          ELSE Goes(c, "failed")
  /\ UNCHANGED <<env, live, listeners, cache>>
\* The tunnel broke before all of the body was there: json().await fails, and
\* the dead tunnel is kept for the next attempt.
CutShort(c) ==
  /\ At(c, "answer") /\ conf.tunnel /\ call[c].tunnel \notin live
  /\ Again(c, Kept(c))
  /\ UNCHANGED <<env, live, listeners, cache>>
\* The node knows no such block: a JSON error, which is not retried.
Missing(c) ==
  /\ At(c, "answer") /\ Fault /\ Goes(c, "failed")
  /\ guard' = [Freed EXCEPT !.tunnel = Kept(c)]
  /\ UNCHANGED <<conf, best, cookie, breaks, live, listeners, cache>>

\* The fetcher has the block, or logs the error and asks again.
Return(c) ==
  /\ (At(c, "done") \/ At(c, "failed")) /\ call' = [call EXCEPT ![c] = Idle]
  /\ UNCHANGED <<env, guard, live, listeners, cache>>

\* The node switches branches, restarts with a new cookie; the SSH session dies.
Switch ==
  /\ Fault /\ best' \in Blocks \ {best}
  /\ UNCHANGED <<conf, cookie, breaks, call, guard, live, listeners, cache>>
Rotate ==
  /\ conf.cookie /\ cookie <= MaxRotations /\ cookie' = cookie + 1
  /\ UNCHANGED <<conf, best, faults, breaks, call, guard, live, listeners, cache>>
TunnelBreaks ==
  /\ Fault /\ breaks' = breaks + 1
  /\ \E t \in live : live' = live \ {t}
  /\ UNCHANGED <<conf, best, cookie, call, guard, listeners, cache>>

UsesCookie(c) == CachedCookie(c) \/ ReadCookie(c)
Works(c) ==
  \/ Begin(c) \/ Reuse(c) \/ Create(c) \/ Authenticate(c) \/ StoreCookie(c)
  \/ NodeAnswers(c) \/ Refused(c) \/ Refresh(c) \/ TunnelGone(c)
  \/ CutShort(c) \/ Receive(c) \/ Return(c)
Breaks(c) ==
  \/ CreateFails(c) \/ ReadFails(c) \/ WrongBody(c) \/ Garbled(c)
  \/ SendFails(c) \/ Missing(c)

Next ==
  \/ \E c \in Callers : Works(c) \/ Enter(c) \/ UsesCookie(c) \/ Breaks(c)
  \/ Switch \/ Rotate \/ TunnelBreaks

\* tokio runs every task, and its mutex serves the tasks in the order they
\* came, so a task that waits for a lock gets it (SF); the number of faults is
\* bounded, so the node answers in the end.
Fairness == \A c \in Callers :
  WF_vars(Works(c)) /\ SF_vars(Enter(c)) /\ SF_vars(UsesCookie(c))
Spec == Init /\ [][Next]_vars /\ Fairness
-----------------------------------------------------------------------------
\* The block handed to the indexer is the one whose hash goes with it, although
\* hash and body are two requests and the node may switch in between.
BlockIsTheOneNamed ==
  \A c \in Callers : At(c, "done") => call[c].body = call[c].hash

\* An attempt is lost only to a fault or to a new cookie.  One new cookie costs
\* a request two attempts at most: its own refusal, and a second one when another
\* task, which had read the old file, overwrote the refresh mark.  So does a
\* tunnel that breaks under a response: the body that is cut short, and the next
\* attempt, which is sent through the dead tunnel.  Other faults cost one.
FailsForCause ==
  \A c \in Callers :
    call[c].tries + (IF At(c, "failed") THEN 1 ELSE 0) <= faults + breaks + 2 * (cookie - 1)

\* Listeners are never closed, so a new one must have a reason: the tunnels made
\* are one and one more for every fault, however many requests there are.
TunnelsBounded == Cardinality(listeners) <= 1 + faults

\* Whatever broke - the tunnel, the cookie, a call - once the node is there for
\* good every task that asks for a block gets one, again and again.
Served == \A c \in Callers : []<>At(c, "done")
=============================================================================
