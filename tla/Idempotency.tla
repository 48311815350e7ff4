----------------------------- MODULE Idempotency -----------------------------
(***************************************************************************)
(* IdempotencyInterceptor: what stands between a client that repeats a      *)
(* request and a handler that must not run twice.  A request carries a key; *)
(* the interceptor looks the key up in Redis, marks it IN_PROGRESS, runs    *)
(* the handler, and keeps the result under the key or removes the mark.     *)
(*                                                                          *)
(* Every Redis command is atomic and every await between two of them lets   *)
(* other requests in.  Redis outlives a crash of the API process.           *)
(***************************************************************************)
EXTENDS Naturals, FiniteSets

CONSTANTS
    Keys,      \* values of the header Idempotency-Key
    Attempts,  \* HTTP requests clients send, repeated ones included
    Nobody     \* no attempt

ASSUME NobodyIsNew == Nobody \notin Attempts

VARIABLES
    cache,      \* Redis: idempotency:<key>
    stage,      \* where each attempt is in intercept()
    key,        \* the key an attempt carries (any key, until it is sent)
    answer,     \* attempt whose result the client of an attempt was given
    executed,   \* attempts whose handler changed the database
    contested,  \* history: keys two attempts have found vacant together
    expired,    \* history: keys whose entry has reached its TTL
    halfDone,   \* history: keys whose handler threw after a change of it was committed
    orphaned    \* history: keys a crash has left IN_PROGRESS

races == <<contested, expired, halfDone, orphaned>>
cacheVars == <<cache, stage, key, answer, executed, races>>

-----------------------------------------------------------------------------
Vacant == [state |-> "vacant", by |-> Nobody]
\* { status: 102, body: 'IN_PROGRESS' }
InProgress == [state |-> "in progress", by |-> Nobody]
\* A body is identified with the attempt whose handler returned it.
Result(a) == [state |-> "done", by |-> a]
Entries == {Vacant, InProgress} \cup {Result(a) : a \in Attempts}

\* Between the lookup that found the key vacant and the last command for it.
Serving == {"lock", "handle", "keep", "clear"}
Stages == {"unsent", "over"} \cup Serving

At(k, steps) == {a \in Attempts : key[a] = k /\ stage[a] \in steps}
MoveTo(a, step) == stage' = [stage EXCEPT ![a] = step]

InitCache ==
    /\ cache  = [k \in Keys |-> Vacant]
    /\ stage  = [a \in Attempts |-> "unsent"]
    /\ key    \in [Attempts -> Keys]
    /\ answer = [a \in Attempts |-> Nobody]
    /\ executed = {}
    /\ contested = {} /\ expired = {} /\ halfDone = {} /\ orphaned = {}

-----------------------------------------------------------------------------
(* IdempotencyInterceptor.intercept                                          *)

MissingResult(k) == cache[k].state # "done"  \* mutant
\* The cached record is absent.
Missing(k) == cache[k] = Vacant

Miss(a) ==
    /\ stage[a] = "unsent"
    /\ Missing(key[a])
    /\ MoveTo(a, "lock")
    /\ contested' = IF At(key[a], {"lock"}) # {} THEN contested \cup {key[a]} ELSE contested
    /\ UNCHANGED <<cache, key, answer, executed, expired, halfDone, orphaned>>

\* 409: a request with this key is currently processing.
Conflict(a) ==
    /\ stage[a] = "unsent"
    /\ ~Missing(key[a])
    /\ cache[key[a]] = InProgress
    /\ MoveTo(a, "over")
    /\ UNCHANGED <<cache, key, answer, executed, races>>

\* The cached result is served.
Replay(a) ==
    /\ stage[a] = "unsent"
    /\ ~Missing(key[a])
    /\ cache[key[a]].state = "done"
    /\ MoveTo(a, "over")
    /\ answer' = [answer EXCEPT ![a] = cache[key[a]].by]
    /\ UNCHANGED <<cache, key, executed, races>>

Lock(a) ==
    /\ stage[a] = "lock"
    /\ cache' = [cache EXCEPT ![key[a]] = InProgress]
    /\ MoveTo(a, "handle")
    /\ UNCHANGED <<key, answer, executed, races>>

\* The handler commits and returns: tap's async callback sends the body to the
\* client without waiting for the cache.
Return(a) ==
    /\ stage[a] = "handle"
    /\ MoveTo(a, "keep")
    /\ executed' = executed \cup {a}
    /\ answer' = [answer EXCEPT ![a] = a]
    /\ UNCHANGED <<cache, key, races>>

\* It throws, having changed nothing.
Throw(a) ==
    /\ stage[a] = "handle"
    /\ MoveTo(a, "clear")
    /\ UNCHANGED <<cache, key, answer, executed, races>>

\* It throws with a change already committed: one that makes several changes
\* outside a transaction, or whose COMMIT went through unacknowledged.
ThrowHalfDone(a) ==
    /\ stage[a] = "handle"
    /\ MoveTo(a, "clear")
    /\ executed' = executed \cup {a}
    /\ halfDone' = halfDone \cup {key[a]}
    /\ UNCHANGED <<cache, key, answer, contested, expired, orphaned>>

MarkAsOutcome(a) == InProgress         \* mutant
StatusAsOutcome(a) == Result(Nobody)   \* mutant
Outcome(a) == Result(a)

Keep(a) ==
    /\ stage[a] = "keep"
    /\ cache' = [cache EXCEPT ![key[a]] = Outcome(a)]
    /\ MoveTo(a, "over")
    /\ UNCHANGED <<key, answer, executed, races>>

ClearedResult(a) == Result(a)     \* mutant
Cleared(a) == Vacant

Clear(a) ==
    /\ stage[a] = "clear"
    /\ cache' = [cache EXCEPT ![key[a]] = Cleared(a)]
    /\ MoveTo(a, "over")
    /\ UNCHANGED <<key, answer, executed, races>>

-----------------------------------------------------------------------------
(* The environment.                                                          *)

\* The API process dies with every request in it; PostgreSQL rolls back the open
\* transactions and keeps what a handler had committed, Redis keeps its entries.
Crash ==
    /\ \E a \in Attempts : stage[a] \in Serving
    /\ \E committed \in SUBSET {a \in Attempts : stage[a] = "handle"} :
           executed' = executed \cup committed
    /\ stage' = [a \in Attempts |-> IF stage[a] \in Serving THEN "over" ELSE stage[a]]
    /\ orphaned' = orphaned \cup {k \in Keys : cache[k] = InProgress}
    /\ UNCHANGED <<cache, key, answer, contested, expired, halfDone>>

\* 24 hours after the last write of an entry; no request lasts that long.
Lapse(k) ==
    /\ cache[k] # Vacant
    /\ At(k, Serving) = {}
    /\ cache' = [cache EXCEPT ![k] = Vacant]
    /\ expired' = expired \cup {k}
    /\ UNCHANGED <<stage, key, answer, executed, contested, halfDone, orphaned>>

-----------------------------------------------------------------------------
Serve(a) ==
    \/ Lock(a) \/ Return(a) \/ Throw(a) \/ ThrowHalfDone(a) \/ Keep(a) \/ Clear(a)

NextCommand ==
    \/ \E a \in Attempts : Miss(a) \/ Conflict(a) \/ Replay(a) \/ Serve(a)
    \/ Crash
    \/ \E k \in Keys : Lapse(k)

CacheSpec == InitCache /\ [][NextCommand]_cacheVars

\* A handler ends (Prisma limits a transaction to seconds) and Redis answers.  Nothing
\* makes a client repeat a request, a process crash or an entry expire.
FairCacheSpec == CacheSpec /\ \A a \in Attempts : WF_cacheVars(Serve(a))

-----------------------------------------------------------------------------
\* Types: the mark and a result are told apart, a result belongs to an attempt.
CacheTypeOK ==
    /\ cache \in [Keys -> Entries]
    /\ stage \in [Attempts -> Stages]
    /\ key \in [Attempts -> Keys]
    /\ answer \in [Attempts -> Attempts \cup {Nobody}]
    /\ executed \subseteq Attempts
    /\ contested \subseteq Keys /\ expired \subseteq Keys
    /\ halfDone \subseteq Keys /\ orphaned \subseteq Keys

SameKey(a, b) == key[a] = key[b]

\* However often a client repeats a key, whatever crashes, one handler run changes
\* the database - unless the entry expired, a handler threw half done, or two
\* attempts looked the key up before either had marked it.
ExecutedOnce ==
    \A a, b \in executed :
        SameKey(a, b) /\ key[a] \notin contested \cup expired \cup halfDone => a = b

\* A client is only ever answered with the result of a run that did change the
\* database and was asked for under its own key, never with the mark or a failure.
AnsweredTruly ==
    \A a \in Attempts :
        answer[a] # Nobody => answer[a] \in executed /\ SameKey(a, answer[a])

\* A key is marked IN_PROGRESS only while an attempt with it is being served, or
\* after a crash: no interleaving of attempts leaves a mark nobody will remove.
MarkHasOwner ==
    \A k \in Keys : cache[k] = InProgress => k \in orphaned \/ At(k, Serving) # {}

\* "Clear lock on failure so the client can safely retry": without a crash, a key
\* does not stay IN_PROGRESS.
MarkRemoved ==
    \A k \in Keys : cache[k] = InProgress ~> cache[k] # InProgress \/ k \in orphaned

\* "Lock key to prevent concurrent processing": as ExecutedOnce, without leave for
\* attempts that look the key up together.
LockedOut ==
    \A a, b \in executed :
        SameKey(a, b) /\ key[a] \notin expired \cup halfDone => a = b
=============================================================================
