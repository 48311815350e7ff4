----------------------------- MODULE AuthTokens ------------------------------
(***************************************************************************)
(* Staff sign-in and the rotation of refresh tokens: AuthService, whose    *)
(* refresh tokens are entries in Redis, against updates of the staff row in *)
(* PostgreSQL.  Nothing makes the two stores one transaction, and a request *)
(* runs an await at a time.                                                 *)
(*                                                                          *)
(* A refresh token is named by its tokenId.  Its entry holds the hash of    *)
(* the one token signed with that id, so that an entry that is there        *)
(* matches.  A request that is refused before it writes leaves no trace.    *)
(***************************************************************************)
EXTENDS Integers, FiniteSetsExt

CONSTANTS
    Users,      \* ids of staff users
    Tokens,     \* token ids that can be drawn (bounds the pairs issued)
    Sessions,   \* requests that may be in progress at once
    Passwords,  \* passwords a user can have
    None        \* no user, no token

ASSUME SessionsFinite == IsFiniteSet(Sessions)
\* They are UUIDs.
ASSUME TokensFinite == IsFiniteSet(Tokens)
ASSUME NoneIsNew == None \notin Users \cup Tokens

VARIABLES
    active,    \* staff_user.is_active
    password,  \* the password behind staff_user.password_hash
    store,     \* tokens whose entry is in Redis
    owner,     \* the user a token was signed for, None before it is
    known,     \* tokens that reached a client and that verify: signed, not past their exp
    pc,        \* where each session is in its handler
    req,       \* the request it serves
    chain,     \* history: the token of the sign-in a token descends from
    exchanged, \* history: the pairs issued in exchange for a token
    peak,      \* history: the most refreshes with a token in progress at once
    lost       \* history: chains that expired, or lost a token to a failure

staff   == <<active, password>>
tokens  == <<owner, known>>
history == <<chain, exchanged, peak, lost>>
vars == <<staff, store, tokens, pc, req, history>>

-----------------------------------------------------------------------------
Steps == {"idle", "verify", "lookup", "reject", "remove", "store", "answer", "forget"}

\* A request: the user it is for, the password given and the one read, the token it
\* exchanges, the one it is issued, and (history) whether the user was updated meanwhile.
Request == [op : {"none", "signin", "refresh", "logout"}, user : Users \cup {None},
            given : Passwords \cup {None}, seen : Passwords \cup {None},
            token : Tokens \cup {None}, new : Tokens \cup {None}, crossed : BOOLEAN]
NoRequest == [op |-> "none", user |-> None, given |-> None, seen |-> None,
              token |-> None, new |-> None, crossed |-> FALSE]

Begin(s, step, r) == /\ pc[s] = "idle"
                     /\ pc'  = [pc EXCEPT ![s] = step]
                     /\ req' = [req EXCEPT ![s] = r]
Goto(s, step) == pc' = [pc EXCEPT ![s] = step]
Finish(s) == /\ Goto(s, "idle")
             /\ req' = [req EXCEPT ![s] = NoRequest]

\* Refreshes with token t in progress, and those of them that have found it.
Refreshing(t) == {s \in Sessions : req[s].op = "refresh" /\ req[s].token = t}
Rotating(t)   == {s \in Refreshing(t) : pc[s] \in {"remove", "store"}}

-----------------------------------------------------------------------------
Init ==
    /\ active    \in [Users -> BOOLEAN]
    /\ password  \in [Users -> Passwords]
    /\ store     = {}
    /\ owner     = [t \in Tokens |-> None]
    /\ known     = {}
    /\ pc        = [s \in Sessions |-> "idle"]
    /\ req       = [s \in Sessions |-> NoRequest]
    /\ chain     = [t \in Tokens |-> None]
    /\ exchanged = [t \in Tokens |-> 0]
    /\ peak      = [t \in Tokens |-> 0]
    /\ lost      = {}

-----------------------------------------------------------------------------
(* signin                                                                   *)

MayEnterAlways(u) == TRUE                                                              \* mutant
\* The row as it is read: the user is active.
MayEnter(u) == active[u]

\* The row is read; argon.verify then works on what was read.
StartSignin(s) ==
    /\ \E u \in Users, p \in Passwords :
          /\ MayEnter(u)
          /\ Begin(s, "verify", [NoRequest EXCEPT !.op = "signin", !.user = u,
                                                  !.given = p, !.seen = password[u]])
    /\ UNCHANGED <<staff, store, tokens, history>>

VerifyPassword(s) ==
    /\ pc[s] = "verify"
    /\ \/ req[s].given = req[s].seen /\ Goto(s, "store") /\ UNCHANGED req
       \/ req[s].given # req[s].seen /\ Finish(s)
    /\ UNCHANGED <<staff, store, tokens, history>>

-----------------------------------------------------------------------------
(* refreshTokens                                                            *)

StartRefresh(s) ==
    /\ \E t \in known :
          /\ MayEnter(owner[t])
          /\ Begin(s, "lookup", [NoRequest EXCEPT !.op = "refresh", !.user = owner[t], !.token = t])
          /\ peak' = [peak EXCEPT ![t] = IF Cardinality(Refreshing(t)) + 1 > @
                                         THEN Cardinality(Refreshing(t)) + 1 ELSE @]
    /\ UNCHANGED <<staff, store, tokens, chain, exchanged, lost>>

FoundBySignature(s) == owner[req[s].token] = req[s].user                               \* mutant
Found(s) == req[s].token \in store

Lookup(s) ==
    /\ pc[s] = "lookup"
    /\ Goto(s, IF Found(s) THEN "remove" ELSE "reject")
    /\ UNCHANGED <<staff, store, tokens, req, history>>

\* The cache answers a failed get as one that finds nothing.
LookupFails(s) ==
    /\ pc[s] = "lookup"
    /\ Found(s)
    /\ Goto(s, "reject")
    /\ lost' = lost \cup {chain[req[s].token]}
    /\ UNCHANGED <<staff, store, tokens, req, chain, exchanged, peak>>

RejectedAll(s) == {t \in Tokens : owner[t] = req[s].user}                              \* mutant
\* The keys that are deleted when the token is not found, or does not match.
Rejected(s) == {req[s].token}

Reject(s) ==
    /\ pc[s] = "reject"
    /\ store' = store \ Rejected(s)
    /\ Finish(s)
    /\ UNCHANGED <<staff, tokens, history>>

RemovedNothing(s) == {}                                                                \* mutant
\* The keys that are deleted on rotation.
Removed(s) == {req[s].token}

Remove(s) ==
    /\ pc[s] = "remove"
    /\ store' = store \ Removed(s)
    /\ Goto(s, "store")
    /\ UNCHANGED <<staff, tokens, req, history>>

-----------------------------------------------------------------------------
(* generateTokens                                                           *)

SubjectOfSignin(s) == IF req[s].op = "signin" THEN req[s].user ELSE None               \* mutant
Subject(s) == req[s].user

\* A fresh token is signed, and its entry written.
Store(s) ==
    /\ pc[s] = "store"
    /\ \E t \in Tokens :
          /\ owner[t] = None
          /\ owner' = [owner EXCEPT ![t] = Subject(s)]
          /\ store' = store \cup {t}
          /\ req'   = [req EXCEPT ![s].new = t]
          /\ chain' = [chain EXCEPT ![t] = IF req[s].op = "refresh" THEN chain[req[s].token] ELSE t]
    /\ exchanged' = IF req[s].op = "refresh" THEN [exchanged EXCEPT ![req[s].token] = @ + 1]
                                             ELSE exchanged
    /\ Goto(s, "answer")
    /\ UNCHANGED <<staff, known, peak, lost>>

Answer(s) ==
    /\ pc[s] = "answer"
    /\ known' = known \cup {req[s].new}
    /\ Finish(s)
    /\ UNCHANGED <<staff, store, owner, history>>

-----------------------------------------------------------------------------
(* logout                                                                   *)

\* The access token carries no tokenId and JwtStrategy.validate returns none, so the
\* key is built with an empty one.
LogoutToken(s) == req[s].token

StartLogout(s) ==
    /\ \E u \in {owner[t] : t \in known} :
          Begin(s, "forget", [NoRequest EXCEPT !.op = "logout", !.user = u])
    /\ UNCHANGED <<staff, store, tokens, history>>

Forget(s) ==
    /\ pc[s] = "forget"
    /\ store' = store \ {LogoutToken(s)}
    /\ Finish(s)
    /\ UNCHANGED <<staff, tokens, history>>

-----------------------------------------------------------------------------
(* What else happens.                                                       *)

\* StaffUserService.updateStaff: activation, deactivation, a new password.
UpdateStaff(u) ==
    /\ active'   \in {[active EXCEPT ![u] = a] : a \in BOOLEAN}
    /\ password' \in {[password EXCEPT ![u] = p] : p \in Passwords}
    /\ req' = [s \in Sessions |-> IF req[s].user = u THEN [req[s] EXCEPT !.crossed = TRUE] ELSE req[s]]
    /\ UNCHANGED <<store, tokens, pc, history>>

\* The time to live of an entry is over.
Expire(t) ==
    /\ t \in store
    /\ store' = store \ {t}
    /\ lost'  = lost \cup {chain[t]}
    /\ UNCHANGED <<staff, tokens, pc, req, chain, exchanged, peak>>

\* The token is past the exp it was signed with (JWT_REFRESH_EXPIRATION; the time to
\* live of its entry is another, fixed one), which the guard of the route checks.
Outdate(t) ==
    /\ t \in known
    /\ known' = known \ {t}
    /\ lost'  = lost \cup {chain[t]}
    /\ UNCHANGED <<staff, store, owner, pc, req, chain, exchanged, peak>>

\* Redis or the process fails, or the answer is lost on its way.  A refresh that had
\* removed the old token, or stored the new one, leaves the client without.
Fail(s) ==
    /\ pc[s] # "idle"
    /\ lost' = IF req[s].op = "refresh" /\ pc[s] \in {"store", "answer"}
               THEN lost \cup {chain[req[s].token]} ELSE lost
    /\ Finish(s)
    /\ UNCHANGED <<staff, store, tokens, chain, exchanged, peak>>

-----------------------------------------------------------------------------
Start(s)    == StartSignin(s) \/ StartRefresh(s) \/ StartLogout(s)
Continue(s) == VerifyPassword(s) \/ Lookup(s) \/ LookupFails(s) \/ Reject(s) \/ Remove(s)
               \/ Store(s) \/ Answer(s) \/ Forget(s)

Next == \/ \E s \in Sessions : Start(s) \/ Continue(s) \/ Fail(s)
        \/ \E u \in Users : UpdateStaff(u)
        \/ \E t \in Tokens : Expire(t) \/ Outdate(t)

Spec == Init /\ [][Next]_vars

-----------------------------------------------------------------------------
(* PROPERTIES *)

TypeOK ==
    /\ active \in [Users -> BOOLEAN]
    /\ password \in [Users -> Passwords]
    /\ store \subseteq Tokens
    /\ owner \in [Tokens -> Users \cup {None}]
    /\ \A t \in store \cup known : owner[t] # None
    /\ known \subseteq Tokens
    /\ pc \in [Sessions -> Steps]
    /\ req \in [Sessions -> Request]
    /\ chain \in [Tokens -> Tokens \cup {None}]
    /\ exchanged \in [Tokens -> Nat]
    /\ peak \in [Tokens -> Nat]
    /\ lost \subseteq Tokens

\* Rotation ("Invalidate old token (Rotation)", auth.service.ts:94): a token is
\* exchanged for no more pairs than refreshes with it were in progress at once.  The
\* entry is read and removed in two awaits, so two at once may both get a pair; one
\* that comes after them gets none.
RotatedOnce == \A t \in Tokens : exchanged[t] <= peak[t]

\* A sign-in is followed by one line of tokens: at most one of them can be exchanged,
\* or is about to be issued, unless some token of the line was exchanged twice.
Live(c)     == {t \in store : chain[t] = c}
Underway(c) == {s \in Sessions : req[s].op = "refresh" /\ pc[s] = "store" /\ chain[req[s].token] = c}
OneLine ==
    \A c \in Tokens :
        (\A t \in Tokens : chain[t] = c => Cardinality(Rotating(t)) + exchanged[t] <= 1)
            => Cardinality(Live(c)) + Cardinality(Underway(c)) <= 1

\* A client that has signed in holds a token that can be exchanged, or is being served
\* one, until a token or its entry expires, a lookup fails, or a request fails between the
\* removal of a token and the delivery of the next.  No other request ends its session: not
\* a second refresh with the same token, which is rejected, nor a deactivation, nor a logout.
SessionKept ==
    \A c \in {chain[t] : t \in known} \ lost :
        \/ \E t \in known \cap store : chain[t] = c
        \/ \E s \in Sessions : /\ req[s].op = "refresh" /\ chain[req[s].token] = c
                               /\ \/ pc[s] = "store"
                                  \/ pc[s] = "answer" /\ req[s].new \in store

\* A pair is issued to a user who is active, and on sign-in for the password the user
\* has, unless the user was updated while the request was in progress: is_active and
\* password_hash are read once, before argon.verify and the calls of Redis.
IssuedCurrent ==
    \A s \in Sessions : pc[s] \in {"store", "answer"} /\ ~req[s].crossed =>
        /\ active[req[s].user]
        /\ req[s].op = "signin" => req[s].given = password[req[s].user]

-----------------------------------------------------------------------------
(* The inductive invariant behind the properties above.                     *)

\* The step, the operation and the locals of a session fit each other.
LocalsFit ==
    \A s \in Sessions :
        LET r == req[s]
        IN  /\ pc[s] = "idle" => r = NoRequest
            /\ pc[s] = "verify" => r.op = "signin"
            /\ pc[s] \in {"lookup", "reject", "remove"} => r.op = "refresh"
            /\ pc[s] \in {"store", "answer"} => r.op \in {"signin", "refresh"}
            /\ pc[s] = "forget" => r.op = "logout"
            /\ r.op # "none" => r.user # None
            /\ r.op = "refresh" => r.token \in Tokens /\ owner[r.token] # None
            /\ r.op = "logout" => r.token = None
            /\ pc[s] \in {"store", "answer"} /\ r.op = "signin" => r.given = r.seen
            /\ pc[s] = "answer" => r.new \in Tokens /\ owner[r.new] # None

\* A token that was signed is of the line of some sign-in.
SignedInLine == \A t \in Tokens : owner[t] # None <=> chain[t] # None

\* A line starts with the token of a sign-in, and every exchange of a token of the line
\* adds one token to it: over the line, tokens less exchanges make 1.
LineBalance(c) == [t \in Tokens |-> IF chain[t] = c THEN 1 - exchanged[t] ELSE 0]
LinesAddUp ==
    /\ \A t \in Tokens : chain[t] # None => chain[chain[t]] = chain[t]
    /\ \A c \in Tokens : SumFunctionOnSet(LineBalance(c), Tokens) = IF chain[c] = c THEN 1 ELSE 0

\* A token whose entry is there has not been exchanged, and a token that was removed, or
\* rejected for want of an entry, never gets its entry back.
SpentStaysOut ==
    /\ \A t \in Tokens : t \in store \/ owner[t] = None => exchanged[t] = 0
    /\ \A s \in Sessions :
           /\ pc[s] = "reject" => req[s].token \notin store \/ chain[req[s].token] \in lost
           /\ pc[s] = "store" /\ req[s].op = "refresh" => req[s].token \notin store

\* Refreshes that have found a token count as exchanges of it.
ExchangesCounted ==
    \A t \in Tokens : /\ Cardinality(Refreshing(t)) <= peak[t]
                      /\ exchanged[t] + Cardinality(Rotating(t)) <= peak[t]

\* A token that is on its way to its client continues the line of the one exchanged
\* for it, its entry is there unless it expired, and nobody else has the token yet.
NewFits ==
    /\ \A s \in Sessions : pc[s] = "answer" =>
           /\ req[s].new \notin known
           /\ req[s].new \in store \/ chain[req[s].new] \in lost
           /\ req[s].op = "refresh" => chain[req[s].new] = chain[req[s].token]
    /\ \A s, t \in Sessions : pc[s] = "answer" =>
           /\ pc[t] = "answer" /\ req[s].new = req[t].new => s = t
           /\ req[t].op = "refresh" => req[t].token # req[s].new

\* What a request has read of its user still holds, unless the user was updated.
ReadCurrent ==
    \A s \in Sessions : req[s].op \in {"signin", "refresh"} /\ ~req[s].crossed =>
        /\ active[req[s].user]
        /\ req[s].op = "signin" => req[s].seen = password[req[s].user]

IInv == /\ TypeOK
        /\ LocalsFit
        /\ SignedInLine
        /\ LinesAddUp
        /\ SpentStaysOut
        /\ ExchangesCounted
        /\ NewFits
        /\ ReadCurrent
        /\ SessionKept
=============================================================================
