----------------------------- MODULE RedisProofs ------------------------------
(***************************************************************************)
(* Proofs about the two components that keep their state in Redis:          *)
(* AuthTokens, the refresh tokens of staff users, and Idempotency, the      *)
(* results of requests.  They share no variable; each has its own inductive *)
(* invariant, for any number of tokens, sessions, keys and attempts.        *)
(***************************************************************************)
EXTENDS AuthTokens, Idempotency, SumTheorems, FiniteSetTheorems, TLAPS

-----------------------------------------------------------------------------
(* AUTHTOKENS                                                               *)

Act(s) == Start(s) \/ Continue(s) \/ Fail(s)

LEMMA StepCases ==
    ASSUME [Next]_vars
    PROVE  \/ UNCHANGED vars
           \/ \E s \in Sessions : Act(s)
           \/ \E u \in Users : UpdateStaff(u)
           \/ \E t \in Tokens : Expire(t) \/ Outdate(t)
BY DEF Next, Act

LEMMA ActCases ==
    ASSUME NEW s \in Sessions, Act(s)
    PROVE  \/ StartSignin(s) \/ StartRefresh(s) \/ StartLogout(s) \/ VerifyPassword(s)
           \/ Lookup(s) \/ LookupFails(s) \/ Reject(s) \/ Remove(s) \/ Store(s) \/ Answer(s)
           \/ Forget(s) \/ Fail(s)
BY DEF Act, Start, Continue

\* The fields of a request are of their types.
LEMMA Fields ==
    ASSUME TypeOK, NEW s \in Sessions
    PROVE  /\ req[s] \in Request
           /\ req[s].user \in Users \cup {None} /\ req[s].token \in Tokens \cup {None}
           /\ req[s].given \in Passwords \cup {None} /\ req[s].seen \in Passwords \cup {None}
           /\ req[s].new \in Tokens \cup {None} /\ req[s].crossed \in BOOLEAN
BY DEF TypeOK, Request

\* The requests as they begin.
SigninRequest(u, p) == [NoRequest EXCEPT !.op = "signin", !.user = u, !.given = p, !.seen = password[u]]
RefreshRequest(t)   == [NoRequest EXCEPT !.op = "refresh", !.user = owner[t], !.token = t]
LogoutRequest(u)    == [NoRequest EXCEPT !.op = "logout", !.user = u]

LEMMA NoRequestTyped == NoRequest \in Request
BY DEF NoRequest, Request

\* What a step does to the request of s, and that it leaves the others alone.
LEMMA RequestStep ==
    ASSUME TypeOK, NEW s \in Sessions, Act(s)
    PROVE  /\ pc' \in [Sessions -> Steps] /\ req' \in [Sessions -> Request]
           /\ \A x \in Sessions \ {s} : pc'[x] = pc[x] /\ req'[x] = req[x]
<1>0. pc \in [Sessions -> Steps] /\ req \in [Sessions -> Request]
  BY DEF TypeOK
<1>1. ASSUME NEW step \in Steps, NEW r \in Request,
             pc' = [pc EXCEPT ![s] = step], req' = [req EXCEPT ![s] = r]
      PROVE  /\ pc' \in [Sessions -> Steps] /\ req' \in [Sessions -> Request]
             /\ \A x \in Sessions \ {s} : pc'[x] = pc[x] /\ req'[x] = req[x]
  BY <1>0, <1>1
<1>2. {"idle", "verify", "lookup", "reject", "remove", "store", "answer", "forget"} \subseteq Steps
  BY DEF Steps
<1>3. CASE StartSignin(s)
  <2>1. PICK u \in Users, p \in Passwords : Begin(s, "verify", SigninRequest(u, p))
    BY <1>3 DEF StartSignin, SigninRequest
  <2>2. SigninRequest(u, p) \in Request
    BY DEF SigninRequest, NoRequest, Request, TypeOK
  <2> QED BY <1>1, <1>2, <2>1, <2>2 DEF Begin
<1>4. CASE StartRefresh(s)
  <2>1. PICK t \in known : Begin(s, "lookup", RefreshRequest(t))
    BY <1>4 DEF StartRefresh, RefreshRequest
  <2>2. RefreshRequest(t) \in Request
    BY DEF RefreshRequest, NoRequest, Request, TypeOK
  <2> QED BY <1>1, <1>2, <2>1, <2>2 DEF Begin
<1>5. CASE StartLogout(s)
  <2>1. PICK t \in known : Begin(s, "forget", LogoutRequest(owner[t]))
    BY <1>5 DEF StartLogout, LogoutRequest
  <2>2. LogoutRequest(owner[t]) \in Request
    BY DEF LogoutRequest, NoRequest, Request, TypeOK
  <2> QED BY <1>1, <1>2, <2>1, <2>2 DEF Begin
<1>6. CASE Store(s)
  <2>1. PICK t \in Tokens : req' = [req EXCEPT ![s].new = t]
    BY <1>6 DEF Store
  <2>2. [req[s] EXCEPT !.new = t] \in Request
    BY <1>0 DEF Request
  <2>3. req' = [req EXCEPT ![s] = [req[s] EXCEPT !.new = t]]
    BY <2>1
  <2> QED BY <1>1, <1>2, <1>6, <2>2, <2>3 DEF Store, Goto
<1>7. CASE Finish(s)
  BY <1>1, <1>2, <1>7, NoRequestTyped DEF Finish, Goto
<1>8. ASSUME NEW step \in Steps, pc' = [pc EXCEPT ![s] = step], req' = req
      PROVE  /\ pc' \in [Sessions -> Steps] /\ req' \in [Sessions -> Request]
             /\ \A x \in Sessions \ {s} : pc'[x] = pc[x] /\ req'[x] = req[x]
  BY <1>0, <1>8
<1>9. CASE VerifyPassword(s) \/ Lookup(s) \/ LookupFails(s) \/ Remove(s)
  BY <1>2, <1>7, <1>8, <1>9 DEF VerifyPassword, Lookup, LookupFails, Remove, Goto
<1>10. CASE Reject(s) \/ Answer(s) \/ Forget(s) \/ Fail(s)
  BY <1>7, <1>10 DEF Reject, Answer, Forget, Fail
<1> QED BY <1>3, <1>4, <1>5, <1>6, <1>9, <1>10, ActCases

-----------------------------------------------------------------------------
(* Types                                                                    *)

\* The fields of the requests after an update of user u.
LEMMA CrossedStep ==
    ASSUME TypeOK, NEW u \in Users, UpdateStaff(u)
    PROVE  /\ req' \in [Sessions -> Request] /\ UNCHANGED <<store, tokens, pc, history>>
           /\ \A s \in Sessions :
                 /\ req'[s].op = req[s].op /\ req'[s].user = req[s].user /\ req'[s].token = req[s].token
                 /\ req'[s].given = req[s].given /\ req'[s].seen = req[s].seen /\ req'[s].new = req[s].new
                 /\ req[s].crossed => req'[s].crossed
                 /\ req[s].user # u => req'[s] = req[s]
                 /\ req[s].user = u => req'[s].crossed
<1>1. ASSUME NEW s \in Sessions
      PROVE  /\ req'[s] \in Request
             /\ req'[s].op = req[s].op /\ req'[s].user = req[s].user /\ req'[s].token = req[s].token
             /\ req'[s].given = req[s].given /\ req'[s].seen = req[s].seen /\ req'[s].new = req[s].new
             /\ req[s].crossed => req'[s].crossed
             /\ req[s].user # u => req'[s] = req[s]
             /\ req[s].user = u => req'[s].crossed
  <2>1. req[s] \in Request
    BY Fields
  <2>2. req'[s] = IF req[s].user = u THEN [req[s] EXCEPT !.crossed = TRUE] ELSE req[s]
    BY DEF UpdateStaff
  <2>3. CASE req[s].user = u
    <3>1. req'[s] = [req[s] EXCEPT !.crossed = TRUE]
      BY <2>2, <2>3
    <3> QED BY <2>1, <2>3, <3>1 DEF Request
  <2>4. CASE req[s].user # u
    <3>1. req'[s] = req[s]
      BY <2>2, <2>4
    <3> QED BY <2>1, <2>4, <3>1
  <2> QED BY <2>3, <2>4
<1>2. req' \in [Sessions -> Request]
  BY <1>1 DEF UpdateStaff
<1> QED BY <1>1, <1>2 DEF UpdateStaff

LEMMA TypeStep == ASSUME IInv, [Next]_vars PROVE TypeOK'
<1>0. TypeOK /\ LocalsFit
  BY DEF IInv
<1>z. SignedInLine
  BY DEF IInv
<1>1. CASE UNCHANGED vars
  BY <1>0, <1>1 DEF vars, staff, tokens, history, TypeOK
<1>2. ASSUME NEW s \in Sessions, Act(s) PROVE TypeOK'
  <2>1. pc' \in [Sessions -> Steps] /\ req' \in [Sessions -> Request]
    BY <1>0, <1>2, RequestStep
  <2>2. CASE StartSignin(s) \/ StartLogout(s) \/ VerifyPassword(s) \/ Lookup(s)
    BY <1>0, <2>1, <2>2 DEF StartSignin, StartLogout, VerifyPassword, Lookup, LookupFails, staff, tokens, history, TypeOK
  <2>3. CASE StartRefresh(s)
    <3>1. PICK t \in known : peak' = [peak EXCEPT ![t] = IF Cardinality(Refreshing(t)) + 1 > @
                                         THEN Cardinality(Refreshing(t)) + 1 ELSE @]
      BY <2>3 DEF StartRefresh
    <3>2. IsFiniteSet(Refreshing(t)) /\ Cardinality(Refreshing(t)) \in Nat
      BY SessionsFinite, FS_Subset, FS_CardinalityType DEF Refreshing
    <3>3. peak' \in [Tokens -> Nat]
      BY <1>0, <3>1, <3>2 DEF TypeOK
    <3> QED BY <1>0, <2>1, <2>3, <3>3 DEF StartRefresh, staff, tokens, TypeOK
  <2>4. CASE Reject(s) \/ Remove(s) \/ Forget(s)
    <3>1. store' \subseteq store
      BY <2>4 DEF Reject, Remove, Forget
    <3> QED BY <1>0, <2>1, <2>4, <3>1 DEF Reject, Remove, Forget, staff, tokens, history, TypeOK
  <2>5. CASE Store(s)
    <3>1. PICK t \in Tokens :
             /\ owner[t] = None
             /\ owner' = [owner EXCEPT ![t] = Subject(s)]
             /\ store' = store \cup {t}
             /\ chain' = [chain EXCEPT ![t] = IF req[s].op = "refresh" THEN chain[req[s].token] ELSE t]
      BY <2>5 DEF Store
    <3>2. req[s].user \in Users /\ req[s].op \in {"signin", "refresh"}
      BY <1>0, <2>5, Fields DEF Store, LocalsFit
    <3>3. req[s].op = "refresh" => req[s].token \in Tokens
      BY <1>0 DEF LocalsFit, TypeOK
    <3>4. owner' \in [Tokens -> Users \cup {None}] /\ \A x \in store' \cup known : owner'[x] # None
      BY <1>0, <3>1, <3>2, NoneIsNew DEF Subject, TypeOK
    <3>5. chain' \in [Tokens -> Tokens \cup {None}]
      BY <1>0, <3>1, <3>3 DEF TypeOK
    <3>6. exchanged' \in [Tokens -> Nat]
      BY <1>0, <2>5, <3>3 DEF Store, TypeOK
    <3> QED BY <1>0, <2>1, <2>5, <3>1, <3>4, <3>5, <3>6 DEF Store, staff, TypeOK
  <2>6. CASE Answer(s)
    <3>1. req[s].new \in Tokens /\ owner[req[s].new] # None
      BY <1>0, <2>6 DEF Answer, LocalsFit
    <3> QED BY <1>0, <2>1, <2>6, <3>1 DEF Answer, staff, history, TypeOK
  <2>7. CASE Fail(s) \/ LookupFails(s)
    <3>1. req[s].op = "refresh" => chain[req[s].token] \in Tokens
      BY <1>0, <1>z DEF LocalsFit, SignedInLine, TypeOK
    <3>2. pc[s] = "lookup" => req[s].op = "refresh"
      BY <1>0 DEF LocalsFit
    <3> QED BY <1>0, <2>1, <2>7, <3>1, <3>2 DEF Fail, LookupFails, staff, tokens, TypeOK
  <2> QED BY <1>2, <2>2, <2>3, <2>4, <2>5, <2>6, <2>7, ActCases
<1>3. ASSUME NEW u \in Users, UpdateStaff(u) PROVE TypeOK'
  <2>1. active' \in [Users -> BOOLEAN] /\ password' \in [Users -> Passwords]
    BY <1>0, <1>3 DEF UpdateStaff, TypeOK
  <2> QED BY <1>0, <1>3, <2>1, CrossedStep DEF tokens, history, TypeOK
<1>4. ASSUME NEW t \in Tokens, Expire(t) \/ Outdate(t) PROVE TypeOK'
  <2>1. chain[t] \in Tokens
    BY <1>0, <1>z, <1>4 DEF Expire, Outdate, SignedInLine, TypeOK
  <2> QED BY <1>0, <1>4, <2>1 DEF Expire, Outdate, staff, tokens, TypeOK
<1> QED BY <1>1, <1>2, <1>3, <1>4, StepCases

-----------------------------------------------------------------------------
(* What each step does to the session that takes it.                        *)

LEMMA SigninEffect ==
    ASSUME TypeOK, NEW s \in Sessions, StartSignin(s)
    PROVE  /\ pc[s] = "idle" /\ pc'[s] = "verify" /\ req'[s].op = "signin"
           /\ req'[s].user \in Users /\ active[req'[s].user] /\ req'[s].seen = password[req'[s].user]
           /\ UNCHANGED <<staff, store, tokens, history>>
<1>1. PICK u \in Users, p \in Passwords : active[u] /\ Begin(s, "verify", SigninRequest(u, p))
  BY DEF StartSignin, SigninRequest, MayEnter
<1>2. /\ SigninRequest(u, p).op = "signin" /\ SigninRequest(u, p).user = u
      /\ SigninRequest(u, p).seen = password[u]
  BY DEF SigninRequest, NoRequest
<1>3. pc[s] = "idle" /\ pc'[s] = "verify" /\ req'[s] = SigninRequest(u, p)
  BY <1>1 DEF Begin, TypeOK
<1> QED BY <1>1, <1>2, <1>3 DEF StartSignin

LEMMA RefreshEffect ==
    ASSUME TypeOK, NEW s \in Sessions, StartRefresh(s)
    PROVE  /\ pc[s] = "idle" /\ pc'[s] = "lookup" /\ req'[s].op = "refresh"
           /\ req'[s].token \in known /\ req'[s].user = owner[req'[s].token]
           /\ req'[s].user \in Users /\ active[req'[s].user]
           /\ peak' = [peak EXCEPT ![req'[s].token] =
                         IF Cardinality(Refreshing(req'[s].token)) + 1 > @
                         THEN Cardinality(Refreshing(req'[s].token)) + 1 ELSE @]
           /\ UNCHANGED <<staff, store, tokens, chain, exchanged, lost>>
<1>1. PICK t \in known :
         /\ active[owner[t]]
         /\ Begin(s, "lookup", RefreshRequest(t))
         /\ peak' = [peak EXCEPT ![t] = IF Cardinality(Refreshing(t)) + 1 > @
                                        THEN Cardinality(Refreshing(t)) + 1 ELSE @]
  BY DEF StartRefresh, RefreshRequest, MayEnter
<1>2. /\ RefreshRequest(t).op = "refresh" /\ RefreshRequest(t).token = t
      /\ RefreshRequest(t).user = owner[t]
  BY DEF RefreshRequest, NoRequest
<1>3. pc[s] = "idle" /\ pc'[s] = "lookup" /\ req'[s] = RefreshRequest(t)
  BY <1>1 DEF Begin, TypeOK
<1>4. owner[t] \in Users
  BY DEF TypeOK
<1> QED BY <1>1, <1>2, <1>3, <1>4 DEF StartRefresh

LEMMA LogoutEffect ==
    ASSUME TypeOK, NEW s \in Sessions, StartLogout(s)
    PROVE  /\ pc[s] = "idle" /\ pc'[s] = "forget" /\ req'[s].op = "logout"
           /\ req'[s].token = None /\ req'[s].user \in Users
           /\ UNCHANGED <<staff, store, tokens, history>>
<1>1. PICK t \in known : Begin(s, "forget", LogoutRequest(owner[t]))
  BY DEF StartLogout, LogoutRequest
<1>2. /\ LogoutRequest(owner[t]).op = "logout" /\ LogoutRequest(owner[t]).token = None
      /\ LogoutRequest(owner[t]).user = owner[t]
  BY DEF LogoutRequest, NoRequest
<1>3. pc[s] = "idle" /\ pc'[s] = "forget" /\ req'[s] = LogoutRequest(owner[t])
  BY <1>1 DEF Begin, TypeOK
<1>4. owner[t] \in Users
  BY DEF TypeOK
<1> QED BY <1>1, <1>2, <1>3, <1>4 DEF StartLogout

LEMMA FinishEffect ==
    ASSUME TypeOK, NEW s \in Sessions, Finish(s)
    PROVE  pc'[s] = "idle" /\ req'[s] = NoRequest /\ req'[s].op = "none"
<1>1. pc'[s] = "idle" /\ req'[s] = NoRequest
  BY DEF Finish, Goto, TypeOK
<1> QED BY <1>1 DEF NoRequest

LEMMA GotoEffect ==
    ASSUME TypeOK, NEW s \in Sessions, NEW step, Goto(s, step)
    PROVE  pc'[s] = step
BY DEF Goto, TypeOK

\* The token that Store(s) signs, and what becomes of the request.
LEMMA StoreEffect ==
    ASSUME TypeOK, LocalsFit, NEW s \in Sessions, Store(s)
    PROVE  \E t \in Tokens :
              /\ owner[t] = None /\ owner' = [owner EXCEPT ![t] = req[s].user] /\ req[s].user \in Users
              /\ store' = store \cup {t}
              /\ req'[s].new = t /\ pc[s] = "store" /\ pc'[s] = "answer"
              /\ req'[s].op = req[s].op /\ req'[s].user = req[s].user /\ req'[s].token = req[s].token
              /\ req'[s].given = req[s].given /\ req'[s].seen = req[s].seen
              /\ req'[s].crossed = req[s].crossed
              /\ chain' = [chain EXCEPT ![t] = IF req[s].op = "refresh" THEN chain[req[s].token] ELSE t]
              /\ t \notin known /\ t \notin store
              /\ req[s].op = "refresh" => t # req[s].token
<1>1. PICK t \in Tokens :
         /\ owner[t] = None
         /\ owner' = [owner EXCEPT ![t] = req[s].user]
         /\ store' = store \cup {t}
         /\ req'   = [req EXCEPT ![s].new = t]
         /\ chain' = [chain EXCEPT ![t] = IF req[s].op = "refresh" THEN chain[req[s].token] ELSE t]
  BY DEF Store, Subject
<1>2. req[s] \in Request
  BY Fields
<1>3. req' = [req EXCEPT ![s] = [req[s] EXCEPT !.new = t]]
  BY <1>1
<1>4. req'[s] = [req[s] EXCEPT !.new = t]
  BY <1>3 DEF TypeOK
<1>5. /\ req'[s].new = t
      /\ req'[s].op = req[s].op /\ req'[s].user = req[s].user /\ req'[s].token = req[s].token
      /\ req'[s].given = req[s].given /\ req'[s].seen = req[s].seen
      /\ req'[s].crossed = req[s].crossed
  BY <1>2, <1>4 DEF Request
<1>6. pc[s] = "store" /\ pc'[s] = "answer"
  BY GotoEffect DEF Store
<1>7. req[s].user \in Users /\ (req[s].op = "refresh" => t # req[s].token)
  BY <1>1, <1>2, <1>6 DEF LocalsFit, Request
<1>8. t \notin known /\ t \notin store
  BY <1>1 DEF TypeOK
<1> QED BY <1>1, <1>5, <1>6, <1>7, <1>8

-----------------------------------------------------------------------------
(* Locals, and what a request has read                                      *)

\* Tokens that were signed keep their owner and their line.
LEMMA Kept ==
    ASSUME TypeOK, LocalsFit, [Next]_vars
    PROVE  \A t \in Tokens : owner[t] # None => owner'[t] = owner[t] /\ chain'[t] = chain[t]
<1>1. ASSUME NEW s \in Sessions, Store(s)
      PROVE  \A t \in Tokens : owner[t] # None => owner'[t] = owner[t] /\ chain'[t] = chain[t]
  <2>1. PICK t \in Tokens :
           /\ owner[t] = None /\ owner' = [owner EXCEPT ![t] = req[s].user]
           /\ chain' = [chain EXCEPT ![t] = IF req[s].op = "refresh" THEN chain[req[s].token] ELSE t]
    BY <1>1, StoreEffect
  <2> QED BY <1>1, <2>1 DEF Store, TypeOK
<1>2. ASSUME NEW s \in Sessions, Act(s), ~Store(s)
      PROVE  UNCHANGED <<owner, chain>>
  BY <1>2, ActCases DEF StartSignin, StartRefresh, StartLogout, VerifyPassword, Lookup, LookupFails, Reject, Remove,
     Answer, Forget, Fail, tokens, history
<1> QED BY <1>1, <1>2, StepCases DEF UpdateStaff, Expire, Outdate, vars, tokens, history

FitsOne(s) ==
    LET r == req[s]
    IN  /\ pc[s] = "idle" => r = NoRequest
        /\ pc[s] = "verify" => r.op = "signin"
        /\ pc[s] \in {"lookup", "reject", "remove"} => r.op = "refresh"
        /\ pc[s] \in {"store", "answer"} => r.op \in {"signin", "refresh"}
        /\ pc[s] = "forget" => r.op = "logout"
        /\ r.op # "none" => r.user # None
        /\ r.op = "refresh" => r.token \in Tokens /\ owner[r.token] # None
        /\ r.op = "logout" => r.token = None
        /\ pc[s] \in {"store", "answer"} /\ r.op = "signin" => r.given = r.seen
        /\ pc[s] = "answer" => r.new \in Tokens /\ owner[r.new] # None

LEMMA FitsEach == LocalsFit <=> \A s \in Sessions : FitsOne(s)
BY DEF LocalsFit, FitsOne

LEMMA LocalsStep == ASSUME IInv, [Next]_vars PROVE LocalsFit'
<1>0. TypeOK /\ LocalsFit /\ TypeOK'
  BY TypeStep DEF IInv
<1>k. /\ known \subseteq Tokens /\ None \notin Users
      /\ \A t \in Tokens : owner[t] # None => owner'[t] = owner[t]
  BY <1>0, NoneIsNew, Kept DEF TypeOK
<1>o. ASSUME NEW x \in Sessions, pc'[x] = pc[x], req'[x] = req[x] PROVE FitsOne(x)'
  BY <1>0, <1>k, <1>o DEF LocalsFit, FitsOne, TypeOK
<1>f. ASSUME NEW s \in Sessions, Finish(s) PROVE FitsOne(s)'
  <2>1. pc'[s] = "idle" /\ req'[s] = NoRequest /\ req'[s].op = "none"
    BY <1>0, <1>f, FinishEffect
  <2> QED BY <2>1 DEF FitsOne
<1>1. CASE UNCHANGED vars
  BY <1>0, <1>1 DEF vars, tokens, LocalsFit
<1>2. ASSUME NEW s \in Sessions, Act(s) PROVE LocalsFit'
  <2>1. \A x \in Sessions \ {s} : FitsOne(x)'
    BY <1>0, <1>2, <1>o, RequestStep
  <2>2. FitsOne(s)'
    <3>1. CASE StartSignin(s)
      BY <1>0, <1>k, <3>1, SigninEffect DEF FitsOne
    <3>2. CASE StartRefresh(s)
      <4>1. /\ pc'[s] = "lookup" /\ req'[s].op = "refresh" /\ req'[s].token \in Tokens
            /\ req'[s].user # None /\ owner'[req'[s].token] # None
        BY <1>0, <1>k, <3>2, RefreshEffect DEF tokens
      <4> QED BY <4>1 DEF FitsOne
    <3>3. CASE StartLogout(s)
      BY <1>0, <1>k, <3>3, LogoutEffect DEF FitsOne
    <3>4. CASE VerifyPassword(s) /\ ~Finish(s)
      <4>1. pc'[s] = "store" /\ req'[s] = req[s] /\ pc[s] = "verify" /\ req[s].given = req[s].seen
        BY <1>0, <3>4, GotoEffect DEF VerifyPassword
      <4>2. req[s].op = "signin" /\ req[s].user # None
        BY <1>0, <4>1 DEF LocalsFit
      <4> QED BY <4>1, <4>2 DEF FitsOne
    <3>5. CASE Lookup(s) \/ LookupFails(s)
      <4>1. pc'[s] \in {"remove", "reject"} /\ req'[s] = req[s] /\ pc[s] = "lookup"
        BY <1>0, <3>5, GotoEffect DEF Lookup, LookupFails
      <4> QED BY <1>0, <1>k, <4>1 DEF FitsOne, LocalsFit, TypeOK
    <3>6. CASE Remove(s)
      <4>1. pc'[s] = "store" /\ req'[s] = req[s] /\ pc[s] = "remove"
        BY <1>0, <3>6, GotoEffect DEF Remove
      <4> QED BY <1>0, <1>k, <4>1 DEF FitsOne, LocalsFit, TypeOK
    <3>7. CASE Store(s)
      <4>1. PICK t \in Tokens :
               /\ owner' = [owner EXCEPT ![t] = req[s].user] /\ req[s].user \in Users
               /\ req'[s].new = t /\ pc[s] = "store" /\ pc'[s] = "answer"
               /\ req'[s].op = req[s].op /\ req'[s].user = req[s].user /\ req'[s].token = req[s].token
               /\ req'[s].given = req[s].given /\ req'[s].seen = req[s].seen
        BY <1>0, <3>7, StoreEffect
      <4>2. owner'[t] # None
        BY <1>0, <1>k, <4>1 DEF TypeOK
      <4> QED BY <1>0, <1>k, <4>1, <4>2 DEF FitsOne, LocalsFit
    <3> QED BY <1>2, <1>f, <3>1, <3>2, <3>3, <3>4, <3>5, <3>6, <3>7, ActCases
          DEF Reject, Answer, Forget, Fail
  <2> QED BY <2>1, <2>2 DEF LocalsFit, FitsOne
<1>3. ASSUME NEW u \in Users, UpdateStaff(u) PROVE LocalsFit'
  <2>1. ASSUME NEW x \in Sessions PROVE FitsOne(x)'
    <3>1. /\ req'[x].op = req[x].op /\ req'[x].user = req[x].user /\ req'[x].token = req[x].token
          /\ req'[x].given = req[x].given /\ req'[x].seen = req[x].seen /\ req'[x].new = req[x].new
          /\ pc'[x] = pc[x] /\ known' = known /\ owner' = owner
      BY <1>0, <1>3, CrossedStep DEF tokens
    <3>2. pc[x] = "idle" => req'[x] = req[x]
      <4>1. pc[x] = "idle" => req[x].user = None
        BY <1>0 DEF LocalsFit, NoRequest
      <4> QED BY <1>0, <1>3, <1>k, <4>1, CrossedStep
    <3> QED BY <1>0, <3>1, <3>2 DEF FitsOne, LocalsFit
  <2> QED BY <2>1 DEF LocalsFit, FitsOne
<1>4. ASSUME NEW t \in Tokens, Expire(t) \/ Outdate(t) PROVE LocalsFit'
  BY <1>0, <1>4 DEF Expire, Outdate, tokens, LocalsFit
<1> QED BY <1>1, <1>2, <1>3, <1>4, StepCases

LEMMA LineStep == ASSUME IInv, [Next]_vars PROVE SignedInLine'
<1>0. TypeOK /\ LocalsFit /\ SignedInLine /\ TypeOK'
  BY TypeStep DEF IInv
<1>1. ASSUME NEW s \in Sessions, Store(s) PROVE SignedInLine'
  <2>1. PICK t \in Tokens :
           /\ owner' = [owner EXCEPT ![t] = req[s].user] /\ pc[s] = "store" /\ req[s].user \in Users
           /\ chain' = [chain EXCEPT ![t] = IF req[s].op = "refresh" THEN chain[req[s].token] ELSE t]
    BY <1>0, <1>1, StoreEffect
  <2>2. req[s].op = "refresh" => chain[req[s].token] # None
    BY <1>0 DEF LocalsFit, SignedInLine, TypeOK
  <2>3. chain'[t] # None
    BY <1>0, <2>1, <2>2, NoneIsNew DEF TypeOK
  <2> QED BY <1>0, <2>1, <2>3, NoneIsNew DEF SignedInLine, TypeOK
<1>2. ASSUME NEW s \in Sessions, Act(s), ~Store(s) PROVE UNCHANGED <<owner, chain>>
  BY <1>2, ActCases DEF StartSignin, StartRefresh, StartLogout, VerifyPassword, Lookup, LookupFails, Reject, Remove,
     Answer, Forget, Fail, tokens, history
<1>3. CASE UNCHANGED <<owner, chain>>
  BY <1>0, <1>3 DEF SignedInLine
<1> QED BY <1>1, <1>2, <1>3, StepCases DEF UpdateStaff, Expire, Outdate, vars, tokens, history

LEMMA ReadStep == ASSUME IInv, [Next]_vars PROVE ReadCurrent'
<1>0. TypeOK /\ LocalsFit /\ ReadCurrent /\ TypeOK'
  BY TypeStep DEF IInv
<1> DEFINE Read(x) == req[x].op \in {"signin", "refresh"} /\ ~req[x].crossed =>
                         /\ active[req[x].user]
                         /\ req[x].op = "signin" => req[x].seen = password[req[x].user]
<1>a. \A x \in Sessions : Read(x)
  BY <1>0 DEF ReadCurrent
<1>1. ASSUME NEW s \in Sessions, Act(s) PROVE ReadCurrent'
  <2>1. UNCHANGED <<active, password>>
    BY <1>1, ActCases DEF StartSignin, StartRefresh, StartLogout, VerifyPassword, Lookup, LookupFails, Reject, Remove,
       Store, Answer, Forget, Fail, staff
  <2>2. ASSUME NEW x \in Sessions, x # s PROVE Read(x)'
    BY <1>0, <1>1, <1>a, <2>1, <2>2, RequestStep
  <2>3. Read(s)'
    <3>1. CASE StartSignin(s)
      BY <1>0, <2>1, <3>1, SigninEffect
    <3>2. CASE StartRefresh(s)
      BY <1>0, <2>1, <3>2, RefreshEffect
    <3>3. CASE StartLogout(s)
      BY <1>0, <3>3, LogoutEffect
    <3>4. CASE Finish(s)
      BY <1>0, <3>4, FinishEffect
    <3>5. CASE Store(s)
      <4>1. /\ req'[s].op = req[s].op /\ req'[s].user = req[s].user /\ req'[s].seen = req[s].seen
            /\ req'[s].crossed = req[s].crossed
        BY <1>0, <3>5, StoreEffect
      <4> QED BY <1>a, <2>1, <4>1
    <3>6. CASE req' = req
      BY <1>a, <2>1, <3>6
    <3> QED BY <1>1, <3>1, <3>2, <3>3, <3>4, <3>5, <3>6, ActCases
          DEF VerifyPassword, Lookup, LookupFails, Reject, Remove, Answer, Forget, Fail
  <2> QED BY <2>2, <2>3 DEF ReadCurrent
<1>2. ASSUME NEW u \in Users, UpdateStaff(u) PROVE ReadCurrent'
  <2>1. ASSUME NEW x \in Sessions PROVE Read(x)'
    <3>1. CASE req[x].user = u
      BY <1>0, <1>2, <3>1, CrossedStep
    <3>2. CASE req[x].user # u
      <4>1. req'[x] = req[x] /\ req[x].user \in Users \cup {None}
        BY <1>0, <1>2, <3>2, CrossedStep, Fields
      <4>2. req[x].op # "none" => req[x].user \in Users
        BY <1>0, <4>1 DEF LocalsFit
      <4>3. \A v \in Users \ {u} : active'[v] = active[v] /\ password'[v] = password[v]
        BY <1>0, <1>2 DEF UpdateStaff, TypeOK
      <4> QED BY <1>a, <3>2, <4>1, <4>2, <4>3
    <3> QED BY <3>1, <3>2
  <2> QED BY <2>1 DEF ReadCurrent
<1>3. CASE UNCHANGED <<staff, req>>
  BY <1>0, <1>3 DEF ReadCurrent, staff
<1> QED BY <1>1, <1>2, <1>3, StepCases DEF Expire, Outdate, vars

-----------------------------------------------------------------------------
(* Rotation                                                                 *)

\* What the entries lose in a step that signs no token.
LEMMA StoreShrinks ==
    ASSUME TypeOK, LocalsFit, NEW s \in Sessions, Act(s), ~Store(s)
    PROVE  store' \subseteq store /\ UNCHANGED <<owner, chain, exchanged>>
BY ActCases DEF StartSignin, StartRefresh, StartLogout, VerifyPassword, Lookup, LookupFails, Reject, Remove,
   Answer, Forget, Fail, staff, tokens, history

LEMMA SpentStep == ASSUME IInv, [Next]_vars PROVE SpentStaysOut'
<1>0. TypeOK /\ LocalsFit /\ SpentStaysOut /\ TypeOK' /\ LocalsFit'
  BY TypeStep, LocalsStep DEF IInv
<1> DEFINE Out(x) == /\ pc[x] = "reject" => req[x].token \notin store \/ chain[req[x].token] \in lost
                     /\ pc[x] = "store" /\ req[x].op = "refresh" => req[x].token \notin store
           Unspent(t) == t \in store \/ owner[t] = None => exchanged[t] = 0
<1>d. SpentStaysOut <=> (\A t \in Tokens : Unspent(t)) /\ \A x \in Sessions : Out(x)
  BY DEF SpentStaysOut
<1>e. SpentStaysOut' <=> (\A t \in Tokens : Unspent(t)') /\ \A x \in Sessions : Out(x)'
  BY DEF SpentStaysOut
<1>1. ASSUME NEW s \in Sessions, Store(s) PROVE SpentStaysOut'
  <2>1. PICK n \in Tokens :
           /\ owner[n] = None /\ owner' = [owner EXCEPT ![n] = req[s].user] /\ req[s].user \in Users
           /\ store' = store \cup {n} /\ pc[s] = "store" /\ pc'[s] = "answer"
           /\ req[s].op = "refresh" => n # req[s].token
    BY <1>0, <1>1, StoreEffect
  <2>a. lost' = lost /\ \A t \in Tokens : owner[t] # None => chain'[t] = chain[t]
    BY <1>0, <1>1, Kept DEF Store
  <2>2. ASSUME NEW x \in Sessions PROVE Out(x)'
    <3>1. CASE x = s
      BY <2>1, <3>1
    <3>2. CASE x # s
      <4>1. pc'[x] = pc[x] /\ req'[x] = req[x]
        BY <1>0, <1>1, <3>2, RequestStep DEF Act, Continue
      <4>2. req[x].op = "refresh" => req[x].token # n /\ chain'[req[x].token] = chain[req[x].token]
        BY <1>0, <2>1, <2>a DEF LocalsFit
      <4>3. pc[x] = "reject" => req[x].op = "refresh"
        BY <1>0 DEF LocalsFit
      <4> QED BY <1>0, <1>d, <2>1, <2>a, <4>1, <4>2, <4>3
    <3> QED BY <3>1, <3>2
  <2>3. ASSUME NEW t \in Tokens PROVE Unspent(t)'
    <3>1. CASE req[s].op = "refresh" /\ t = req[s].token
      <4>1. t \notin store /\ t # n /\ owner[t] # None
        BY <1>0, <2>1, <3>1 DEF SpentStaysOut, LocalsFit
      <4> QED BY <1>0, <2>1, <4>1 DEF TypeOK
    <3>2. CASE ~(req[s].op = "refresh" /\ t = req[s].token)
      <4>1. exchanged'[t] = exchanged[t]
        BY <1>0, <1>1, <3>2 DEF Store, TypeOK
      <4> QED BY <1>0, <1>d, <2>1, <4>1 DEF TypeOK
    <3> QED BY <3>1, <3>2
  <2> QED BY <1>e, <2>2, <2>3
<1>2. ASSUME NEW s \in Sessions, Act(s), ~Store(s) PROVE SpentStaysOut'
  <2>1. store' \subseteq store /\ UNCHANGED <<owner, chain, exchanged>>
    BY <1>0, <1>2, StoreShrinks
  <2>a. lost \subseteq lost'
    BY <1>2, ActCases DEF StartSignin, StartRefresh, StartLogout, VerifyPassword, Lookup, LookupFails,
       Reject, Remove, Answer, Forget, Fail, history
  <2>2. ASSUME NEW x \in Sessions, x # s PROVE Out(x)'
    BY <1>0, <1>2, <1>d, <2>1, <2>a, <2>2, RequestStep
  <2>3. Out(s)'
    <3>1. CASE StartSignin(s) \/ StartRefresh(s) \/ StartLogout(s)
      BY <1>0, <3>1, SigninEffect, RefreshEffect, LogoutEffect
    <3>2. CASE Finish(s)
      BY <1>0, <3>2, FinishEffect
    <3>3. CASE VerifyPassword(s) /\ ~Finish(s)
      <4>1. pc[s] = "verify" /\ pc'[s] = "store" /\ req' = req
        BY <1>0, <3>3, GotoEffect DEF VerifyPassword
      <4>2. req[s].op = "signin"
        BY <1>0, <4>1 DEF LocalsFit
      <4> QED BY <4>1, <4>2
    <3>4. CASE Lookup(s)
      <4>1. pc'[s] = (IF req[s].token \in store THEN "remove" ELSE "reject") /\ req' = req
        BY <1>0, <3>4, GotoEffect DEF Lookup, Found
      <4> QED BY <2>1, <4>1
    <3>6. CASE LookupFails(s)
      <4>1. pc'[s] = "reject" /\ req' = req /\ lost' = lost \cup {chain[req[s].token]}
        BY <1>0, <3>6, GotoEffect DEF LookupFails
      <4> QED BY <2>1, <4>1
    <3>5. CASE Remove(s)
      <4>1. pc'[s] = "store" /\ req' = req /\ store' = store \ {req[s].token}
        BY <1>0, <3>5, GotoEffect DEF Remove, Removed
      <4> QED BY <4>1
    <3> QED BY <1>2, <3>1, <3>2, <3>3, <3>4, <3>5, <3>6, ActCases DEF Reject, Answer, Forget, Fail
  <2> QED BY <1>d, <1>e, <1>0, <2>1, <2>2, <2>3
<1>3. ASSUME NEW u \in Users, UpdateStaff(u) PROVE SpentStaysOut'
  <2>1. UNCHANGED <<store, owner, chain, lost, exchanged, pc>>
    BY <1>0, <1>3, CrossedStep DEF tokens, history
  <2>2. \A x \in Sessions : req'[x].op = req[x].op /\ req'[x].token = req[x].token
    BY <1>0, <1>3, CrossedStep
  <2> QED BY <1>d, <1>e, <1>0, <2>1, <2>2
<1>4. ASSUME NEW t \in Tokens, Expire(t) \/ Outdate(t) PROVE SpentStaysOut'
  BY <1>d, <1>e, <1>0, <1>4 DEF Expire, Outdate, tokens
<1>5. CASE UNCHANGED vars
  BY <1>0, <1>5 DEF vars, tokens, history, SpentStaysOut
<1> QED BY <1>1, <1>2, <1>3, <1>4, <1>5, StepCases

LEMMA NewStep == ASSUME IInv, [Next]_vars PROVE NewFits'
<1>0. TypeOK /\ LocalsFit /\ NewFits /\ SpentStaysOut /\ TypeOK' /\ LocalsFit'
  BY TypeStep, LocalsStep DEF IInv
<1> DEFINE Fits(x) == pc[x] = "answer" =>
                         /\ req[x].new \notin known
                         /\ req[x].new \in store \/ chain[req[x].new] \in lost
                         /\ req[x].op = "refresh" => chain[req[x].new] = chain[req[x].token]
           Apart(x, y) == pc[x] = "answer" =>
                              /\ pc[y] = "answer" /\ req[x].new = req[y].new => x = y
                              /\ req[y].op = "refresh" => req[y].token # req[x].new
<1>d. (\A x \in Sessions : Fits(x)) /\ (\A x, y \in Sessions : Apart(x, y))
  BY <1>0 DEF NewFits
<1>e. ASSUME \A x \in Sessions : Fits(x)', \A x, y \in Sessions : Apart(x, y)' PROVE NewFits'
  BY <1>e DEF NewFits
<1>1. ASSUME NEW s \in Sessions, Store(s) PROVE NewFits'
  <2>1. PICK n \in Tokens :
           /\ owner[n] = None /\ store' = store \cup {n} /\ n \notin known
           /\ req'[s].new = n /\ req'[s].op = req[s].op /\ req'[s].token = req[s].token
           /\ req[s].op = "refresh" => n # req[s].token
           /\ chain' = [chain EXCEPT ![n] = IF req[s].op = "refresh" THEN chain[req[s].token] ELSE n]
    BY <1>0, <1>1, StoreEffect
  <2>2. known' = known /\ lost' = lost
    BY <1>1 DEF Store
  <2>3. \A x \in Sessions \ {s} : pc'[x] = pc[x] /\ req'[x] = req[x]
    BY <1>0, <1>1, RequestStep DEF Act, Continue
  <2>4. ASSUME NEW x \in Sessions, pc[x] = "answer" PROVE req[x].new \in Tokens \ {n}
    BY <1>0, <2>1, <2>4 DEF LocalsFit
  <2>5. \A x \in Sessions : req[x].op = "refresh" => req[x].token \in Tokens \ {n}
    BY <1>0, <2>1 DEF LocalsFit, TypeOK
  <2>6. ASSUME NEW x \in Sessions PROVE Fits(x)'
    <3>1. CASE x = s
      BY <1>0, <2>1, <2>2, <2>5, <3>1 DEF TypeOK
    <3>2. CASE x # s
      BY <1>0, <1>d, <2>1, <2>2, <2>3, <2>4, <2>5, <3>2 DEF TypeOK
    <3> QED BY <3>1, <3>2
  <2>7. ASSUME NEW x \in Sessions, NEW y \in Sessions PROVE Apart(x, y)'
    <3>1. req'[y].op = "refresh" => req[y].op = "refresh" /\ req'[y].token = req[y].token
      BY <2>1, <2>3
    <3>2. pc'[x] = "answer" => \/ (x = s /\ req'[x].new = n)
                              \/ (x # s /\ pc[x] = "answer" /\ req'[x].new = req[x].new)
      BY <2>1, <2>3
    <3> QED BY <1>d, <2>1, <2>3, <2>4, <2>5, <3>1, <3>2
  <2> QED BY <1>e, <2>6, <2>7
<1>2. ASSUME NEW s \in Sessions, Act(s), ~Store(s) PROVE NewFits'
  <2>1. store' \subseteq store /\ chain' = chain
    BY <1>0, <1>2, StoreShrinks
  <2>2. \A x \in Sessions \ {s} : pc'[x] = pc[x] /\ req'[x] = req[x]
    BY <1>0, <1>2, RequestStep
  <2>3. pc'[s] # "answer"
    <3>1. CASE StartSignin(s) \/ StartRefresh(s) \/ StartLogout(s)
      BY <1>0, <3>1, SigninEffect, RefreshEffect, LogoutEffect
    <3>2. CASE Finish(s)
      BY <1>0, <3>2, FinishEffect
    <3>3. CASE (VerifyPassword(s) /\ ~Finish(s)) \/ Lookup(s) \/ LookupFails(s) \/ Remove(s)
      BY <1>0, <3>3, GotoEffect DEF VerifyPassword, Lookup, LookupFails, Remove
    <3> QED BY <1>2, <3>1, <3>2, <3>3, ActCases DEF Reject, Answer, Forget, Fail
  <2>4. lost \subseteq lost'
    BY <1>2, ActCases DEF StartSignin, StartRefresh, StartLogout, VerifyPassword, Lookup, LookupFails, Reject, Remove,
       Answer, Forget, Fail, history
  <2>5. ASSUME NEW x \in Sessions, x # s, pc[x] = "answer"
        PROVE  req[x].new \notin known' /\ (req[x].new \in store => req[x].new \in store')
    <3>0. req[x].new \notin known /\ req[x].new \in Tokens
      BY <1>0, <1>d, <2>5 DEF LocalsFit
    <3>1. CASE Answer(s)
      BY <1>d, <2>5, <3>0, <3>1 DEF Answer
    <3>2. CASE Remove(s) \/ Reject(s)
      <4>1. req[s].op = "refresh" /\ store' = store \ {req[s].token} /\ known' = known
        BY <1>0, <3>2 DEF Remove, Removed, Reject, Rejected, LocalsFit, tokens
      <4> QED BY <1>d, <2>5, <3>0, <4>1
    <3>3. CASE Forget(s)
      <4>1. req[s].token = None /\ store' = store \ {None} /\ known' = known
        BY <1>0, <3>3 DEF Forget, LogoutToken, LocalsFit, tokens
      <4> QED BY <3>0, <4>1, NoneIsNew
    <3> QED BY <1>2, <3>0, <3>1, <3>2, <3>3, ActCases DEF StartSignin, StartRefresh, StartLogout,
               VerifyPassword, Lookup, LookupFails, Fail, tokens
  <2>6. ASSUME NEW x \in Sessions PROVE Fits(x)'
    BY <1>d, <2>1, <2>2, <2>3, <2>4, <2>5
  <2>7. ASSUME NEW x \in Sessions, NEW y \in Sessions PROVE Apart(x, y)'
    <3>1. CASE x = s
      BY <2>3, <3>1
    <3>2. CASE x # s /\ y # s
      BY <1>d, <2>2, <3>2
    <3>3. CASE x # s /\ y = s
      <4>1. pc'[s] # "answer" /\ pc'[x] = pc[x] /\ req'[x] = req[x]
        BY <2>2, <2>3, <3>3
      <4>2. CASE StartRefresh(s)
        <5>1. req'[s].token \in known
          BY <1>0, <4>2, RefreshEffect
        <5> QED BY <1>d, <3>3, <4>1, <5>1
      <4>3. CASE ~StartRefresh(s)
        <5>1. req'[s].op = "refresh" => req[s].op = "refresh" /\ req'[s].token = req[s].token
          <6>1. CASE StartSignin(s) \/ StartLogout(s)
            BY <1>0, <6>1, SigninEffect, LogoutEffect
          <6>2. CASE Finish(s)
            BY <1>0, <6>2, FinishEffect
          <6>3. CASE req' = req
            BY <6>3
          <6> QED BY <1>2, <4>3, <6>1, <6>2, <6>3, ActCases
                  DEF VerifyPassword, Lookup, LookupFails, Reject, Remove, Answer, Forget, Fail
        <5> QED BY <1>d, <3>3, <4>1, <5>1
      <4> QED BY <4>2, <4>3
    <3> QED BY <3>1, <3>2, <3>3
  <2> QED BY <1>e, <2>6, <2>7
<1>3. ASSUME NEW u \in Users, UpdateStaff(u) PROVE NewFits'
  <2>1. UNCHANGED <<store, known, chain, lost, pc>>
    BY <1>0, <1>3, CrossedStep DEF tokens, history
  <2>2. \A x \in Sessions : req'[x].op = req[x].op /\ req'[x].token = req[x].token /\ req'[x].new = req[x].new
    BY <1>0, <1>3, CrossedStep
  <2>3. (\A x \in Sessions : Fits(x)') /\ (\A x, y \in Sessions : Apart(x, y)')
    BY <1>d, <2>1, <2>2
  <2> QED BY <1>e, <2>3
<1>4. ASSUME NEW t \in Tokens, Expire(t) \/ Outdate(t) PROVE NewFits'
  BY <1>0, <1>4 DEF Expire, Outdate, tokens, NewFits
<1>5. CASE UNCHANGED vars
  BY <1>0, <1>5 DEF vars, tokens, history, NewFits
<1> QED BY <1>1, <1>2, <1>3, <1>4, <1>5, StepCases

LEMMA SetsFinite ==
    ASSUME NEW t
    PROVE  /\ IsFiniteSet(Refreshing(t)) /\ Cardinality(Refreshing(t)) \in Nat
           /\ IsFiniteSet(Rotating(t)) /\ Cardinality(Rotating(t)) \in Nat
           /\ Cardinality(Rotating(t)) <= Cardinality(Refreshing(t))
<1>1. Refreshing(t) \subseteq Sessions /\ Rotating(t) \subseteq Refreshing(t)
  BY DEF Refreshing, Rotating
<1>2. IsFiniteSet(Refreshing(t))
  BY <1>1, SessionsFinite, FS_Subset
<1> QED BY <1>1, <1>2, FS_Subset, FS_CardinalityType

\* What is counted of token t, in this state and the next.
CountsAfter(t) ==
    /\ Cardinality(Refreshing(t)') <= peak'[t]
    /\ exchanged'[t] + Cardinality(Rotating(t)') <= peak'[t]

\* Where the requests in progress, and those that found their token, do not grow, and
\* no pair is issued, the counts still hold.
LEMMA CountsShrink ==
    ASSUME IInv, NEW t \in Tokens, Refreshing(t)' \subseteq Refreshing(t), Rotating(t)' \subseteq Rotating(t),
           exchanged'[t] = exchanged[t], peak'[t] = peak[t]
    PROVE  CountsAfter(t)
<1>1. /\ Cardinality(Refreshing(t)') <= Cardinality(Refreshing(t)) /\ Cardinality(Refreshing(t)') \in Nat
      /\ Cardinality(Rotating(t)') <= Cardinality(Rotating(t)) /\ Cardinality(Rotating(t)') \in Nat
  BY SetsFinite, FS_Subset, FS_CardinalityType
<1>2. exchanged[t] \in Nat /\ peak[t] \in Nat
  BY DEF IInv, TypeOK
<1>3. Cardinality(Refreshing(t)) <= peak[t] /\ exchanged[t] + Cardinality(Rotating(t)) <= peak[t]
  BY DEF IInv, ExchangesCounted
<1> QED BY <1>1, <1>2, <1>3, SetsFinite DEF CountsAfter

LEMMA CountedStep == ASSUME IInv, [Next]_vars PROVE ExchangesCounted'
<1>0. TypeOK /\ LocalsFit /\ SpentStaysOut /\ ExchangesCounted /\ TypeOK'
  BY TypeStep DEF IInv
<1>e. (\A t \in Tokens : CountsAfter(t)) => ExchangesCounted'
  BY DEF ExchangesCounted, CountsAfter
<1>s. ASSUME NEW s \in Sessions, Act(s), NEW t \in Tokens
      PROVE  /\ Refreshing(t)' \subseteq Refreshing(t) \cup {s}
             /\ Rotating(t)' \subseteq Rotating(t) \cup {s}
             /\ (~(req'[s].op = "refresh" /\ req'[s].token = t) \/ s \in Refreshing(t))
                   => Refreshing(t)' \subseteq Refreshing(t)
             /\ (pc'[s] \notin {"remove", "store"} \/ ~(req'[s].op = "refresh" /\ req'[s].token = t)
                   \/ s \in Rotating(t)) => Rotating(t)' \subseteq Rotating(t)
  BY <1>0, <1>s, RequestStep DEF Refreshing, Rotating
<1>1. ASSUME NEW s \in Sessions, StartRefresh(s) PROVE ExchangesCounted'
  <2>1. /\ pc'[s] = "lookup" /\ req'[s].op = "refresh" /\ req'[s].token \in Tokens
        /\ peak' = [peak EXCEPT ![req'[s].token] =
                         IF Cardinality(Refreshing(req'[s].token)) + 1 > @
                         THEN Cardinality(Refreshing(req'[s].token)) + 1 ELSE @]
        /\ exchanged' = exchanged /\ pc[s] = "idle"
    BY <1>0, <1>1, RefreshEffect DEF TypeOK
  <2>2. ASSUME NEW t \in Tokens PROVE CountsAfter(t)
    <3>0. /\ Refreshing(t)' \subseteq Refreshing(t) \cup {s} /\ Rotating(t)' \subseteq Rotating(t)
          /\ req'[s].token # t => Refreshing(t)' \subseteq Refreshing(t)
      BY <1>1, <1>s, <2>1 DEF Act, Start
    <3>1. CASE t # req'[s].token
      BY <2>1, <3>0, <3>1, <1>0, CountsShrink DEF TypeOK
    <3>2. CASE t = req'[s].token
      <4>1. s \notin Refreshing(t)
        BY <1>0, <2>1 DEF LocalsFit, Refreshing, NoRequest
      <4>2. /\ IsFiniteSet(Refreshing(t) \cup {s})
            /\ Cardinality(Refreshing(t) \cup {s}) = Cardinality(Refreshing(t)) + 1
        BY <4>1, SetsFinite, FS_AddElement
      <4>3. Cardinality(Refreshing(t)') <= Cardinality(Refreshing(t)) + 1 /\ Cardinality(Refreshing(t)') \in Nat
        BY <3>0, <4>2, FS_Subset, FS_CardinalityType
      <4>4. Cardinality(Rotating(t)') <= Cardinality(Rotating(t)) /\ Cardinality(Rotating(t)') \in Nat
        BY <3>0, SetsFinite, FS_Subset, FS_CardinalityType
      <4>5. /\ peak'[t] = IF Cardinality(Refreshing(t)) + 1 > peak[t]
                          THEN Cardinality(Refreshing(t)) + 1 ELSE peak[t]
            /\ exchanged'[t] = exchanged[t] /\ peak[t] \in Nat /\ exchanged[t] \in Nat
            /\ exchanged[t] + Cardinality(Rotating(t)) <= peak[t]
        BY <1>0, <2>1, <3>2 DEF TypeOK, ExchangesCounted
      <4> QED BY <4>3, <4>4, <4>5, SetsFinite DEF CountsAfter
    <3> QED BY <3>1, <3>2
  <2> QED BY <1>e, <2>2
<1>2. ASSUME NEW s \in Sessions, Lookup(s) PROVE ExchangesCounted'
  <2>1. /\ pc'[s] = (IF req[s].token \in store THEN "remove" ELSE "reject") /\ req' = req
        /\ exchanged' = exchanged /\ peak' = peak /\ req[s].op = "refresh" /\ pc[s] = "lookup"
    BY <1>0, <1>2, GotoEffect DEF Lookup, Found, history, LocalsFit
  <2>2. ASSUME NEW t \in Tokens PROVE CountsAfter(t)
    <3>0. Refreshing(t)' \subseteq Refreshing(t)
      BY <2>1 DEF Refreshing
    <3>1. CASE t = req[s].token /\ t \in store
      <4>1. Rotating(t)' \subseteq Refreshing(t)
        BY <3>0 DEF Rotating
      <4>2. /\ Cardinality(Rotating(t)') <= Cardinality(Refreshing(t)) /\ Cardinality(Rotating(t)') \in Nat
            /\ Cardinality(Refreshing(t)') <= Cardinality(Refreshing(t)) /\ Cardinality(Refreshing(t)') \in Nat
        BY <3>0, <4>1, SetsFinite, FS_Subset, FS_CardinalityType
      <4>3. exchanged[t] = 0 /\ Cardinality(Refreshing(t)) <= peak[t] /\ peak[t] \in Nat
        BY <1>0, <3>1 DEF SpentStaysOut, ExchangesCounted, TypeOK
      <4> QED BY <2>1, <4>2, <4>3, SetsFinite DEF CountsAfter
    <3>2. CASE ~(t = req[s].token /\ t \in store)
      <4>1. Rotating(t)' \subseteq Rotating(t)
        BY <1>2, <1>s, <2>1, <3>2 DEF Act, Continue
      <4> QED BY <2>1, <3>0, <4>1, CountsShrink
    <3> QED BY <3>1, <3>2
  <2> QED BY <1>e, <2>2
<1>3. ASSUME NEW s \in Sessions, Store(s) PROVE ExchangesCounted'
  <2>1. /\ pc[s] = "store" /\ pc'[s] = "answer"
        /\ req'[s].op = req[s].op /\ req'[s].token = req[s].token
    BY <1>0, <1>3, StoreEffect
  <2>2. ASSUME NEW t \in Tokens PROVE CountsAfter(t)
    <3>0. Refreshing(t)' \subseteq Refreshing(t) /\ Rotating(t)' \subseteq Rotating(t)
      BY <1>3, <1>s, <2>1 DEF Act, Continue, Refreshing
    <3>1. CASE req[s].op = "refresh" /\ t = req[s].token
      <4>1. s \in Rotating(t) /\ Rotating(t)' \subseteq Rotating(t) \ {s}
        BY <2>1, <3>0, <3>1 DEF Rotating, Refreshing
      <4>2. /\ IsFiniteSet(Rotating(t) \ {s})
            /\ Cardinality(Rotating(t) \ {s}) = Cardinality(Rotating(t)) - 1
        BY <4>1, SetsFinite, FS_RemoveElement
      <4>3. Cardinality(Rotating(t)') <= Cardinality(Rotating(t)) - 1 /\ Cardinality(Rotating(t)') \in Nat
        BY <4>1, <4>2, FS_Subset, FS_CardinalityType
      <4>4. Cardinality(Refreshing(t)') <= Cardinality(Refreshing(t)) /\ Cardinality(Refreshing(t)') \in Nat
        BY <3>0, SetsFinite, FS_Subset, FS_CardinalityType
      <4>5. /\ exchanged'[t] = exchanged[t] + 1 /\ exchanged[t] \in Nat /\ peak'[t] = peak[t] /\ peak[t] \in Nat
            /\ exchanged[t] + Cardinality(Rotating(t)) <= peak[t] /\ Cardinality(Refreshing(t)) <= peak[t]
        BY <1>0, <1>3, <3>1 DEF Store, ExchangesCounted, TypeOK
      <4> QED BY <4>3, <4>4, <4>5, SetsFinite DEF CountsAfter
    <3>2. CASE ~(req[s].op = "refresh" /\ t = req[s].token)
      <4>1. exchanged'[t] = exchanged[t] /\ peak'[t] = peak[t]
        BY <1>0, <1>3, <3>2 DEF Store, TypeOK
      <4> QED BY <3>0, <4>1, CountsShrink
    <3> QED BY <3>1, <3>2
  <2> QED BY <1>e, <2>2
<1>4. ASSUME NEW s \in Sessions, Act(s), ~StartRefresh(s), ~Lookup(s), ~Store(s) PROVE ExchangesCounted'
  <2>1. exchanged' = exchanged /\ peak' = peak
    BY <1>4, ActCases DEF StartSignin, StartLogout, VerifyPassword, LookupFails, Reject, Remove, Answer, Forget, Fail, history
  <2>2. ASSUME NEW t \in Tokens PROVE Refreshing(t)' \subseteq Refreshing(t) /\ Rotating(t)' \subseteq Rotating(t)
    <3>1. CASE StartSignin(s) \/ StartLogout(s)
      BY <1>0, <1>4, <1>s, <3>1, SigninEffect, LogoutEffect
    <3>2. CASE Finish(s)
      BY <1>0, <1>4, <1>s, <3>2, FinishEffect
    <3>3. CASE VerifyPassword(s) /\ ~Finish(s)
      <4>1. req' = req /\ req[s].op = "signin"
        BY <1>0, <3>3 DEF VerifyPassword, LocalsFit
      <4> QED BY <1>4, <1>s, <4>1
    <3>4. CASE Remove(s)
      <4>1. req' = req /\ pc[s] = "remove"
        BY <3>4 DEF Remove
      <4> QED BY <1>4, <1>s, <4>1 DEF Refreshing, Rotating
    <3>5. CASE LookupFails(s)
      <4>1. req' = req /\ pc'[s] = "reject"
        BY <1>0, <3>5, GotoEffect DEF LookupFails
      <4> QED BY <1>4, <1>s, <4>1 DEF Refreshing, Rotating
    <3> QED BY <1>4, <3>1, <3>2, <3>3, <3>4, <3>5, ActCases DEF Reject, Answer, Forget, Fail
  <2>3. ASSUME NEW t \in Tokens PROVE CountsAfter(t)
    BY <2>1, <2>2, CountsShrink
  <2> QED BY <1>e, <2>3
<1>5. ASSUME NEW u \in Users, UpdateStaff(u) PROVE ExchangesCounted'
  <2>1. exchanged' = exchanged /\ peak' = peak /\ pc' = pc
        /\ \A x \in Sessions : req'[x].op = req[x].op /\ req'[x].token = req[x].token
    BY <1>0, <1>5, CrossedStep DEF history
  <2>2. ASSUME NEW t \in Tokens PROVE Refreshing(t)' \subseteq Refreshing(t) /\ Rotating(t)' \subseteq Rotating(t)
    BY <2>1 DEF Refreshing, Rotating
  <2>3. ASSUME NEW t \in Tokens PROVE CountsAfter(t)
    BY <2>1, <2>2, CountsShrink
  <2> QED BY <1>e, <2>3
<1>6. CASE UNCHANGED <<pc, req, exchanged, peak>>
  BY <1>0, <1>6 DEF ExchangesCounted, Refreshing, Rotating
<1> QED BY <1>1, <1>2, <1>3, <1>4, <1>5, <1>6, StepCases DEF Expire, Outdate, vars, history

-----------------------------------------------------------------------------
(* Sessions                                                                 *)

\* What keeps a session of line c: an entry its client can exchange, or a request in
\* progress, of session x, that is about to issue or to deliver one.
Held(c)      == \E t \in known \cap store : chain[t] = c
Served(c, x) == /\ req[x].op = "refresh" /\ chain[req[x].token] = c
                /\ \/ pc[x] = "store"
                   \/ pc[x] = "answer" /\ req[x].new \in store

\* Line c has reached a client, and lost no token.
Line(c) == c \notin lost /\ \E t \in known : chain[t] = c
Alive(c) == Held(c) \/ \E x \in Sessions : Served(c, x)

LEMMA SessionStep == ASSUME IInv, [Next]_vars PROVE SessionKept'
<1>0. TypeOK /\ LocalsFit /\ NewFits /\ SpentStaysOut /\ SessionKept /\ TypeOK'
  BY TypeStep DEF IInv
<1>d. ASSUME NEW c, Line(c) PROVE Alive(c)
  BY <1>0, <1>d DEF SessionKept, Line, Alive, Held, Served
<1>e. ASSUME \A c : Line(c)' => Alive(c)' PROVE SessionKept'
  BY <1>e DEF SessionKept, Line, Alive, Held, Served
<1>k. \A t \in Tokens : owner[t] # None => chain'[t] = chain[t]
  BY <1>0, Kept
<1>o. ASSUME NEW x \in Sessions, NEW c, Served(c, x), pc'[x] = pc[x], req'[x] = req[x],
             req[x].new \in store => req[x].new \in store'
      PROVE  Served(c, x)'
  <2>1. req[x].token \in Tokens /\ chain'[req[x].token] = chain[req[x].token]
    BY <1>0, <1>k, <1>o DEF LocalsFit, Served, TypeOK
  <2> QED BY <1>o, <2>1 DEF Served
<1>h. ASSUME NEW c, Held(c), store \subseteq store', known' = known PROVE Held(c)'
  <2>1. PICK t \in known \cap store : chain[t] = c
    BY <1>h DEF Held
  <2>2. t \in known' /\ t \in store' /\ chain'[t] = chain[t]
    BY <1>0, <1>h, <1>k DEF TypeOK
  <2> QED BY <2>1, <2>2 DEF Held
<1>1. ASSUME NEW s \in Sessions, Store(s) PROVE SessionKept'
  <2>1. PICK n \in Tokens :
           /\ store' = store \cup {n} /\ n \notin known /\ req'[s].new = n /\ pc'[s] = "answer"
           /\ pc[s] = "store" /\ req'[s].op = req[s].op /\ req'[s].token = req[s].token
    BY <1>0, <1>1, StoreEffect
  <2>2. known' = known /\ lost' = lost
    BY <1>1 DEF Store
  <2>3. ASSUME NEW c, Line(c)' PROVE Alive(c)'
    <3>1. Line(c)
      BY <1>0, <1>k, <2>2, <2>3 DEF Line, TypeOK
    <3>2. CASE Held(c)
      BY <1>h, <2>1, <2>2, <3>2 DEF Alive
    <3>3. ASSUME NEW x \in Sessions, Served(c, x) PROVE Served(c, x)'
      <4>1. CASE x = s
        <5>1. req[s].op = "refresh" /\ chain[req[s].token] = c
          BY <3>3, <4>1 DEF Served
        <5>2. chain'[req[s].token] = c
          BY <1>0, <1>k, <5>1 DEF LocalsFit, TypeOK
        <5> QED BY <2>1, <4>1, <5>1, <5>2 DEF Served
      <4>2. CASE x # s
        <5>1. pc'[x] = pc[x] /\ req'[x] = req[x]
          BY <1>0, <1>1, <4>2, RequestStep DEF Act, Continue
        <5> QED BY <1>1, <1>o, <2>1, <3>3, <5>1
      <4> QED BY <4>1, <4>2
    <3> QED BY <1>d, <3>1, <3>2, <3>3 DEF Alive
  <2> QED BY <1>e, <2>3
<1>2. ASSUME NEW s \in Sessions, Remove(s) PROVE SessionKept'
  <2>1. /\ store' = store \ {req[s].token} /\ req' = req /\ pc'[s] = "store" /\ req[s].op = "refresh"
        /\ UNCHANGED <<known, chain, lost>>
    BY <1>0, <1>2, GotoEffect DEF Remove, Removed, LocalsFit, tokens, history
  <2>2. ASSUME NEW c, Line(c)' PROVE Alive(c)'
    <3>1. ASSUME NEW t \in known \cap store, chain[t] = c
          PROVE  Held(c)' \/ Served(c, s)'
      BY <2>1, <3>1 DEF Held, Served
    <3>2. ASSUME NEW x \in Sessions, Served(c, x) PROVE Served(c, x)'
      <4>1. x # s
        BY <1>2, <3>2 DEF Served, Remove
      <4>2. pc'[x] = pc[x] /\ req'[x] = req[x]
        BY <1>0, <1>2, <4>1, RequestStep DEF Act, Continue
      <4>3. pc[x] = "answer" => req[x].new # req[s].token
        BY <1>0, <2>1 DEF NewFits
      <4> QED BY <2>1, <3>2, <4>2, <4>3 DEF Served
    <3>3. Line(c)
      BY <2>1, <2>2 DEF Line
    <3> QED BY <1>d, <3>1, <3>2, <3>3 DEF Alive, Held
  <2> QED BY <1>e, <2>2
<1>3. ASSUME NEW s \in Sessions, Answer(s) PROVE SessionKept'
  <2>1. /\ pc[s] = "answer" /\ known' = known \cup {req[s].new} /\ UNCHANGED <<store, chain, lost>>
    BY <1>3 DEF Answer, history
  <2>2. ASSUME NEW c, Line(c)' PROVE Alive(c)'
    <3>1. CASE chain[req[s].new] = c
      <4>1. req[s].new \in store
        BY <1>0, <2>1, <2>2, <3>1 DEF NewFits, Line
      <4> QED BY <2>1, <3>1, <4>1 DEF Held, Alive
    <3>2. CASE Held(c)
      BY <2>1, <3>2 DEF Held, Alive
    <3>3. ASSUME NEW x \in Sessions, Served(c, x)
          PROVE  Held(c)' \/ Served(c, x)'
      <4>1. CASE x = s
        <5>1. req[s].new \in store /\ chain[req[s].new] = c
          BY <1>0, <2>1, <3>3, <4>1 DEF Served, NewFits
        <5> QED BY <2>1, <5>1 DEF Held
      <4>2. CASE x # s
        <5>1. pc'[x] = pc[x] /\ req'[x] = req[x]
          BY <1>0, <1>3, <4>2, RequestStep DEF Act, Continue
        <5> QED BY <1>o, <2>1, <3>3, <5>1
      <4> QED BY <4>1, <4>2
    <3>4. chain[req[s].new] # c => Line(c)
      BY <2>1, <2>2 DEF Line
    <3> QED BY <1>d, <3>1, <3>2, <3>3, <3>4 DEF Alive
  <2> QED BY <1>e, <2>2
<1>4. ASSUME NEW t \in Tokens, Expire(t) PROVE SessionKept'
  <2>1. /\ store' = store \ {t} /\ lost' = lost \cup {chain[t]}
        /\ UNCHANGED <<known, chain, pc, req>>
    BY <1>4 DEF Expire, tokens
  <2>2. ASSUME NEW c, Line(c)' PROVE Alive(c)'
    <3>0. Line(c) /\ c # chain[t]
      BY <2>1, <2>2 DEF Line
    <3>1. CASE Held(c)
      BY <2>1, <3>0, <3>1 DEF Held, Alive
    <3>2. ASSUME NEW x \in Sessions, Served(c, x) PROVE Served(c, x)'
      <4>1. pc[x] = "answer" => req[x].new # t
        BY <1>0, <3>0, <3>2 DEF Served, NewFits
      <4> QED BY <2>1, <3>2, <4>1 DEF Served
    <3> QED BY <1>d, <3>0, <3>1, <3>2 DEF Alive
  <2> QED BY <1>e, <2>2
<1>9. ASSUME NEW t \in Tokens, Outdate(t) PROVE SessionKept'
  <2>1. /\ known' = known \ {t} /\ lost' = lost \cup {chain[t]}
        /\ UNCHANGED <<store, chain, pc, req>>
    BY <1>9 DEF Outdate
  <2>2. ASSUME NEW c, Line(c)' PROVE Alive(c)'
    <3>0. Line(c) /\ c # chain[t]
      BY <2>1, <2>2 DEF Line
    <3>1. CASE Held(c)
      BY <2>1, <3>0, <3>1 DEF Held, Alive
    <3>2. \A x \in Sessions : Served(c, x) => Served(c, x)'
      BY <2>1 DEF Served
    <3> QED BY <1>d, <3>0, <3>1, <3>2 DEF Alive
  <2> QED BY <1>e, <2>2
<1>10. ASSUME NEW s \in Sessions, Reject(s) PROVE SessionKept'
  <2>1. /\ store' = store \ {req[s].token} /\ pc[s] = "reject" /\ req[s].op = "refresh"
        /\ req[s].token \notin store \/ chain[req[s].token] \in lost
        /\ UNCHANGED <<known, chain, lost>>
    BY <1>0, <1>10 DEF Reject, Rejected, SpentStaysOut, LocalsFit, tokens, history
  <2>2. ASSUME NEW c, Line(c)' PROVE Alive(c)'
    <3>0. Line(c)
      BY <2>1, <2>2 DEF Line
    <3>1. CASE Held(c)
      BY <2>1, <3>0, <3>1 DEF Held, Alive, Line
    <3>2. ASSUME NEW x \in Sessions, Served(c, x) PROVE Served(c, x)'
      <4>1. x # s
        BY <2>1, <3>2 DEF Served
      <4>2. pc'[x] = pc[x] /\ req'[x] = req[x]
        BY <1>0, <1>10, <4>1, RequestStep DEF Act, Continue
      <4>3. pc[x] = "answer" => req[x].new # req[s].token
        BY <1>0, <2>1 DEF NewFits
      <4> QED BY <1>o, <2>1, <3>2, <4>2, <4>3 DEF Served
    <3> QED BY <1>d, <3>0, <3>1, <3>2 DEF Alive
  <2> QED BY <1>e, <2>2
<1>5. ASSUME NEW s \in Sessions, Fail(s) \/ LookupFails(s) PROVE SessionKept'
  <2>1. /\ UNCHANGED <<store, known, chain>> /\ lost \subseteq lost'
        /\ pc[s] \in {"store", "answer"} /\ req[s].op = "refresh" => chain[req[s].token] \in lost'
    BY <1>5 DEF Fail, LookupFails, tokens
  <2>2. ASSUME NEW c, Line(c)' PROVE Alive(c)'
    <3>0. Line(c)
      BY <2>1, <2>2 DEF Line
    <3>1. CASE Held(c)
      BY <2>1, <3>1 DEF Held, Alive
    <3>2. ASSUME NEW x \in Sessions, Served(c, x) PROVE Served(c, x)'
      <4>1. x # s
        BY <2>1, <2>2, <3>2 DEF Served, Line
      <4>2. pc'[x] = pc[x] /\ req'[x] = req[x]
        BY <1>0, <1>5, <4>1, RequestStep DEF Act, Continue
      <4> QED BY <1>o, <2>1, <3>2, <4>2
    <3> QED BY <1>d, <3>0, <3>1, <3>2 DEF Alive
  <2> QED BY <1>e, <2>2
<1>6. ASSUME NEW s \in Sessions, Act(s), ~Store(s), ~Remove(s), ~Answer(s), ~Fail(s),
             ~LookupFails(s), ~Reject(s)
      PROVE  SessionKept'
  <2>1. store' = store
    <3>2. CASE Forget(s)
      <4>1. req[s].token = None
        BY <1>0, <3>2 DEF Forget, LocalsFit
      <4> QED BY <1>0, <3>2, <4>1, NoneIsNew DEF Forget, LogoutToken, TypeOK
    <3> QED BY <1>6, <3>2, ActCases DEF StartSignin, StartRefresh, StartLogout, VerifyPassword, Lookup
  <2>2. UNCHANGED <<known, chain, lost>>
    BY <1>6, ActCases DEF StartSignin, StartRefresh, StartLogout, VerifyPassword, Lookup, LookupFails, Reject,
       Forget, tokens, history
  <2>3. pc[s] \in {"idle", "verify", "lookup", "reject", "forget"}
    BY <1>6, ActCases DEF StartSignin, StartRefresh, StartLogout, Begin, VerifyPassword, Lookup, LookupFails, Reject, Forget
  <2>4. ASSUME NEW c, Line(c)' PROVE Alive(c)'
    <3>1. CASE Held(c)
      BY <2>1, <2>2, <3>1 DEF Held, Alive
    <3>2. ASSUME NEW x \in Sessions, Served(c, x) PROVE Served(c, x)'
      <4>1. x # s
        BY <2>3, <3>2 DEF Served
      <4>2. pc'[x] = pc[x] /\ req'[x] = req[x]
        BY <1>0, <1>6, <4>1, RequestStep
      <4> QED BY <1>o, <2>1, <2>2, <3>2, <4>2
    <3>3. Line(c)
      BY <2>2, <2>4 DEF Line
    <3> QED BY <1>d, <3>1, <3>2, <3>3 DEF Alive
  <2> QED BY <1>e, <2>4
<1>7. ASSUME NEW u \in Users, UpdateStaff(u) PROVE SessionKept'
  <2>1. UNCHANGED <<store, known, chain, lost, pc>>
    BY <1>0, <1>7, CrossedStep DEF tokens, history
  <2>2. ASSUME NEW x \in Sessions, NEW c, Served(c, x) PROVE Served(c, x)'
    <3>1. req'[x].op = req[x].op /\ req'[x].token = req[x].token /\ req'[x].new = req[x].new
      BY <1>0, <1>7, CrossedStep
    <3> QED BY <2>1, <2>2, <3>1 DEF Served
  <2>3. ASSUME NEW c, Held(c) PROVE Held(c)'
    BY <2>1, <2>3 DEF Held
  <2>4. ASSUME NEW c, Line(c)' PROVE Alive(c)'
    <3>1. Line(c)
      BY <2>1, <2>4 DEF Line
    <3> QED BY <1>d, <2>2, <2>3, <3>1 DEF Alive
  <2> QED BY <1>e, <2>4
<1>8. CASE UNCHANGED vars
  BY <1>0, <1>8 DEF vars, tokens, history, SessionKept
<1> QED BY <1>1, <1>2, <1>3, <1>4, <1>5, <1>6, <1>7, <1>8, <1>9, <1>10, StepCases

-----------------------------------------------------------------------------
(* The lines of tokens.                                                     *)

LEMMA BalanceTyped ==
    ASSUME TypeOK, NEW c
    PROVE  \A t \in Tokens : LineBalance(c)[t] \in Int
BY DEF LineBalance, TypeOK

LEMMA LinesStep == ASSUME IInv, [Next]_vars PROVE LinesAddUp'
<1>0. TypeOK /\ LocalsFit /\ SignedInLine /\ SpentStaysOut /\ LinesAddUp /\ TypeOK'
  BY TypeStep DEF IInv
<1>a. \A t \in Tokens : chain[t] # None => chain[t] \in Tokens /\ chain[chain[t]] = chain[t]
  BY <1>0 DEF LinesAddUp, TypeOK
<1>b. \A c \in Tokens : /\ SumFunctionOnSet(LineBalance(c), Tokens) = IF chain[c] = c THEN 1 ELSE 0
                        /\ SumFunctionOnSet(LineBalance(c), Tokens) \in Int
  BY <1>0 DEF LinesAddUp
<1>1. ASSUME NEW s \in Sessions, Store(s) PROVE LinesAddUp'
  <2>1. PICK n \in Tokens :
           /\ owner[n] = None /\ pc[s] = "store"
           /\ chain' = [chain EXCEPT ![n] = IF req[s].op = "refresh" THEN chain[req[s].token] ELSE n]
           /\ req[s].op = "refresh" => n # req[s].token
    BY <1>0, <1>1, StoreEffect
  <2>2. chain[n] = None /\ exchanged[n] = 0 /\ \A t \in Tokens : chain[t] # n
    BY <1>0, <1>a, <2>1, NoneIsNew DEF SignedInLine, SpentStaysOut
  <2>3. \A t \in Tokens \ {n} : chain'[t] = chain[t]
    BY <1>0, <2>1 DEF TypeOK
  <2>4. \A c \in Tokens, t \in Tokens :
           /\ LineBalance(c)[t] = IF chain[t] = c THEN 1 - exchanged[t] ELSE 0
           /\ LineBalance(c)'[t] = IF chain'[t] = c THEN 1 - exchanged'[t] ELSE 0
    BY DEF LineBalance
  <2>5. CASE req[s].op = "signin"
    <3>1. chain'[n] = n /\ exchanged' = exchanged
      BY <1>0, <1>1, <2>1, <2>5 DEF Store, TypeOK
    <3>2. \A t \in Tokens : chain'[t] # None => chain'[chain'[t]] = chain'[t]
      BY <1>a, <2>2, <2>3, <3>1
    <3>3. ASSUME NEW c \in Tokens
          PROVE  SumFunctionOnSet(LineBalance(c)', Tokens) = IF chain'[c] = c THEN 1 ELSE 0
      <4>1. \A t \in Tokens \ {n} : LineBalance(c)'[t] = LineBalance(c)[t]
        BY <2>3, <2>4, <3>1
      <4>2. /\ LineBalance(c)[n] = 0
            /\ LineBalance(c)'[n] = IF c = n THEN 1 ELSE 0
        BY <2>2, <2>4, <3>1, NoneIsNew
      <4>3. SumFunctionOnSet(LineBalance(c)', Tokens) =
               SumFunctionOnSet(LineBalance(c), Tokens) - LineBalance(c)[n] + LineBalance(c)'[n]
        <5>1. \A t \in Tokens : LineBalance(c)[t] \in Int /\ LineBalance(c)'[t] \in Int
          BY <1>0, <2>4 DEF TypeOK
        <5> QED BY <4>1, <5>1, TokensFinite, SumChange
      <4>4. (chain'[c] = c) <=> (c = n \/ chain[c] = c)
        BY <2>3, <3>1
      <4> QED BY <1>b, <2>2, <4>2, <4>3, <4>4, NoneIsNew
    <3> QED BY <3>2, <3>3 DEF LinesAddUp
  <2>6. CASE req[s].op = "refresh"
    <3> DEFINE r == req[s].token
               d == chain[r]
    <3>1. r \in Tokens /\ r # n /\ d \in Tokens /\ chain[d] = d /\ d # n
      BY <1>0, <1>a, <2>1, <2>2, <2>6 DEF LocalsFit, SignedInLine, TypeOK
    <3>2. chain'[n] = d /\ exchanged' = [exchanged EXCEPT ![r] = @ + 1]
      BY <1>0, <1>1, <2>1, <2>6 DEF Store, TypeOK
    <3> HIDE DEF d, r
    <3>3. \A t \in Tokens : chain'[t] # None => chain'[chain'[t]] = chain'[t]
      BY <1>a, <2>2, <2>3, <3>1, <3>2
    <3>4. exchanged[r] \in Nat /\ exchanged'[r] = exchanged[r] + 1
          /\ \A t \in Tokens \ {r} : exchanged'[t] = exchanged[t]
      BY <1>0, <3>1, <3>2 DEF TypeOK
    <3>5. ASSUME NEW c \in Tokens
          PROVE  SumFunctionOnSet(LineBalance(c)', Tokens) = IF chain'[c] = c THEN 1 ELSE 0
      <4>1. (chain'[c] = c) <=> (chain[c] = c)
        BY <2>2, <2>3, <3>1, <3>2, NoneIsNew
      <4>2. \A t \in Tokens : LineBalance(c)[t] \in Int /\ LineBalance(c)'[t] \in Int
        BY <1>0, <2>4 DEF TypeOK
      <4>3. CASE c # d
        <5>1. \A t \in Tokens : LineBalance(c)'[t] = LineBalance(c)[t]
          <6>1. LineBalance(c)'[n] = LineBalance(c)[n]
            BY <2>2, <2>4, <3>1, <3>2, <4>3, NoneIsNew
          <6>2. LineBalance(c)'[r] = LineBalance(c)[r]
            BY <2>3, <2>4, <3>1, <4>3 DEF d
          <6>3. \A t \in Tokens \ {n, r} : LineBalance(c)'[t] = LineBalance(c)[t]
            BY <2>3, <2>4, <3>4
          <6> QED BY <6>1, <6>2, <6>3
        <5>2. SumFunctionOnSet(LineBalance(c)', Tokens) = SumFunctionOnSet(LineBalance(c), Tokens)
          BY <4>2, <5>1, TokensFinite, SumEqual
        <5> QED BY <1>b, <4>1, <5>2
      <4>4. CASE c = d
        <5> DEFINE mid == [LineBalance(c) EXCEPT ![n] = 1]
        <5>1. /\ \A t \in Tokens \ {n} : mid[t] = LineBalance(c)[t]
              /\ mid[n] = 1
          BY DEF LineBalance
        <5>2. LineBalance(c)[n] = 0 /\ LineBalance(c)'[n] = 1
          BY <2>2, <2>4, <3>1, <3>2, <3>4, <4>4, NoneIsNew
        <5>3. LineBalance(c)'[r] = LineBalance(c)[r] - 1
          BY <2>3, <2>4, <3>1, <3>4, <4>4 DEF d
        <5>4. \A t \in Tokens \ {n, r} : LineBalance(c)'[t] = LineBalance(c)[t]
          BY <2>3, <2>4, <3>4
        <5> HIDE DEF mid
        <5>5. /\ \A t \in Tokens : mid[t] \in Int
              /\ \A t \in Tokens \ {r} : LineBalance(c)'[t] = mid[t]
              /\ mid[r] = LineBalance(c)[r]
          BY <3>1, <4>2, <5>1, <5>2, <5>4
        <5>6. SumFunctionOnSet(mid, Tokens) =
                 SumFunctionOnSet(LineBalance(c), Tokens) - LineBalance(c)[n] + mid[n]
          <6>1. \A t \in Tokens : LineBalance(c)[t] \in Int /\ mid[t] \in Int
            BY <4>2, <5>5
          <6> QED BY <5>1, <6>1, TokensFinite, SumChange
        <5>7. SumFunctionOnSet(LineBalance(c)', Tokens) =
                 SumFunctionOnSet(mid, Tokens) - mid[r] + LineBalance(c)'[r]
          <6>1. \A t \in Tokens : mid[t] \in Int /\ LineBalance(c)'[t] \in Int
            BY <4>2, <5>5
          <6>2. \A t \in Tokens \ {r} : LineBalance(c)'[t] = mid[t]
            BY <5>5
          <6>3. r \in Tokens
            BY <3>1
          <6> QED BY <6>1, <6>2, <6>3, TokensFinite, SumChange
        <5>8. LineBalance(c)[r] \in Int /\ SumFunctionOnSet(LineBalance(c), Tokens) \in Int
          BY <1>b, <3>1, <4>2
        <5>9. SumFunctionOnSet(LineBalance(c)', Tokens) = SumFunctionOnSet(LineBalance(c), Tokens)
          BY <5>1, <5>2, <5>3, <5>5, <5>6, <5>7, <5>8
        <5> QED BY <1>b, <4>1, <5>9
      <4> QED BY <4>3, <4>4
    <3> QED BY <3>3, <3>5 DEF LinesAddUp
  <2>7. req[s].op \in {"signin", "refresh"}
    BY <1>0, <2>1 DEF LocalsFit
  <2> QED BY <2>5, <2>6, <2>7
<1>2. CASE UNCHANGED <<chain, exchanged>>
  BY <1>0, <1>2 DEF LinesAddUp, LineBalance
<1>3. ASSUME NEW s \in Sessions, Act(s), ~Store(s) PROVE UNCHANGED <<chain, exchanged>>
  BY <1>0, <1>3, StoreShrinks
<1> QED BY <1>1, <1>2, <1>3, StepCases DEF UpdateStaff, Expire, Outdate, vars, tokens, history

\* Of the tokens of a line that were exchanged once at most, one was not exchanged.
LEMMA OneUnexchanged ==
    ASSUME IInv, NEW c \in Tokens, \A t \in Tokens : chain[t] = c => exchanged[t] <= 1,
           NEW t \in Tokens, chain[t] = c, exchanged[t] = 0,
           NEW u \in Tokens, chain[u] = c, exchanged[u] = 0
    PROVE  t = u
<1>1. \A x \in Tokens : /\ LineBalance(c)[x] = IF chain[x] = c THEN 1 - exchanged[x] ELSE 0
                        /\ LineBalance(c)[x] \in Nat
  BY DEF LineBalance, IInv, TypeOK
<1>2. SumFunctionOnSet(LineBalance(c), Tokens) \in {0, 1}
  BY DEF IInv, LinesAddUp
<1>3. \A x, y \in Tokens : x # y =>
         LineBalance(c)[x] + LineBalance(c)[y] <= SumFunctionOnSet(LineBalance(c), Tokens)
  BY <1>1, TokensFinite, SumOfNaturals
<1>4. LineBalance(c)[t] = 1 /\ LineBalance(c)[u] = 1
  BY <1>1
<1> QED BY <1>2, <1>3, <1>4

\* A set that is empty or a singleton.
LEMMA AtMostOne ==
    ASSUME NEW S, \A x, y \in S : x = y
    PROVE  /\ S # {} => Cardinality(S) = 1
           /\ S = {} => Cardinality(S) = 0
<1>1. CASE S = {}
  BY <1>1, FS_EmptySet
<1>2. CASE S # {}
  <2>1. PICK x \in S : S = {x}
    BY <1>2
  <2> QED BY <1>2, <2>1, FS_Singleton
<1> QED BY <1>1, <1>2

LEMMA LinesAreSingle == ASSUME IInv PROVE OneLine
<1> SUFFICES ASSUME NEW c \in Tokens,
                    \A t \in Tokens : chain[t] = c => Cardinality(Rotating(t)) + exchanged[t] <= 1
             PROVE  Cardinality(Live(c)) + Cardinality(Underway(c)) <= 1
  BY DEF OneLine
<1>0. TypeOK /\ LocalsFit /\ SpentStaysOut
  BY DEF IInv
<1>1. \A t \in Tokens : /\ IsFiniteSet(Rotating(t)) /\ Cardinality(Rotating(t)) \in Nat
                        /\ exchanged[t] \in Nat
  BY <1>0, SetsFinite DEF TypeOK
<1>2. \A t \in Tokens : chain[t] = c => exchanged[t] <= 1
  BY <1>1
<1>3. \A t \in Live(c) : t \in Tokens /\ chain[t] = c /\ exchanged[t] = 0 /\ t \in store
  BY <1>0 DEF Live, SpentStaysOut, TypeOK
<1>4. ASSUME NEW s \in Underway(c)
      PROVE  LET t == req[s].token
             IN  /\ t \in Tokens /\ chain[t] = c /\ exchanged[t] = 0 /\ t \notin store
                 /\ Rotating(t) = {s}
  <2> DEFINE t == req[s].token
  <2>1. t \in Tokens /\ chain[t] = c /\ t \notin store /\ s \in Rotating(t)
    BY <1>0 DEF Underway, LocalsFit, SpentStaysOut, TypeOK, Rotating, Refreshing
  <2>2. Cardinality(Rotating(t)) # 0
    BY <1>1, <2>1, FS_EmptySet
  <2>3. Cardinality(Rotating(t)) = 1 /\ exchanged[t] = 0
    BY <1>1, <2>1, <2>2
  <2>4. Rotating(t) = {s}
    <3>1. PICK x : Rotating(t) = {x}
      BY <1>1, <2>1, <2>3, FS_Singleton
    <3> QED BY <2>1, <3>1
  <2> QED BY <2>1, <2>3, <2>4
<1>5. \A t, u \in Live(c) : t = u
  BY <1>2, <1>3, OneUnexchanged
<1>6. \A s, x \in Underway(c) : s = x
  <2> SUFFICES ASSUME NEW s \in Underway(c), NEW x \in Underway(c)
               PROVE  s = x
    OBVIOUS
  <2>1. req[s].token = req[x].token
    BY <1>2, <1>4, OneUnexchanged
  <2> QED BY <1>4, <2>1
<1>7. Live(c) = {} \/ Underway(c) = {}
  <2> SUFFICES ASSUME NEW t \in Live(c), NEW s \in Underway(c)
               PROVE  FALSE
    OBVIOUS
  <2>1. t = req[s].token
    BY <1>2, <1>3, <1>4, OneUnexchanged
  <2> QED BY <1>3, <1>4, <2>1
<1> QED BY <1>5, <1>6, <1>7, AtMostOne

-----------------------------------------------------------------------------
(* Theorems                                                                 *)

LEMMA InitIInv == ASSUME Init PROVE IInv
<1>1. TypeOK /\ LocalsFit /\ SignedInLine
  <2>1. TypeOK
    BY NoRequestTyped DEF Init, TypeOK, Steps
  <2>2. \A s \in Sessions : pc[s] = "idle" /\ req[s] = NoRequest /\ req[s].op = "none"
    BY DEF Init, NoRequest
  <2> QED BY <2>1, <2>2 DEF Init, LocalsFit, SignedInLine
<1>2. \A s \in Sessions : pc[s] = "idle" /\ req[s].op = "none"
  BY DEF Init, NoRequest
<1>3. SpentStaysOut /\ NewFits /\ ReadCurrent /\ SessionKept
  BY <1>2 DEF Init, SpentStaysOut, NewFits, ReadCurrent, SessionKept
<1>4. ExchangesCounted
  <2>1. ASSUME NEW t \in Tokens PROVE Refreshing(t) = {} /\ Rotating(t) = {}
    BY <1>2 DEF Refreshing, Rotating
  <2>2. \A t \in Tokens : exchanged[t] = 0 /\ peak[t] = 0
    BY DEF Init
  <2> QED BY <2>1, <2>2, FS_EmptySet DEF ExchangesCounted
<1>5. LinesAddUp
  <2>1. ASSUME NEW c \in Tokens
        PROVE  SumFunctionOnSet(LineBalance(c), Tokens) = 0 /\ chain[c] = None
    <3>1. chain[c] = None /\ \A t \in Tokens : LineBalance(c)[t] = 0
      BY NoneIsNew DEF Init, LineBalance
    <3> QED BY <3>1, TokensFinite, SumZero
  <2> QED BY <2>1, NoneIsNew DEF LinesAddUp, Init
<1> QED BY <1>1, <1>3, <1>4, <1>5 DEF IInv

LEMMA StepIInv == ASSUME IInv, [Next]_vars PROVE IInv'
BY TypeStep, LocalsStep, LineStep, LinesStep, SpentStep, CountedStep, NewStep, ReadStep, SessionStep DEF IInv

\* The inductive invariant holds in every reachable state: whatever the requests, their
\* order, the updates of staff, the entries that expire and the requests that fail.
THEOREM Inductive == Spec => []IInv
<1>1. Init => IInv
  BY InitIInv
<1>2. IInv /\ [Next]_vars => IInv'
  BY StepIInv
<1> QED BY <1>1, <1>2, PTL DEF Spec

\* Every variable of AuthTokens stays in its type, an entry is only of a token signed
\* for a user, and clients know only signed tokens.
THEOREM TypeCorrect == Spec => []TypeOK
<1>1. IInv => TypeOK
  BY DEF IInv
<1> QED BY <1>1, Inductive, PTL

\* Rotation of refresh tokens (auth.service.ts:94) holds up to the requests that were in
\* progress at once: a token is exchanged at most as often as that.
THEOREM TokensRotatedOnce == Spec => []RotatedOnce
<1>1. IInv => RotatedOnce
  <2> SUFFICES ASSUME IInv, NEW t \in Tokens PROVE exchanged[t] <= peak[t]
    BY DEF RotatedOnce
  <2>1. exchanged[t] + Cardinality(Rotating(t)) <= peak[t]
    BY DEF IInv, ExchangesCounted
  <2>2. exchanged[t] \in Nat /\ peak[t] \in Nat /\ Cardinality(Rotating(t)) \in Nat
    BY SetsFinite DEF IInv, TypeOK
  <2> QED BY <2>1, <2>2
<1> QED BY <1>1, Inductive, PTL

\* A sign-in is followed by one line of tokens, one of which can be exchanged at a time,
\* unless two refreshes with the same token of the line were in progress at once.
THEOREM LinesStaySingle == Spec => []OneLine
BY LinesAreSingle, Inductive, PTL

\* A session that was signed in keeps a token to exchange, or a request that delivers the
\* next, until a token of its line or its entry expires, a lookup of it fails, or a request
\* fails after the old token went.
THEOREM SessionsKept == Spec => []SessionKept
<1>1. IInv => SessionKept
  BY DEF IInv
<1> QED BY <1>1, Inductive, PTL

\* A pair is issued to an active user, and on sign-in for the current password, unless
\* the row of the user was written while the request was in progress.
THEOREM PairsIssuedCurrent == Spec => []IssuedCurrent
<1>1. IInv => IssuedCurrent
  <2> SUFFICES ASSUME IInv, NEW s \in Sessions, pc[s] \in {"store", "answer"}, ~req[s].crossed
               PROVE  /\ active[req[s].user]
                      /\ req[s].op = "signin" => req[s].given = password[req[s].user]
    BY DEF IssuedCurrent
  <2>1. req[s].op \in {"signin", "refresh"} /\ (req[s].op = "signin" => req[s].given = req[s].seen)
    BY DEF IInv, LocalsFit
  <2> QED BY <2>1 DEF IInv, ReadCurrent
<1> QED BY <1>1, Inductive, PTL

-----------------------------------------------------------------------------
(***************************************************************************)
(* IDEMPOTENCY                                                              *)
(*                                                                          *)
(* ExecutedOnce is not inductive: that nobody runs a second time depends on  *)
(* what the cache says while an attempt is served.  KeyInv adds, for a key   *)
(* on which nothing excused has happened, that one attempt at most is        *)
(* served, that the entry is the mark while its handler runs, and that the   *)
(* entry is never vacant once a handler has run.                            *)
(***************************************************************************)
Clean(k) == k \notin contested \cup expired \cup halfDone

\* What has been executed was sent, and what is kept was executed.
Executions ==
    /\ \A a \in Attempts : stage[a] \in {"unsent", "lock", "handle"} => a \notin executed
    /\ \A a \in Attempts : stage[a] = "keep" => a \in executed
    /\ \A k \in Keys : cache[k].state = "done" =>
            cache[k].by \in executed /\ key[cache[k].by] = k

\* One attempt at a time is served for a clean key.
Alone ==
    \A a, b \in Attempts :
        SameKey(a, b) /\ Clean(key[a]) /\ stage[a] \in Serving /\ stage[b] \in Serving => a = b

\* The mark stands while a handler runs and until its outcome is written.
Marked ==
    \A a \in Attempts :
        Clean(key[a]) /\ stage[a] \in {"handle", "keep", "clear"} => cache[key[a]] = InProgress

\* Until its handler has returned, nobody else's has.
FirstRun ==
    \A a \in Attempts, e \in executed :
        SameKey(a, e) /\ Clean(key[a]) => stage[a] \notin {"lock", "handle", "clear"}

\* Once a handler has returned, the entry is the mark or a result.
Remembered == \A e \in executed : Clean(key[e]) => cache[key[e]] # Vacant

KeyInv ==
    /\ CacheTypeOK /\ Executions /\ Alone /\ Marked /\ FirstRun /\ Remembered
    /\ ExecutedOnce /\ AnsweredTruly /\ MarkHasOwner

-----------------------------------------------------------------------------
\* The three kinds of entry are distinct.
LEMMA EntriesDiffer ==
    /\ Vacant # InProgress
    /\ \A a \in Attempts : Result(a) # Vacant /\ Result(a) # InProgress
    /\ \A e \in Entries : e \in {Vacant, InProgress} \/ e.state = "done"
    /\ \A e \in Entries : e.state = "done" => e.by \in Attempts /\ e = Result(e.by)
    /\ Vacant.state # "done" /\ InProgress.state # "done"
    /\ \A a \in Attempts : Result(a).state = "done" /\ Result(a).by = a
<1>1. Vacant.state = "vacant" /\ InProgress.state = "in progress"
  BY DEF Vacant, InProgress
<1>2. \A a \in Attempts : Result(a).state = "done" /\ Result(a).by = a
  BY DEF Result
<1>3. \A e \in Entries : e \in {Vacant, InProgress} \/ \E a \in Attempts : e = Result(a)
  BY DEF Entries
<1> QED
  BY <1>1, <1>2, <1>3

LEMMA InitKeyInv == InitCache => KeyInv
BY EntriesDiffer DEF InitCache, KeyInv, CacheTypeOK, Executions, Alone, Marked, FirstRun, Remembered,
    ExecutedOnce, AnsweredTruly, MarkHasOwner, Entries, Stages, Serving, At

-----------------------------------------------------------------------------
USE DEF MoveTo, races

LEMMA MissStep ==
    ASSUME KeyInv, NEW a \in Attempts, Miss(a)
    PROVE  KeyInv'
BY EntriesDiffer DEF KeyInv, Miss, Missing, CacheTypeOK, Executions, Alone, Marked, FirstRun,
    Remembered, ExecutedOnce, AnsweredTruly, MarkHasOwner, Clean, SameKey, Stages, Serving, At

LEMMA ConflictStep ==
    ASSUME KeyInv, NEW a \in Attempts, Conflict(a)
    PROVE  KeyInv'
BY EntriesDiffer DEF KeyInv, Conflict, CacheTypeOK, Executions, Alone, Marked, FirstRun,
    Remembered, ExecutedOnce, AnsweredTruly, MarkHasOwner, Clean, SameKey, Stages, Serving, At

LEMMA ReplayStep ==
    ASSUME KeyInv, NEW a \in Attempts, Replay(a)
    PROVE  KeyInv'
BY EntriesDiffer DEF KeyInv, Replay, CacheTypeOK, Executions, Alone, Marked, FirstRun,
    Remembered, ExecutedOnce, AnsweredTruly, MarkHasOwner, Clean, SameKey, Stages, Serving, At

LEMMA LockStep ==
    ASSUME KeyInv, NEW a \in Attempts, Lock(a)
    PROVE  KeyInv'
BY EntriesDiffer DEF KeyInv, Lock, CacheTypeOK, Executions, Alone, Marked, FirstRun, Remembered,
    ExecutedOnce, AnsweredTruly, MarkHasOwner, Clean, SameKey, Stages, Serving, At, Entries

LEMMA ReturnStep ==
    ASSUME KeyInv, NEW a \in Attempts, Return(a)
    PROVE  KeyInv'
BY EntriesDiffer DEF KeyInv, Return, CacheTypeOK, Executions, Alone, Marked, FirstRun, Remembered,
    ExecutedOnce, AnsweredTruly, MarkHasOwner, Clean, SameKey, Stages, Serving, At

LEMMA ThrowStep ==
    ASSUME KeyInv, NEW a \in Attempts, Throw(a)
    PROVE  KeyInv'
BY EntriesDiffer DEF KeyInv, Throw, CacheTypeOK, Executions, Alone, Marked, FirstRun, Remembered,
    ExecutedOnce, AnsweredTruly, MarkHasOwner, Clean, SameKey, Stages, Serving, At

LEMMA ThrowHalfDoneStep ==
    ASSUME KeyInv, NEW a \in Attempts, ThrowHalfDone(a)
    PROVE  KeyInv'
BY EntriesDiffer DEF KeyInv, ThrowHalfDone, CacheTypeOK, Executions, Alone, Marked, FirstRun, Remembered,
    ExecutedOnce, AnsweredTruly, MarkHasOwner, Clean, SameKey, Stages, Serving, At

LEMMA KeepStep ==
    ASSUME KeyInv, NEW a \in Attempts, Keep(a)
    PROVE  KeyInv'
BY EntriesDiffer DEF KeyInv, Keep, CacheTypeOK, Executions, Alone, Marked, FirstRun, Remembered,
    ExecutedOnce, AnsweredTruly, MarkHasOwner, Clean, SameKey, Stages, Serving, At, Outcome, Entries

LEMMA ClearStep ==
    ASSUME KeyInv, NEW a \in Attempts, Clear(a)
    PROVE  KeyInv'
BY EntriesDiffer DEF KeyInv, Clear, CacheTypeOK, Executions, Alone, Marked, FirstRun, Remembered,
    ExecutedOnce, AnsweredTruly, MarkHasOwner, Clean, SameKey, Stages, Serving, At, Cleared, Entries

LEMMA CrashStep ==
    ASSUME KeyInv, Crash
    PROVE  KeyInv'
BY EntriesDiffer DEF KeyInv, Crash, CacheTypeOK, Executions, Alone, Marked, FirstRun, Remembered,
    ExecutedOnce, AnsweredTruly, MarkHasOwner, Clean, SameKey, Stages, Serving, At

LEMMA LapseStep ==
    ASSUME KeyInv, NEW k \in Keys, Lapse(k)
    PROVE  KeyInv'
BY EntriesDiffer DEF KeyInv, Lapse, CacheTypeOK, Executions, Alone, Marked, FirstRun, Remembered,
    ExecutedOnce, AnsweredTruly, MarkHasOwner, Clean, SameKey, Stages, Serving, At, Entries

LEMMA StutterStep ==
    ASSUME KeyInv, UNCHANGED cacheVars
    PROVE  KeyInv'
BY DEF KeyInv, cacheVars, CacheTypeOK, Executions, Alone, Marked, FirstRun, Remembered,
    ExecutedOnce, AnsweredTruly, MarkHasOwner, Clean, SameKey, At

-----------------------------------------------------------------------------
\* KeyInv holds in every state of every behaviour.
THEOREM KeyInvInductive == CacheSpec => []KeyInv
<1>1. KeyInv /\ [NextCommand]_cacheVars => KeyInv'
  <2> SUFFICES ASSUME KeyInv, [NextCommand]_cacheVars
               PROVE  KeyInv'
    OBVIOUS
  <2>1. ASSUME NEW a \in Attempts, Miss(a) \/ Conflict(a) \/ Replay(a)
        PROVE  KeyInv'
    BY <2>1, MissStep, ConflictStep, ReplayStep
  <2>2. ASSUME NEW a \in Attempts, Serve(a)
        PROVE  KeyInv'
    BY <2>2, LockStep, ReturnStep, ThrowStep, ThrowHalfDoneStep, KeepStep, ClearStep DEF Serve
  <2>3. CASE Crash
    BY <2>3, CrashStep
  <2>4. ASSUME NEW k \in Keys, Lapse(k)
        PROVE  KeyInv'
    BY <2>4, LapseStep
  <2>5. CASE UNCHANGED cacheVars
    BY <2>5, StutterStep
  <2> QED
    BY <2>1, <2>2, <2>3, <2>4, <2>5 DEF NextCommand
<1> QED
  BY <1>1, InitKeyInv, PTL DEF CacheSpec

\* Every variable keeps its type: an entry is vacant, the mark, or an attempt's result.
THEOREM CacheTypeCorrect == CacheSpec => []CacheTypeOK
BY KeyInvInductive, PTL DEF KeyInv

\* For any number of attempts: one run per key, unless the key expired, a handler
\* threw half done or two attempts looked the key up together.
THEOREM AlwaysExecutedOnce == CacheSpec => []ExecutedOnce
BY KeyInvInductive, PTL DEF KeyInv

\* A client is answered with the result of a run of its own key.
THEOREM AlwaysAnsweredTruly == CacheSpec => []AnsweredTruly
BY KeyInvInductive, PTL DEF KeyInv

\* A mark without a crash behind it has an attempt that will replace it.
THEOREM MarkAlwaysOwned == CacheSpec => []MarkHasOwner
BY KeyInvInductive, PTL DEF KeyInv
=============================================================================
