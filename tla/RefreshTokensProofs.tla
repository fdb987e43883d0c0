------------------------- MODULE RefreshTokensProofs -------------------------
(***************************************************************************)
(* Theorems about RefreshTokens, for every number of requests, users and   *)
(* tokens, every retry budget and every set of faults.                     *)
(***************************************************************************)
EXTENDS RefreshTokens, TLAPS

-----------------------------------------------------------------------------
(* Type correctness *)

\* The part of TypeOK about what a request is doing.
RequestType ==
    /\ pc \in [Workers -> Steps]
    /\ user \in [Workers -> Users \cup {None}]
    /\ tok \in [Workers -> Tokens \cup {None}]
    /\ attempt \in [Workers -> 0 .. MaxAttempts - 1]
    /\ \A w \in Workers :
          /\ pc[w] = "idle" <=> tok[w] = None
          /\ pc[w] = "idle" <=> user[w] = None

\* The part about revocation.
ScanType ==
    /\ scan \in [Workers -> SUBSET Tokens]
    /\ seen \in [Workers -> SUBSET Tokens]
    /\ \A w \in Workers :
          /\ scan[w] # {} => pc[w] = "scan"
          /\ seen[w] # {} => pc[w] \in {"revoke", "scan"}

\* The part about Redis and the tokens.
TokenType ==
    /\ live \subseteq Tokens /\ index \subseteq Tokens /\ used \subseteq Tokens
    /\ owner \in [Tokens -> Users \cup {None}]
    /\ parent \in [Tokens -> Tokens \cup {None}]
    /\ delivered \subseteq Tokens /\ spent \subseteq Tokens
    /\ presented \subseteq Tokens /\ replayed \subseteq presented
    /\ claimed \subseteq Tokens /\ reused \subseteq Tokens

LEMMA TypeParts == TypeOK <=> RequestType /\ ScanType /\ TokenType
BY DEF TypeOK, RequestType, ScanType, TokenType

\* The other requests are where they were.
OthersStay(w) ==
    \A v \in Workers \ {w} :
        pc'[v] = pc[v] /\ user'[v] = user[v] /\ tok'[v] = tok[v]

LEMMA GoOnType ==
    ASSUME RequestType, NEW w \in Workers, NEW s \in Steps \ {"idle"},
           NEW u \in Users, NEW t \in Tokens, GoOn(w, s, u, t)
    PROVE  /\ RequestType'
           /\ pc'[w] = s /\ user'[w] = u /\ tok'[w] = t
           /\ OthersStay(w)
<1>1. 0 \in 0 .. MaxAttempts - 1
    BY AttemptsAssumption
<1>2. attempt' \in [Workers -> 0 .. MaxAttempts - 1]
    BY <1>1 DEF RequestType, GoOn
<1>3. /\ pc' \in [Workers -> Steps]
      /\ user' \in [Workers -> Users \cup {None}]
      /\ tok' \in [Workers -> Tokens \cup {None}]
      /\ pc'[w] = s /\ user'[w] = u /\ tok'[w] = t
      /\ OthersStay(w)
    BY DEF RequestType, GoOn, OthersStay
<1> QED
    BY <1>2, <1>3, NoneAssumption DEF RequestType, OthersStay

LEMMA FinishType ==
    ASSUME RequestType, NEW w \in Workers, Finish(w)
    PROVE  /\ RequestType'
           /\ pc'[w] = "idle" /\ user'[w] = None /\ tok'[w] = None
           /\ OthersStay(w)
<1>1. 0 \in 0 .. MaxAttempts - 1
    BY AttemptsAssumption
<1>2. attempt' \in [Workers -> 0 .. MaxAttempts - 1]
    BY <1>1 DEF RequestType, Finish, GoOn
<1>3. /\ pc' \in [Workers -> Steps]
      /\ user' \in [Workers -> Users \cup {None}]
      /\ tok' \in [Workers -> Tokens \cup {None}]
      /\ pc'[w] = "idle" /\ user'[w] = None /\ tok'[w] = None
      /\ OthersStay(w)
    BY DEF RequestType, Finish, GoOn, OthersStay, Steps
<1> QED
    BY <1>2, <1>3, NoneAssumption DEF RequestType, OthersStay

\* One more attempt is within the budget.
LEMMA AttemptType ==
    ASSUME RequestType, NEW w \in Workers, MayRetry(w),
           attempt' = [attempt EXCEPT ![w] = @ + 1]
    PROVE  attempt' \in [Workers -> 0 .. MaxAttempts - 1]
<1>1. attempt[w] + 1 \in 0 .. MaxAttempts - 1
    BY AttemptsAssumption DEF RequestType, MayRetry
<1> QED
    BY <1>1 DEF RequestType

LEMMA RetryType ==
    ASSUME RequestType, NEW w \in Workers, Retry(w)
    PROVE  RequestType' /\ UNCHANGED <<pc, user, tok>>
<1>1. attempt' \in [Workers -> 0 .. MaxAttempts - 1]
    BY AttemptType DEF Retry
<1> QED
    BY <1>1 DEF RequestType, Retry

\* The two endings of an attempt without an answer.
LEMMA RetryOrFinishType ==
    ASSUME RequestType, NEW w \in Workers, Retry(w) \/ Finish(w)
    PROVE  /\ RequestType'
           /\ \/ pc'[w] = pc[w] /\ user'[w] = user[w] /\ tok'[w] = tok[w]
              \/ pc'[w] = "idle" /\ user'[w] = None /\ tok'[w] = None
           /\ OthersStay(w)
BY RetryType, FinishType DEF OthersStay

LEMMA ForgetType ==
    ASSUME ScanType, NEW ts, Forget(ts)
    PROVE  /\ scan' \in [Workers -> SUBSET Tokens]
           /\ \A v \in Workers : scan'[v] = scan[v] \ ts
BY DEF ScanType, Forget

\* Minting, with what every later proof needs to know of it.
LEMMA MintType ==
    ASSUME RequestType, TokenType, NEW w \in Workers, NEW u \in Users,
           NEW p \in Tokens \cup {None}, Mint(w, u, p)
    PROVE  /\ RequestType'
           /\ pc'[w] = "issue" /\ user'[w] = u
           /\ OthersStay(w)
           /\ tok'[w] \in Tokens /\ owner[tok'[w]] = None
           /\ owner' \in [Tokens -> Users \cup {None}]
           /\ parent' \in [Tokens -> Tokens \cup {None}]
           /\ owner'[tok'[w]] = u /\ parent'[tok'[w]] = p
           /\ \A t \in Tokens \ {tok'[w]} : owner'[t] = owner[t] /\ parent'[t] = parent[t]
<1>1. PICK t \in Unminted :
          /\ GoOn(w, "issue", u, t)
          /\ owner' = [owner EXCEPT ![t] = u]
          /\ parent' = [parent EXCEPT ![t] = p]
    BY DEF Mint
<1>2. t \in Tokens /\ owner[t] = None
    BY DEF Unminted
<1>3. /\ RequestType'
      /\ pc'[w] = "issue" /\ user'[w] = u /\ tok'[w] = t
      /\ OthersStay(w)
    BY <1>1, <1>2, GoOnType DEF Steps
<1> QED
    BY <1>1, <1>2, <1>3 DEF TokenType

LEMMA TypeInit == Init => TypeOK
<1> SUFFICES ASSUME Init PROVE TypeOK
    OBVIOUS
<1>1. 0 \in 0 .. MaxAttempts - 1
    BY AttemptsAssumption
<1>2. attempt \in [Workers -> 0 .. MaxAttempts - 1]
    BY <1>1 DEF Init
<1> QED
    BY <1>2 DEF Init, TypeOK, Steps

\* A request that presents a token acts for the user it was minted for, hence the
\* hypothesis that clients hold minted tokens only.
LEMMA TypeStep == TypeOK /\ Minted /\ [Next]_vars => TypeOK'
<1> SUFFICES ASSUME TypeOK, Minted, [Next]_vars PROVE TypeOK'
    OBVIOUS
<1> USE NoneAssumption
<1>0. RequestType /\ ScanType /\ TokenType
    BY TypeParts
<1> SUFFICES RequestType' /\ ScanType' /\ TokenType'
    BY DEF TypeOK, RequestType, ScanType, TokenType
<1>1. CASE UNCHANGED vars
    BY <1>0, <1>1 DEF RequestType, ScanType, TokenType, vars
<1>2. ASSUME NEW w \in Workers, NEW u \in Users, Login(w, u)
      PROVE  RequestType' /\ ScanType' /\ TokenType'
    <2>1. Mint(w, u, None) /\ UNCHANGED <<redis, scan, history>> /\ pc[w] = "idle"
        BY <1>2 DEF Login
    <2>2. /\ RequestType' /\ OthersStay(w) /\ pc'[w] = "issue"
          /\ owner' \in [Tokens -> Users \cup {None}]
          /\ parent' \in [Tokens -> Tokens \cup {None}]
        BY <2>1, <1>0, MintType
    <2> QED
        BY <1>0, <2>1, <2>2 DEF ScanType, TokenType, OthersStay, redis, history
<1>3. ASSUME NEW w \in Workers, NEW t \in Tokens, Refresh(w, t)
      PROVE  RequestType' /\ ScanType' /\ TokenType'
    <2>1. owner[t] \in Users /\ GoOn(w, "redeem", owner[t], t)
        BY <1>0, <1>3 DEF Refresh, Minted, TokenType
    <2>2. RequestType' /\ OthersStay(w) /\ pc'[w] = "redeem"
        BY <1>0, <2>1, GoOnType DEF Steps
    <2>3. TokenType'
        BY <1>0, <1>3 DEF Refresh, TokenType, redis, minted
    <2> QED
        BY <1>0, <1>3, <2>2, <2>3 DEF Refresh, ScanType, OthersStay
<1>4. ASSUME NEW w \in Workers, Issue(w)
      PROVE  RequestType' /\ ScanType' /\ TokenType'
    <2>1. /\ pc[w] = "issue" /\ user[w] \in Users /\ tok[w] \in Tokens
          /\ UNCHANGED <<used, minted, scan, history>>
        BY <1>0, <1>4 DEF Issue, RequestType
    <2>2. /\ RequestType' /\ OthersStay(w)
          /\ \/ GoOn(w, "respond", user[w], tok[w])
             \/ Retry(w)
             \/ Finish(w)
        BY <1>0, <1>4, <2>1, GoOnType, RetryOrFinishType DEF Issue, Steps
    <2>3. live' \subseteq Tokens /\ index' \subseteq Tokens
        BY <1>0, <1>4, <2>1 DEF Issue, Store, TokenType
    <2> QED
        BY <1>0, <2>1, <2>2, <2>3 DEF ScanType, TokenType, OthersStay, minted, history
<1>5. ASSUME NEW w \in Workers, Respond(w)
      PROVE  RequestType' /\ ScanType' /\ TokenType'
    <2>1. /\ pc[w] = "respond" /\ tok[w] \in Tokens
          /\ Finish(w)
          /\ delivered' = delivered \cup {tok[w]}
          /\ UNCHANGED <<redis, minted, scan, spent, replayed, presented, seen, claimed, reused>>
        BY <1>0, <1>5 DEF Respond, RequestType
    <2>2. RequestType' /\ OthersStay(w)
        BY <1>0, <2>1, FinishType
    <2> QED
        BY <1>0, <2>1, <2>2 DEF ScanType, TokenType, OthersStay, redis, minted
<1>6. ASSUME NEW w \in Workers, Redeem(w)
      PROVE  RequestType' /\ ScanType' /\ TokenType'
    <2>1. /\ pc[w] = "redeem" /\ user[w] \in Users /\ tok[w] \in Tokens
          /\ UNCHANGED <<index, minted, scan, delivered, replayed, presented, claimed, reused>>
        BY <1>0, <1>6 DEF Redeem, RequestType
    <2>2. TokenType'
        BY <1>0, <1>6, <2>1 DEF Redeem, Script, TokenType, minted
    <2>3. CASE Answer(w)
        <3>1. \/ GoOn(w, "unindex", user[w], tok[w]) /\ UNCHANGED seen
              \/ /\ GoOn(w, "revoke", user[w], tok[w])
                 /\ seen' = [seen EXCEPT ![w] = TokensOf(user[w]) \cap delivered]
              \/ Finish(w) /\ UNCHANGED seen
            BY <2>3 DEF Answer
        <3>2. RequestType' /\ OthersStay(w)
            BY <1>0, <2>1, <3>1, GoOnType, FinishType DEF Steps
        <3>3. \/ UNCHANGED seen
              \/ pc'[w] = "revoke" /\ seen' = [seen EXCEPT ![w] = TokensOf(user[w]) \cap delivered]
            BY <1>0, <2>1, <3>1, GoOnType DEF Steps
        <3>4. TokensOf(user[w]) \cap delivered \in SUBSET Tokens
            BY DEF TokensOf
        <3> QED
            BY <1>0, <2>1, <2>2, <3>2, <3>3, <3>4 DEF ScanType, OthersStay
    <2>4. CASE (Retry(w) \/ Finish(w)) /\ UNCHANGED seen
        <3>1. RequestType' /\ OthersStay(w)
            BY <1>0, <2>4, RetryOrFinishType
        <3> QED
            BY <1>0, <2>1, <2>2, <2>4, <3>1 DEF ScanType, OthersStay
    <2> QED
        BY <1>6, <2>3, <2>4 DEF Redeem
<1>7. ASSUME NEW w \in Workers, Unindex(w)
      PROVE  RequestType' /\ ScanType' /\ TokenType'
    <2>1. /\ pc[w] = "unindex" /\ user[w] \in Users /\ tok[w] \in Tokens
          /\ UNCHANGED <<live, used, history>>
        BY <1>0, <1>7 DEF Unindex, RequestType
    <2>2. /\ RequestType' /\ OthersStay(w)
          /\ owner' \in [Tokens -> Users \cup {None}]
          /\ parent' \in [Tokens -> Tokens \cup {None}]
        BY <1>0, <1>7, <2>1, MintType, FinishType DEF Unindex, TokenType, minted
    <2>3. /\ scan' \in [Workers -> SUBSET Tokens]
          /\ \A v \in Workers : scan'[v] \subseteq scan[v]
          /\ index' \subseteq Tokens
        BY <1>0, <1>7, ForgetType DEF Unindex, ScanType, TokenType
    <2>4. scan'[w] = {} /\ seen'[w] = {}
        BY <1>0, <2>1, <2>3 DEF ScanType, history
    <2> QED
        BY <1>0, <2>1, <2>2, <2>3, <2>4 DEF ScanType, TokenType, OthersStay, history
<1>8. ASSUME NEW w \in Workers, ScanBegin(w)
      PROVE  RequestType' /\ ScanType' /\ TokenType'
    <2>1. TokenType'
        BY <1>0, <1>8 DEF ScanBegin, TokenType, redis, minted, history
    <2>2. RequestType'
        BY <1>0, <1>8 DEF ScanBegin, RequestType, Steps
    <2>3. index \cap TokensOf(user[w]) \in SUBSET Tokens
        BY DEF TokensOf
    <2>4. scan' \in [Workers -> SUBSET Tokens]
        BY <1>0, <1>8, <2>3 DEF ScanBegin, ScanType
    <2> QED
        BY <1>0, <1>8, <2>1, <2>2, <2>4 DEF ScanBegin, ScanType, RequestType, history
<1>9. ASSUME NEW w \in Workers, NEW t \in Tokens, ScanDelete(w, t)
      PROVE  RequestType' /\ ScanType' /\ TokenType'
    <2>1. TokenType' /\ RequestType'
        BY <1>0, <1>9 DEF ScanDelete, Drop, TokenType, RequestType, minted, history
    <2>2. scan' \in [Workers -> SUBSET Tokens] /\ \A v \in Workers : scan'[v] \subseteq scan[v]
        BY <1>0, <1>9, ForgetType DEF ScanDelete
    <2> QED
        BY <1>0, <1>9, <2>1, <2>2 DEF ScanDelete, ScanType, history
<1>10. ASSUME NEW w \in Workers, pc[w] # "idle", AuditReuse(w),
              UNCHANGED <<redis, minted, delivered, spent, replayed, presented>>
       PROVE  RequestType' /\ ScanType' /\ TokenType'
    <2>1. RequestType' /\ OthersStay(w)
        BY <1>0, <1>10, FinishType DEF AuditReuse
    <2>2. reused' \subseteq Tokens
        <3>1. tok[w] \in Tokens
            BY <1>0, <1>10 DEF RequestType
        <3> QED
            BY <1>0, <1>10, <3>1 DEF AuditReuse, TokenType
    <2>3. claimed' \subseteq Tokens
        BY <1>0, <1>10 DEF AuditReuse, TokenType, ScanType
    <2>4. TokenType'
        BY <1>0, <1>10, <2>2, <2>3 DEF TokenType, redis, minted
    <2> QED
        BY <1>0, <1>10, <2>1, <2>4 DEF AuditReuse, ScanType, OthersStay
<1>11. ASSUME NEW w \in Workers, ScanEnd(w)
       PROVE  RequestType' /\ ScanType' /\ TokenType'
    BY <1>10, <1>11 DEF ScanEnd
<1>12. ASSUME NEW w \in Workers, ScanFail(w)
       PROVE  RequestType' /\ ScanType' /\ TokenType'
    <2>1. CASE AuditReuse(w)
        BY <1>10, <1>12, <2>1 DEF ScanFail
    <2>2. CASE /\ MayRetry(w)
               /\ pc' = [pc EXCEPT ![w] = "revoke"]
               /\ attempt' = [attempt EXCEPT ![w] = @ + 1]
               /\ scan' = [scan EXCEPT ![w] = {}]
               /\ UNCHANGED <<user, tok, seen, claimed, reused>>
        <3>1. attempt' \in [Workers -> 0 .. MaxAttempts - 1]
            BY <1>0, <2>2, AttemptType
        <3>2. pc[w] = "scan" /\ UNCHANGED <<redis, minted, delivered, spent, replayed, presented>>
            BY <1>12 DEF ScanFail
        <3>3. RequestType'
            BY <1>0, <2>2, <3>1, <3>2 DEF RequestType, Steps
        <3>4. ScanType'
            BY <1>0, <2>2, <3>2 DEF ScanType, RequestType
        <3> QED
            BY <1>0, <2>2, <3>2, <3>3, <3>4 DEF TokenType, redis, minted
    <2> QED
        BY <1>12, <2>1, <2>2 DEF ScanFail
<1>13. ASSUME NEW w \in Workers, RevokeRefused(w)
       PROVE  RequestType' /\ ScanType' /\ TokenType'
    BY <1>10, <1>13 DEF RevokeRefused
<1>14. ASSUME NEW t \in Tokens, Expire(t)
       PROVE  RequestType' /\ ScanType' /\ TokenType'
    <2>1. TokenType' /\ RequestType'
        BY <1>0, <1>14 DEF Expire, Drop, TokenType, RequestType, minted, history
    <2>2. scan' \in [Workers -> SUBSET Tokens] /\ \A v \in Workers : scan'[v] \subseteq scan[v]
        BY <1>0, <1>14, ForgetType DEF Expire
    <2> QED
        BY <1>0, <1>14, <2>1, <2>2 DEF Expire, ScanType, history
<1>15. ASSUME NEW t \in Tokens, ExpireTombstone(t)
       PROVE  RequestType' /\ ScanType' /\ TokenType'
    BY <1>0, <1>15 DEF ExpireTombstone, RequestType, ScanType, TokenType, minted, request, history
<1> QED
    BY <1>1, <1>2, <1>3, <1>4, <1>5, <1>6, <1>7, <1>8, <1>9, <1>11, <1>12, <1>13, <1>14, <1>15
    DEF Next, Step
-----------------------------------------------------------------------------
(* The inductive invariant *)

\* What is left to show of IInv' once the types are right.
Rest ==
    /\ LiveIsIndexed
    /\ SpentIsDead
    /\ OneSuccessor
    /\ Minted
    /\ Requests
    /\ Exclusive

\* A request that ends, or goes back to the start of what it is doing, disturbs
\* no other part of the invariant.
LEMMA RequestsKept ==
    ASSUME RequestType, RequestType', Requests, Exclusive, NEW w \in Workers, OthersStay(w),
           pc'[w] = "idle" \/ (pc'[w] = pc[w] /\ user'[w] = user[w] /\ tok'[w] = tok[w]),
           UNCHANGED <<owner, parent, delivered>>, spent \subseteq spent'
    PROVE  Requests' /\ Exclusive'
<1>1. \A v \in Workers :
          pc'[v] = "idle" \/ (pc'[v] = pc[v] /\ user'[v] = user[v] /\ tok'[v] = tok[v])
    BY DEF OthersStay
<1>2. Requests'
    BY <1>1 DEF Requests
<1>3. Exclusive'
    BY <1>1 DEF Exclusive
<1> QED
    BY <1>2, <1>3

\* A pair is minted: a successor of p for user u, or the start of a session.
LEMMA MintKeeps ==
    ASSUME IInv, NEW w \in Workers, NEW u \in Users, NEW p \in Tokens \cup {None},
           Mint(w, u, p), pc[w] \in {"idle", "unindex"}, UNCHANGED <<used, history>>,
           p # None => /\ p \in spent /\ owner[p] = u
                       /\ pc[w] = "unindex" /\ tok[w] = p
    PROVE  OneSuccessor' /\ Minted' /\ Requests' /\ Exclusive'
<1> USE NoneAssumption
<1>0. RequestType /\ TokenType
    BY TypeParts DEF IInv
<1>1. /\ RequestType' /\ OthersStay(w)
      /\ pc'[w] = "issue" /\ user'[w] = u
      /\ tok'[w] \in Tokens /\ owner[tok'[w]] = None
      /\ owner'[tok'[w]] = u /\ parent'[tok'[w]] = p
      /\ \A t \in Tokens \ {tok'[w]} : owner'[t] = owner[t] /\ parent'[t] = parent[t]
    BY <1>0, MintType
<1>2. /\ tok'[w] \notin delivered /\ tok'[w] \notin spent
      /\ parent[tok'[w]] = None
      /\ UNCHANGED <<delivered, spent, used>>
    BY <1>1 DEF IInv, Minted, history
<1>3. p # None => \A s \in Tokens : parent[s] # p
    BY DEF IInv, Requests
<1>4. OneSuccessor'
    BY <1>0, <1>1, <1>3 DEF IInv, OneSuccessor
<1>5. \A t \in spent : owner'[t] = owner[t]
    BY <1>0, <1>1, <1>2 DEF TokenType
<1>6. Minted'
    BY <1>0, <1>1, <1>2, <1>5 DEF IInv, Minted, TokenType
<1>7. \A v \in Workers \ {w} :
          /\ pc'[v] = pc[v] /\ user'[v] = user[v] /\ tok'[v] = tok[v]
          /\ pc[v] # "idle" => /\ tok[v] \in Tokens /\ tok[v] # tok'[w]
                               /\ owner'[tok[v]] = owner[tok[v]]
    BY <1>0, <1>1 DEF OthersStay, RequestType, IInv, Requests
<1>8. \A v \in Workers \ {w} : pc[v] = "unindex" => \A s \in Tokens : parent'[s] # tok[v]
    BY <1>0, <1>1, <1>7 DEF IInv, Requests, Exclusive, RequestType
<1>9. Requests'
    BY <1>1, <1>2, <1>7, <1>8 DEF IInv, Requests
<1>10. Exclusive'
    BY <1>1, <1>7 DEF IInv, Exclusive
<1> QED
    BY <1>4, <1>6, <1>9, <1>10

LEMMA RestInit == Init => Rest
BY DEF Init, Rest, LiveIsIndexed, SpentIsDead, OneSuccessor, Minted, Requests, Exclusive

LEMMA RestStep == IInv /\ TypeOK' /\ [Next]_vars => Rest'
<1> SUFFICES ASSUME IInv, TypeOK', [Next]_vars PROVE Rest'
    OBVIOUS
<1> USE NoneAssumption
<1>0. /\ RequestType /\ TokenType /\ ScanType /\ RequestType' /\ TokenType'
      /\ Rest
    BY TypeParts DEF IInv, TypeOK, RequestType, TokenType, ScanType, Rest
<1>1. CASE UNCHANGED vars
    BY <1>0, <1>1 DEF Rest, LiveIsIndexed, SpentIsDead, OneSuccessor, Minted, Requests,
                      Exclusive, vars
<1>2. ASSUME NEW w \in Workers, NEW u \in Users, Login(w, u)
      PROVE  Rest'
    <2>1. OneSuccessor' /\ Minted' /\ Requests' /\ Exclusive'
        BY <1>2, MintKeeps DEF Login, redis
    <2> QED
        BY <1>0, <1>2, <2>1 DEF Login, Rest, LiveIsIndexed, SpentIsDead, redis, history
<1>3. ASSUME NEW w \in Workers, NEW t \in Tokens, Refresh(w, t)
      PROVE  Rest'
    <2>1. /\ pc'[w] = "redeem" /\ user'[w] = owner[t] /\ tok'[w] = t /\ OthersStay(w)
          /\ t \in delivered
        BY <1>0, <1>3, GoOnType DEF Refresh, Rest, Minted, TokenType, Steps
    <2>2. UNCHANGED <<redis, owner, parent, delivered, spent>>
        BY <1>3 DEF Refresh, minted
    <2>3. Requests'
        BY <1>0, <2>1, <2>2 DEF Rest, Requests, OthersStay
    <2>4. Exclusive'
        BY <1>0, <2>1 DEF Rest, Exclusive, OthersStay
    <2> QED
        BY <1>0, <2>2, <2>3, <2>4 DEF Rest, LiveIsIndexed, SpentIsDead, OneSuccessor, Minted, redis
<1>4. ASSUME NEW w \in Workers, Issue(w)
      PROVE  Rest'
    <2>1. /\ pc[w] = "issue" /\ tok[w] \notin delivered /\ tok[w] \notin spent
          /\ user[w] \in Users /\ tok[w] \in Tokens
          /\ UNCHANGED <<used, owner, parent, scan, history>>
        BY <1>0, <1>4 DEF Issue, Rest, Requests, Minted, RequestType, minted
    <2>2. Store(tok[w]) \/ UNCHANGED <<live, index>>
        BY <1>4 DEF Issue
    <2>3. OthersStay(w)
        BY <1>0, <1>4, <2>1, GoOnType, RetryOrFinishType DEF Issue, Steps
    <2>4. \/ pc'[w] = "idle"
          \/ pc'[w] \in {"issue", "respond"} /\ user'[w] = user[w] /\ tok'[w] = tok[w]
        BY <1>0, <1>4, <2>1, GoOnType, RetryOrFinishType DEF Issue, Steps
    <2>5. Requests'
        BY <1>0, <2>1, <2>3, <2>4 DEF Rest, Requests, OthersStay, history
    <2>6. Exclusive'
        BY <1>0, <2>1, <2>3, <2>4 DEF Rest, Exclusive, OthersStay
    <2> QED
        BY <1>0, <2>1, <2>2, <2>5, <2>6
        DEF Rest, LiveIsIndexed, SpentIsDead, OneSuccessor, Minted, Store, history
<1>5. ASSUME NEW w \in Workers, Respond(w)
      PROVE  Rest'
    <2>1. /\ pc[w] = "respond" /\ tok[w] \in Tokens /\ owner[tok[w]] # None
          /\ delivered' = delivered \cup {tok[w]}
          /\ UNCHANGED <<redis, owner, parent, spent>>
        BY <1>0, <1>5 DEF Respond, RequestType, Rest, Requests, minted
    <2>2. pc'[w] = "idle" /\ OthersStay(w)
        BY <1>0, <1>5, FinishType DEF Respond
    <2>3. \A v \in Workers \ {w} : pc[v] \in {"issue", "respond"} => tok[v] # tok[w]
        BY <1>0, <2>1 DEF Rest, Exclusive
    <2>4. Requests'
        BY <1>0, <2>1, <2>2, <2>3 DEF Rest, Requests, OthersStay
    <2>5. Exclusive'
        BY <1>0, <2>2 DEF Rest, Exclusive, OthersStay
    <2> QED
        BY <1>0, <2>1, <2>4, <2>5
        DEF Rest, LiveIsIndexed, SpentIsDead, OneSuccessor, Minted, redis
<1>6. ASSUME NEW w \in Workers, Redeem(w)
      PROVE  Rest'
    <2>1. /\ pc[w] = "redeem" /\ tok[w] \in delivered /\ tok[w] \in Tokens /\ user[w] \in Users
          /\ UNCHANGED <<index, owner, parent, delivered>>
        BY <1>0, <1>6 DEF Redeem, Rest, Requests, RequestType, minted
    <2>2. Script(tok[w]) \/ UNCHANGED <<live, used, spent>>
        BY <1>6 DEF Redeem
    <2>3. LiveIsIndexed' /\ SpentIsDead' /\ OneSuccessor' /\ Minted' /\ spent \subseteq spent'
        BY <1>0, <2>1, <2>2
        DEF Rest, LiveIsIndexed, SpentIsDead, OneSuccessor, Minted, Script
    <2>4. CASE Script(tok[w]) /\ Answer(w)
        <3>1. CASE Verdict(tok[w]) = "OK"
            <4>1. /\ pc'[w] = "unindex" /\ user'[w] = user[w] /\ tok'[w] = tok[w] /\ OthersStay(w)
                BY <1>0, <2>1, <2>4, <3>1, GoOnType DEF Answer, Steps
            <4>2. tok[w] \in live /\ tok[w] \notin spent /\ tok[w] \in spent'
                BY <1>0, <2>4, <3>1 DEF Verdict, Script, Rest, SpentIsDead
            <4>3. \A s \in Tokens : parent[s] # tok[w]
                BY <1>0, <2>1, <4>2 DEF Rest, Minted
            <4>4. Requests'
                BY <1>0, <2>1, <2>3, <4>1, <4>2, <4>3 DEF Rest, Requests, OthersStay
            <4>5. \A v \in Workers : pc[v] = "unindex" => tok[v] # tok[w]
                BY <1>0, <4>2 DEF Rest, Requests
            <4>6. Exclusive'
                BY <1>0, <4>1, <4>5 DEF Rest, Exclusive, OthersStay
            <4> QED
                BY <2>3, <4>4, <4>6 DEF Rest
        <3>2. CASE Verdict(tok[w]) = "REUSED"
            <4>1. /\ pc'[w] = "revoke" /\ user'[w] = user[w] /\ tok'[w] = tok[w] /\ OthersStay(w)
                BY <1>0, <2>1, <2>4, <3>2, GoOnType DEF Answer, Steps
            <4>2. Requests'
                BY <1>0, <2>1, <2>3, <4>1 DEF Rest, Requests, OthersStay
            <4>3. Exclusive'
                BY <1>0, <4>1 DEF Rest, Exclusive, OthersStay
            <4> QED
                BY <2>3, <4>2, <4>3 DEF Rest
        <3>3. CASE Verdict(tok[w]) \notin {"OK", "REUSED"}
            <4>1. pc'[w] = "idle" /\ OthersStay(w)
                BY <1>0, <2>4, <3>3, FinishType DEF Answer
            <4> QED
                BY <1>0, <2>1, <2>3, <4>1, RequestsKept DEF Rest
        <3> QED
            BY <3>1, <3>2, <3>3
    <2>5. CASE Retry(w) \/ Finish(w)
        <3>1. /\ pc'[w] = "idle" \/ (pc'[w] = pc[w] /\ user'[w] = user[w] /\ tok'[w] = tok[w])
              /\ OthersStay(w)
            BY <1>0, <2>5, RetryOrFinishType
        <3> QED
            BY <1>0, <2>1, <2>3, <3>1, RequestsKept DEF Rest
    <2> QED
        BY <1>6, <2>4, <2>5 DEF Redeem
<1>7. ASSUME NEW w \in Workers, Unindex(w)
      PROVE  Rest'
    <2>1. /\ pc[w] = "unindex" /\ user[w] \in Users /\ tok[w] \in Tokens
          /\ tok[w] \in spent /\ owner[tok[w]] = user[w]
          /\ UNCHANGED <<live, used, history>>
        BY <1>0, <1>7 DEF Unindex, RequestType, Rest, Requests
    <2>2. index' = index \ {tok[w]} \/ index' = index
        BY <1>7 DEF Unindex
    <2>3. LiveIsIndexed' /\ SpentIsDead'
        BY <1>0, <2>1, <2>2 DEF Rest, LiveIsIndexed, SpentIsDead, history
    <2>4. CASE Mint(w, user[w], tok[w])
        <3>1. OneSuccessor' /\ Minted' /\ Requests' /\ Exclusive'
            BY <2>1, <2>4, MintKeeps
        <3> QED
            BY <2>3, <3>1 DEF Rest
    <2>5. CASE Finish(w) /\ UNCHANGED minted
        <3>1. pc'[w] = "idle" /\ OthersStay(w)
            BY <1>0, <2>5, FinishType
        <3>2. Requests' /\ Exclusive'
            BY <1>0, <2>1, <2>5, <3>1, RequestsKept DEF Rest, minted, history
        <3> QED
            BY <1>0, <2>1, <2>3, <2>5, <3>2 DEF Rest, OneSuccessor, Minted, minted, history
    <2> QED
        BY <1>7, <2>4, <2>5 DEF Unindex
<1>8. ASSUME NEW w \in Workers, pc'[w] \in {"idle", "revoke", "scan"}, OthersStay(w),
             pc[w] \in {"revoke", "scan"},
             pc'[w] # "idle" => user'[w] = user[w] /\ tok'[w] = tok[w],
             UNCHANGED <<used, owner, parent, delivered, spent>>,
             LiveIsIndexed', live' \subseteq live
      PROVE  Rest'
    <2>1. Requests'
        BY <1>0, <1>8 DEF Rest, Requests, OthersStay
    <2>2. Exclusive'
        BY <1>0, <1>8 DEF Rest, Exclusive, OthersStay
    <2> QED
        BY <1>0, <1>8, <2>1, <2>2 DEF Rest, SpentIsDead, OneSuccessor, Minted
<1>9. ASSUME NEW w \in Workers, ScanBegin(w)
      PROVE  Rest'
    <2>1. /\ pc'[w] = "scan" /\ pc[w] = "revoke" /\ OthersStay(w)
          /\ UNCHANGED <<redis, minted, user, tok, history>>
        BY <1>0, <1>9 DEF ScanBegin, OthersStay, RequestType
    <2> QED
        BY <1>0, <1>8, <2>1 DEF Rest, LiveIsIndexed, redis, minted, history
<1>10. ASSUME NEW w \in Workers, NEW t \in Tokens, ScanDelete(w, t)
       PROVE  Rest'
    <2>1. /\ pc[w] = "scan" /\ Drop(t)
          /\ UNCHANGED <<used, minted, pc, user, tok, history>>
        BY <1>10 DEF ScanDelete
    <2>2. LiveIsIndexed' /\ live' \subseteq live
        BY <1>0, <2>1 DEF Rest, LiveIsIndexed, Drop
    <2> QED
        BY <1>8, <2>1, <2>2 DEF OthersStay, minted, history
<1>11. ASSUME NEW w \in Workers, pc[w] \in {"revoke", "scan"}, AuditReuse(w),
              UNCHANGED <<redis, minted, delivered, spent, replayed, presented>>
       PROVE  Rest'
    <2>1. pc'[w] = "idle" /\ OthersStay(w)
        BY <1>0, <1>11, FinishType DEF AuditReuse
    <2> QED
        BY <1>0, <1>8, <1>11, <2>1 DEF Rest, LiveIsIndexed, redis, minted
<1>12. ASSUME NEW w \in Workers, ScanEnd(w)
       PROVE  Rest'
    BY <1>11, <1>12 DEF ScanEnd
<1>13. ASSUME NEW w \in Workers, ScanFail(w)
       PROVE  Rest'
    <2>1. CASE AuditReuse(w)
        BY <1>11, <1>13, <2>1 DEF ScanFail
    <2>2. CASE pc' = [pc EXCEPT ![w] = "revoke"] /\ UNCHANGED <<user, tok>>
        <3>1. /\ pc'[w] = "revoke" /\ pc[w] = "scan" /\ OthersStay(w)
              /\ UNCHANGED <<redis, minted, delivered, spent>>
            BY <1>0, <1>13, <2>2 DEF ScanFail, OthersStay, RequestType
        <3> QED
            BY <1>0, <1>8, <2>2, <3>1 DEF Rest, LiveIsIndexed, redis, minted
    <2> QED
        BY <1>13, <2>1, <2>2 DEF ScanFail
<1>14. ASSUME NEW w \in Workers, RevokeRefused(w)
       PROVE  Rest'
    BY <1>11, <1>14 DEF RevokeRefused
<1>15. ASSUME NEW t \in Tokens, Expire(t)
       PROVE  Rest'
    BY <1>0, <1>15 DEF Expire, Drop, Rest, LiveIsIndexed, SpentIsDead, OneSuccessor, Minted,
                       Requests, Exclusive, minted, history
<1>16. ASSUME NEW t \in Tokens, ExpireTombstone(t)
       PROVE  Rest'
    BY <1>0, <1>16 DEF ExpireTombstone, Rest, LiveIsIndexed, SpentIsDead, OneSuccessor, Minted,
                       Requests, Exclusive, minted, request, history
<1> QED
    BY <1>1, <1>2, <1>3, <1>4, <1>5, <1>6, <1>7, <1>9, <1>10, <1>12, <1>13, <1>14, <1>15, <1>16
    DEF Next, Step

\* Which request may still store, spend or exchange which token: the reason why the
\* separate Redis commands of concurrent requests do no harm.
THEOREM Inductive == Spec => []IInv
<1>1. Init => IInv
    BY TypeInit, RestInit DEF IInv, Rest
<1>2. IInv /\ [Next]_vars => IInv'
    <2> SUFFICES ASSUME IInv, [Next]_vars PROVE IInv'
        OBVIOUS
    <2>1. TypeOK'
        BY TypeStep DEF IInv
    <2>2. Rest'
        BY <2>1, RestStep
    <2> QED
        BY <2>1, <2>2 DEF IInv, Rest
<1> QED
    BY <1>1, <1>2, PTL DEF Spec

\* Every variable keeps its type.
THEOREM TypeCorrect == Spec => []TypeOK
<1>1. IInv => TypeOK
    BY DEF IInv
<1> QED
    BY <1>1, Inductive, PTL

\* RevokeAllRefreshTokens can reach every live token through the per-user index,
\* whatever fails between the commands that maintain it.
THEOREM LiveTokensAreIndexed == Spec => []LiveIsIndexed
<1>1. IInv => LiveIsIndexed
    BY DEF IInv
<1> QED
    BY <1>1, Inductive, PTL

\* A token redeemScript has answered OK for is never live again, also when
\* GeneratePair repeats its MULTI and after the tombstone has expired.
THEOREM SpentTokensAreDead == Spec => []SpentIsDead
<1>1. IInv => SpentIsDead
    BY DEF IInv
<1> QED
    BY <1>1, Inductive, PTL

\* RefreshToken exchanges a token for one token at most, however often and by
\* however many requests it is presented.
THEOREM RotationIsAChain == Spec => []OneSuccessor
<1>1. IInv => OneSuccessor
    BY DEF IInv
<1> QED
    BY <1>1, Inductive, PTL
-----------------------------------------------------------------------------
(* Reuse is reported for replays, while no reply is lost *)

\* Steps that present and redeem nothing.
LEMMA ReplayKept ==
    ASSUME ReplayInv, NEW w \in Workers, OthersStay(w), UNCHANGED <<spent, presented, replayed>>,
           \/ pc'[w] = pc[w] /\ tok'[w] = tok[w]
           \/ pc'[w] \in {"idle", "unindex", "issue", "respond"}
           \/ pc'[w] \in {"revoke", "scan"} /\ pc[w] \in {"revoke", "scan"} /\ tok'[w] = tok[w]
    PROVE  ReplayInv'
<1>1. \A v \in Workers :
          \/ pc'[v] = pc[v] /\ tok'[v] = tok[v]
          \/ pc'[v] \notin {"redeem", "revoke", "scan"}
          \/ pc'[v] \in {"revoke", "scan"} /\ pc[v] \in {"revoke", "scan"} /\ tok'[v] = tok[v]
    BY DEF OthersStay
<1>2. Presentations'
    BY <1>1 DEF ReplayInv, Presentations
<1>3. ReuseMeansReplay'
    BY <1>1 DEF ReplayInv, ReuseMeansReplay
<1> QED
    BY <1>2, <1>3 DEF ReplayInv

LEMMA ReplayStep ==
    ASSUME "lost" \notin Faults, IInv, ReplayInv, [Next]_vars
    PROVE  ReplayInv'
<1>0. RequestType /\ TokenType /\ ScanType
    BY TypeParts DEF IInv
<1>1. CASE UNCHANGED vars
    BY <1>1 DEF vars, ReplayInv, Presentations, ReuseMeansReplay
<1>2. ASSUME NEW w \in Workers, NEW u \in Users, Login(w, u)
      PROVE  ReplayInv'
    <2>1. pc'[w] = "issue" /\ OthersStay(w)
        BY <1>0, <1>2, MintType DEF Login
    <2> QED
        BY <1>2, <2>1, ReplayKept DEF Login, history
<1>3. ASSUME NEW w \in Workers, NEW t \in Tokens, Refresh(w, t)
      PROVE  ReplayInv'
    <2>1. pc'[w] = "redeem" /\ tok'[w] = t /\ OthersStay(w)
        BY <1>0, <1>3, GoOnType DEF Refresh, IInv, Minted, TokenType, Steps
    <2>2. /\ pc[w] = "idle" /\ spent' = spent /\ presented' = presented \cup {t}
          /\ replayed \subseteq replayed'
          /\ t \in presented => t \in replayed'
        BY <1>3 DEF Refresh
    <2>3. ReuseMeansReplay'
        BY <2>1, <2>2 DEF ReplayInv, ReuseMeansReplay, OthersStay
    <2>4. \A v \in Workers \ {w} : pc[v] = "redeem" /\ tok[v] = t => t \in replayed'
        BY <2>2 DEF ReplayInv, Presentations
    <2>5. t \in spent => t \in replayed'
        BY <2>2 DEF ReplayInv, Presentations
    <2>6. Presentations'
        BY <2>1, <2>2, <2>4, <2>5 DEF ReplayInv, Presentations, OthersStay
    <2> QED
        BY <2>3, <2>6 DEF ReplayInv
<1>4. ASSUME NEW w \in Workers, Issue(w)
      PROVE  ReplayInv'
    <2>1. pc[w] = "issue" /\ user[w] \in Users /\ tok[w] \in Tokens
        BY <1>0, <1>4 DEF Issue, RequestType
    <2>2. pc'[w] \in {"idle", "issue", "respond"} /\ OthersStay(w)
        BY <1>0, <1>4, <2>1, GoOnType, RetryOrFinishType DEF Issue, Steps
    <2> QED
        BY <1>4, <2>2, ReplayKept DEF Issue, history
<1>5. ASSUME NEW w \in Workers, Respond(w)
      PROVE  ReplayInv'
    <2>1. pc'[w] = "idle" /\ OthersStay(w)
        BY <1>0, <1>5, FinishType DEF Respond
    <2> QED
        BY <1>5, <2>1, ReplayKept DEF Respond
<1>6. ASSUME NEW w \in Workers, Redeem(w)
      PROVE  ReplayInv'
    <2>1. /\ pc[w] = "redeem" /\ tok[w] \in Tokens /\ user[w] \in Users
          /\ UNCHANGED <<presented, replayed>>
        BY <1>0, <1>6 DEF Redeem, RequestType
    <2>2. CASE Script(tok[w]) /\ Answer(w) /\ Verdict(tok[w]) = "OK"
        <3>1. pc'[w] = "unindex" /\ OthersStay(w) /\ spent' = spent \cup {tok[w]}
            BY <1>0, <2>1, <2>2, GoOnType DEF Answer, Script, Steps
        <3>2. \A v \in Workers \ {w} : pc[v] = "redeem" /\ tok[v] = tok[w] => tok[w] \in replayed
            BY <2>1 DEF ReplayInv, Presentations
        <3>3. tok[w] \in presented
            BY <2>1 DEF ReplayInv, Presentations
        <3>4. Presentations'
            BY <2>1, <3>1, <3>2, <3>3 DEF ReplayInv, Presentations, OthersStay
        <3>5. ReuseMeansReplay'
            BY <2>1, <3>1 DEF ReplayInv, ReuseMeansReplay, OthersStay
        <3> QED
            BY <3>4, <3>5 DEF ReplayInv
    <2>3. CASE Script(tok[w]) /\ Answer(w) /\ Verdict(tok[w]) = "REUSED"
        <3>1. pc'[w] = "revoke" /\ tok'[w] = tok[w] /\ OthersStay(w) /\ spent' = spent
            BY <1>0, <2>1, <2>3, GoOnType DEF Answer, Script, Steps
        <3>2. tok[w] \in spent
            BY <2>3 DEF Verdict, IInv, Minted
        <3>3. tok[w] \in replayed
            BY <2>1, <3>2 DEF ReplayInv, Presentations
        <3>4. Presentations'
            BY <2>1, <3>1 DEF ReplayInv, Presentations, OthersStay
        <3>5. ReuseMeansReplay'
            BY <2>1, <3>1, <3>3 DEF ReplayInv, ReuseMeansReplay, OthersStay
        <3> QED
            BY <3>4, <3>5 DEF ReplayInv
    <2>4. CASE Script(tok[w]) /\ Answer(w) /\ Verdict(tok[w]) \notin {"OK", "REUSED"}
        <3>1. pc'[w] = "idle" /\ OthersStay(w) /\ spent' = spent
            BY <1>0, <2>4, FinishType DEF Answer, Script
        <3> QED
            BY <2>1, <3>1, ReplayKept
    <2>5. CASE UNCHANGED spent /\ (Retry(w) \/ Finish(w))
        <3>1. /\ pc'[w] = "idle" \/ (pc'[w] = pc[w] /\ tok'[w] = tok[w])
              /\ OthersStay(w)
            BY <1>0, <2>5, RetryOrFinishType
        <3> QED
            BY <2>1, <2>5, <3>1, ReplayKept
    <2> QED
        BY <1>6, <2>2, <2>3, <2>4, <2>5 DEF Redeem
<1>7. ASSUME NEW w \in Workers, Unindex(w)
      PROVE  ReplayInv'
    <2>1. user[w] \in Users /\ tok[w] \in Tokens
        BY <1>0, <1>7 DEF Unindex, RequestType
    <2>2. pc'[w] \in {"issue", "idle"} /\ OthersStay(w)
        BY <1>0, <1>7, <2>1, MintType, FinishType DEF Unindex
    <2> QED
        BY <1>7, <2>2, ReplayKept DEF Unindex, history
<1>8. ASSUME NEW w \in Workers, ScanBegin(w)
      PROVE  ReplayInv'
    <2>1. /\ pc[w] = "revoke" /\ pc'[w] = "scan" /\ tok'[w] = tok[w] /\ OthersStay(w)
        BY <1>0, <1>8 DEF ScanBegin, OthersStay, RequestType
    <2> QED
        BY <1>8, <2>1, ReplayKept DEF ScanBegin, history
<1>9. ASSUME NEW w \in Workers, NEW t \in Tokens, ScanDelete(w, t)
      PROVE  ReplayInv'
    <2>1. OthersStay(w)
        BY <1>9 DEF ScanDelete, OthersStay
    <2> QED
        BY <1>9, <2>1, ReplayKept DEF ScanDelete, history
<1>10. ASSUME NEW w \in Workers, AuditReuse(w), UNCHANGED <<spent, replayed, presented>>
       PROVE  ReplayInv'
    <2>1. pc'[w] = "idle" /\ OthersStay(w)
        BY <1>0, <1>10, FinishType DEF AuditReuse
    <2> QED
        BY <1>10, <2>1, ReplayKept
<1>11. ASSUME NEW w \in Workers, ScanFail(w)
       PROVE  ReplayInv'
    <2>1. CASE AuditReuse(w)
        BY <1>10, <1>11, <2>1 DEF ScanFail
    <2>2. CASE pc' = [pc EXCEPT ![w] = "revoke"] /\ UNCHANGED <<user, tok>>
        <3>1. pc'[w] = "revoke" /\ pc[w] = "scan" /\ tok'[w] = tok[w] /\ OthersStay(w)
            BY <1>0, <1>11, <2>2 DEF ScanFail, OthersStay, RequestType
        <3> QED
            BY <1>11, <3>1, ReplayKept DEF ScanFail
    <2> QED
        BY <1>11, <2>1, <2>2 DEF ScanFail
<1>12. ASSUME NEW t \in Tokens, Expire(t) \/ ExpireTombstone(t)
       PROVE  ReplayInv'
    BY <1>12 DEF Expire, ExpireTombstone, ReplayInv, Presentations, ReuseMeansReplay,
                 request, history
<1>13. ASSUME NEW w \in Workers, ScanEnd(w) \/ RevokeRefused(w)
       PROVE  ReplayInv'
    BY <1>10, <1>13 DEF ScanEnd, RevokeRefused
<1> QED
    BY <1>1, <1>2, <1>3, <1>4, <1>5, <1>6, <1>7, <1>8, <1>9, <1>11, <1>12, <1>13
    DEF Next, Step

\* While no reply of Redis is lost, sessions are revoked only for a token that two
\* requests have presented; failed commands, retries and an open breaker do no harm.
THEOREM ReplayTruthful ==
    ASSUME "lost" \notin Faults
    PROVE  Spec => []ReuseMeansReplay
<1>1. Init => ReplayInv
    BY DEF Init, ReplayInv, Presentations, ReuseMeansReplay
<1>2. IInv /\ ReplayInv /\ [Next]_vars => ReplayInv'
    BY ReplayStep
<1>3. ReplayInv => ReuseMeansReplay
    BY DEF ReplayInv
<1> QED
    BY <1>1, <1>2, <1>3, Inductive, PTL DEF Spec
-----------------------------------------------------------------------------
(* Revocation is complete, while Redis answers *)

\* Steps after which nothing new is live in a client's hands and nothing new is to be
\* revoked, and which take from a SCAN only what is not live any more.
LEMMA RevokeKept ==
    ASSUME RevokeInv, NEW w \in Workers, OthersStay(w),
           delivered \subseteq delivered', \A t \in delivered : owner'[t] = owner[t],
           live' \cap delivered \subseteq live, UNCHANGED <<seen, claimed>>,
           delivered \subseteq Tokens,
           \A v \in Workers : scan[v] \cap live' \subseteq scan'[v],
           \/ pc'[w] = pc[w] /\ user'[w] = user[w]
           \/ seen[w] = {}
    PROVE  RevokeInv'
<1>1. \A v \in Workers : seen'[v] \subseteq delivered' \cap TokensOf(user[v])'
    BY DEF RevokeInv, Owed, TokensOf, OthersStay
<1>2. \A v \in Workers : pc'[v] = "scan" => seen'[v] \cap live' \subseteq scan'[v]
    BY DEF RevokeInv, Owed, OthersStay
<1>3. claimed' \subseteq delivered' /\ claimed' \cap live' = {}
    BY DEF RevokeInv, Owed, RevokedStayDead
<1> QED
    BY <1>1, <1>2, <1>3 DEF RevokeInv, Owed, RevokedStayDead

LEMMA RevokeStep ==
    ASSUME Faults \subseteq {"postgres"}, IInv, RevokeInv, [Next]_vars
    PROVE  RevokeInv'
<1>0. RequestType /\ TokenType /\ ScanType
    BY TypeParts DEF IInv
<1>a. /\ delivered \subseteq Tokens
      /\ \A v \in Workers : pc[v] \notin {"revoke", "scan"} => seen[v] = {}
    BY <1>0 DEF TokenType, ScanType
<1>1. CASE UNCHANGED vars
    BY <1>1 DEF vars, RevokeInv, Owed, RevokedStayDead, TokensOf
<1>b. ASSUME NEW w \in Workers, NEW u \in Users, NEW p \in Tokens \cup {None}, Mint(w, u, p)
      PROVE  OthersStay(w) /\ \A t \in delivered : owner'[t] = owner[t]
    BY <1>0, <1>b, MintType DEF IInv, Minted, TokenType
<1>2. ASSUME NEW w \in Workers, NEW u \in Users, Login(w, u)
      PROVE  RevokeInv'
    BY <1>2, <1>a, <1>b, RevokeKept DEF Login, redis, history
<1>3. ASSUME NEW w \in Workers, NEW t \in Tokens, Refresh(w, t)
      PROVE  RevokeInv'
    <2>1. OthersStay(w)
        BY <1>0, <1>3, GoOnType DEF Refresh, IInv, Minted, TokenType, Steps
    <2> QED
        BY <1>3, <1>a, <2>1, RevokeKept DEF Refresh, redis, minted
<1>4. ASSUME NEW w \in Workers, Issue(w)
      PROVE  RevokeInv'
    <2>1. /\ pc[w] = "issue" /\ user[w] \in Users /\ tok[w] \in Tokens /\ tok[w] \notin delivered
          /\ UNCHANGED <<owner, scan, seen, claimed, delivered>>
        BY <1>0, <1>4 DEF Issue, RequestType, IInv, Requests, minted, history
    <2>2. OthersStay(w)
        BY <1>0, <1>4, <2>1, GoOnType, RetryOrFinishType DEF Issue, Steps
    <2>3. live' \subseteq live \cup {tok[w]}
        BY <1>4 DEF Issue, Store
    <2>4. \A v \in Workers : scan[v] \cap live' \subseteq scan'[v]
        BY <2>1
    <2> QED
        BY <1>a, <2>1, <2>2, <2>3, <2>4, RevokeKept
<1>5. ASSUME NEW w \in Workers, Respond(w)
      PROVE  RevokeInv'
    <2>1. OthersStay(w)
        BY <1>0, <1>5, FinishType DEF Respond
    <2> QED
        BY <1>5, <1>a, <2>1, RevokeKept DEF Respond, redis, minted
<1>6. ASSUME NEW w \in Workers, Redeem(w)
      PROVE  RevokeInv'
    <2>1. /\ pc[w] = "redeem" /\ user[w] \in Users /\ tok[w] \in Tokens
          /\ UNCHANGED <<owner, scan, claimed, delivered>>
        BY <1>0, <1>6 DEF Redeem, RequestType, minted
    <2>2. live' \subseteq live /\ Answer(w)
        BY <1>6 DEF Redeem, Script
    <2>3. CASE Verdict(tok[w]) = "REUSED"
        <3>1. /\ pc'[w] = "revoke" /\ user'[w] = user[w] /\ OthersStay(w)
              /\ seen' = [seen EXCEPT ![w] = TokensOf(user[w]) \cap delivered]
            BY <1>0, <2>1, <2>2, <2>3, GoOnType DEF Answer, Steps
        <3>2. /\ seen'[w] = TokensOf(user[w]) \cap delivered
              /\ \A v \in Workers \ {w} : seen'[v] = seen[v]
            BY <1>0, <3>1 DEF ScanType
        <3>3. \A v \in Workers : seen'[v] \subseteq delivered' \cap TokensOf(user[v])'
            BY <2>1, <3>1, <3>2 DEF RevokeInv, Owed, TokensOf, OthersStay
        <3>4. \A v \in Workers : pc'[v] = "scan" => seen'[v] \cap live' \subseteq scan'[v]
            BY <2>1, <2>2, <3>1, <3>2 DEF RevokeInv, Owed, OthersStay
        <3> QED
            BY <2>1, <2>2, <3>3, <3>4 DEF RevokeInv, Owed, RevokedStayDead
    <2>4. CASE Verdict(tok[w]) # "REUSED"
        <3>1. OthersStay(w) /\ UNCHANGED seen
            BY <1>0, <2>1, <2>2, <2>4, GoOnType, FinishType DEF Answer, Steps
        <3> QED
            BY <1>a, <2>1, <2>2, <3>1, RevokeKept
    <2> QED
        BY <2>3, <2>4
<1>7. ASSUME NEW w \in Workers, Unindex(w)
      PROVE  RevokeInv'
    <2>1. /\ pc[w] = "unindex" /\ user[w] \in Users /\ tok[w] \in Tokens
          /\ tok[w] \notin live
          /\ UNCHANGED <<live, delivered, seen, claimed>>
        BY <1>0, <1>7 DEF Unindex, RequestType, IInv, Requests, SpentIsDead, history
    <2>2. OthersStay(w) /\ \A t \in delivered : owner'[t] = owner[t]
        BY <1>0, <1>7, <1>b, <2>1, FinishType DEF Unindex, minted
    <2>3. \A v \in Workers : scan[v] \cap live' \subseteq scan'[v]
        BY <1>0, <1>7, <2>1, ForgetType DEF Unindex
    <2> QED
        BY <1>a, <2>1, <2>2, <2>3, RevokeKept
<1>8. ASSUME NEW w \in Workers, ScanBegin(w)
      PROVE  RevokeInv'
    <2>1. /\ scan'[w] = index \cap TokensOf(user[w])
          /\ \A v \in Workers \ {w} : scan'[v] = scan[v] /\ pc'[v] = pc[v]
          /\ UNCHANGED <<live, owner, user, delivered, seen, claimed>>
        BY <1>0, <1>8 DEF ScanBegin, ScanType, RequestType, redis, minted, history
    <2>2. seen[w] \cap live \subseteq scan'[w]
        BY <2>1 DEF RevokeInv, Owed, IInv, LiveIsIndexed
    <2> QED
        BY <2>1, <2>2 DEF RevokeInv, Owed, RevokedStayDead, TokensOf
<1>9. ASSUME NEW w \in Workers, NEW t \in Tokens, ScanDelete(w, t)
      PROVE  RevokeInv'
    <2>1. /\ live' = live \ {t}
          /\ OthersStay(w) /\ UNCHANGED <<owner, delivered, seen, claimed, pc, user>>
        BY <1>9 DEF ScanDelete, Drop, OthersStay, minted, history
    <2>2. \A v \in Workers : scan[v] \cap live' \subseteq scan'[v]
        BY <1>0, <1>9, <2>1, ForgetType DEF ScanDelete
    <2> QED
        BY <1>a, <2>1, <2>2, RevokeKept
<1>10. ASSUME NEW w \in Workers, ScanEnd(w)
       PROVE  RevokeInv'
    <2>1. OthersStay(w)
        BY <1>0, <1>10, FinishType DEF ScanEnd, AuditReuse
    <2>2. /\ pc[w] = "scan" /\ seen[w] \cap live = {} /\ seen[w] \subseteq delivered
          /\ claimed' = claimed \cup seen[w]
          /\ UNCHANGED <<live, owner, delivered>>
        BY <1>10 DEF ScanEnd, AuditReuse, RevokeInv, Owed, redis, minted
    <2>3. /\ seen'[w] = {}
          /\ \A v \in Workers \ {w} : seen'[v] = seen[v] /\ scan'[v] = scan[v]
        BY <1>0, <1>10 DEF ScanEnd, AuditReuse, ScanType
    <2>4. Owed'
        BY <2>1, <2>2, <2>3 DEF RevokeInv, Owed, TokensOf, OthersStay
    <2> QED
        BY <2>2, <2>4 DEF RevokeInv, RevokedStayDead
<1>11. ASSUME NEW w \in Workers
       PROVE  ~ScanFail(w) /\ ~RevokeRefused(w)
    BY DEF ScanFail, RevokeRefused
<1>12. ASSUME NEW t \in Tokens, Expire(t)
       PROVE  RevokeInv'
    <2>1. live' = live \ {t} /\ UNCHANGED <<owner, delivered, seen, claimed, pc, user>>
        BY <1>12 DEF Expire, Drop, minted, history
    <2>2. \A v \in Workers : scan[v] \cap live' \subseteq scan'[v]
        BY <1>0, <1>12, <2>1, ForgetType DEF Expire
    <2> QED
        BY <2>1, <2>2 DEF RevokeInv, Owed, RevokedStayDead, TokensOf
<1>13. ASSUME NEW t \in Tokens, ExpireTombstone(t)
       PROVE  RevokeInv'
    BY <1>13 DEF ExpireTombstone, RevokeInv, Owed, RevokedStayDead, TokensOf, minted,
                 request, history
<1> QED
    BY <1>1, <1>2, <1>3, <1>4, <1>5, <1>6, <1>7, <1>8, <1>9, <1>10, <1>11, <1>12, <1>13
    DEF Next, Step

\* While Redis answers every command, a token the audit log says is revoked is dead
\* for good, however logins, rotations and expiries interleave with the SCAN.
THEOREM RevocationIsFinal ==
    ASSUME Faults \subseteq {"postgres"}
    PROVE  Spec => []RevokedStayDead
<1>1. Init => RevokeInv
    BY DEF Init, RevokeInv, Owed, RevokedStayDead
<1>2. IInv /\ RevokeInv /\ [Next]_vars => RevokeInv'
    BY RevokeStep
<1>3. RevokeInv => RevokedStayDead
    BY DEF RevokeInv
<1> QED
    BY <1>1, <1>2, <1>3, Inductive, PTL DEF Spec

-----------------------------------------------------------------------------
(* Refinement *)

\* What clients see of the tokens they do not hold yet does not matter.
LEMMA SameView ==
    ASSUME delivered' = delivered,
           \A t \in delivered : owner'[t] = owner[t] /\ parent'[t] = parent[t],
           \A t \in delivered : (t \in live' <=> t \in live) /\ (t \in spent' <=> t \in spent)
    PROVE  UNCHANGED Service!vars
BY DEF Service!vars, ClientStatus, ClientHolder, ClientParent

\* The keys of t disappear: for the clients, a live token dies.
LEMMA DropIsKill ==
    ASSUME IInv, NEW t \in Tokens, Drop(t), UNCHANGED <<owner, parent, delivered, spent>>
    PROVE  [Service!Next]_(Service!vars)
<1>1. CASE t \notin delivered \cap live
    <2>1. UNCHANGED Service!vars
        BY <1>1, SameView DEF Drop
    <2> QED
        BY <2>1
<1>2. CASE t \in delivered \cap live
    <2>1. ClientStatus[t] = "live"
        BY <1>2 DEF ClientStatus
    <2>2. ClientStatus' = [ClientStatus EXCEPT ![t] = "dead"]
        BY <1>2 DEF ClientStatus, Drop, IInv, SpentIsDead
    <2>3. UNCHANGED <<ClientHolder, ClientParent>>
        BY DEF ClientHolder, ClientParent
    <2>4. Service!Kill(t)
        BY <2>1, <2>2, <2>3 DEF Service!Kill
    <2> QED
        BY <2>4 DEF Service!Next
<1> QED
    BY <1>1, <1>2

LEMMA RefinementInit == Init => Service!Init
BY DEF Init, Service!Init, ClientStatus, ClientHolder, ClientParent

LEMMA RefinementStep ==
    ASSUME IInv, IInv', [Next]_vars
    PROVE  [Service!Next]_(Service!vars)
<1>0. RequestType /\ TokenType /\ ScanType
    BY TypeParts DEF IInv
<1>1. CASE UNCHANGED vars
    BY <1>1, SameView DEF vars
<1>a. ASSUME NEW w \in Workers, NEW u \in Users, NEW p \in Tokens \cup {None}, Mint(w, u, p)
      PROVE  \A t \in delivered : owner'[t] = owner[t] /\ parent'[t] = parent[t]
    BY <1>0, <1>a, MintType DEF IInv, Minted, TokenType
<1>2. ASSUME NEW w \in Workers, NEW u \in Users, Login(w, u)
      PROVE  UNCHANGED Service!vars
    BY <1>2, <1>a, SameView DEF Login, redis, history
<1>3. ASSUME NEW w \in Workers, NEW t \in Tokens, Refresh(w, t)
      PROVE  UNCHANGED Service!vars
    BY <1>3, SameView DEF Refresh, redis, minted
<1>4. ASSUME NEW w \in Workers, Issue(w)
      PROVE  UNCHANGED Service!vars
    <2>1. tok[w] \notin delivered
        BY <1>4 DEF Issue, IInv, Requests
    <2>2. live' = live \/ live' = live \cup {tok[w]}
        BY <1>4 DEF Issue, Store
    <2> QED
        BY <1>4, <2>1, <2>2, SameView DEF Issue, minted, history
<1>5. ASSUME NEW w \in Workers, Respond(w)
      PROVE  Service!Next
    <2> DEFINE t == tok[w]
               p == parent[t]
    <2>1. /\ t \in Tokens /\ t \notin delivered /\ owner[t] = user[w] /\ user[w] \in Users
          /\ t \notin spent
          /\ delivered' = delivered \cup {t}
          /\ UNCHANGED <<live, owner, parent, spent>>
        BY <1>0, <1>5 DEF Respond, RequestType, IInv, Requests, Minted, redis, minted
    <2>2. p \in Tokens \cup {None}
        BY <1>0, <2>1 DEF TokenType
    <2>3. ClientStatus[t] = "unissued"
        BY <2>1 DEF ClientStatus
    <2>4. ClientStatus' = [ClientStatus EXCEPT ![t] = IF t \in live THEN "live" ELSE "dead"]
        BY <2>1 DEF ClientStatus
    <2>5. ClientHolder' = [ClientHolder EXCEPT ![t] = user[w]]
        BY <2>1 DEF ClientHolder
    <2>6. ClientParent' = [ClientParent EXCEPT ![t] = p]
        BY <2>1 DEF ClientParent
    <2>7. ASSUME p # None
          PROVE  /\ ClientStatus[p] = "spent" /\ ClientHolder[p] = user[w]
                 /\ \A s \in Tokens : ClientParent[s] # p
        <3>1. p \in Tokens /\ p \in spent /\ p \in delivered /\ p \notin live /\ owner[p] = user[w]
            BY <2>1, <2>2, <2>7 DEF IInv, Minted, SpentIsDead
        <3>2. \A s \in delivered : parent[s] # p
            BY <1>0, <2>1, <2>7 DEF IInv, OneSuccessor, TokenType
        <3> QED
            BY <2>7, <3>1, <3>2 DEF ClientStatus, ClientHolder, ClientParent
    <2>8. \E s \in {"live", "dead"} : ClientStatus' = [ClientStatus EXCEPT ![t] = s]
        BY <2>4
    <2>9. Service!Issue(t, user[w], p)
        BY <2>3, <2>5, <2>6, <2>7, <2>8 DEF Service!Issue
    <2> QED
        BY <2>1, <2>2, <2>9 DEF Service!Next
<1>6. ASSUME NEW w \in Workers, Redeem(w)
      PROVE  [Service!Next]_(Service!vars)
    <2> DEFINE t == tok[w]
    <2>1. /\ t \in delivered /\ t \in Tokens
          /\ UNCHANGED <<owner, parent, delivered>>
        BY <1>0, <1>6 DEF Redeem, IInv, Requests, RequestType, minted
    <2>2. CASE Verdict(t) = "OK" /\ Script(t)
        <3>1. /\ t \in live /\ live' = live \ {t} /\ spent' = spent \cup {t}
            BY <2>2 DEF Verdict, Script
        <3>2. ClientStatus[t] = "live"
            BY <2>1, <3>1 DEF ClientStatus
        <3>3. ClientStatus' = [ClientStatus EXCEPT ![t] = "spent"]
            BY <2>1, <3>1 DEF ClientStatus
        <3>4. UNCHANGED <<ClientHolder, ClientParent>>
            BY <2>1 DEF ClientHolder, ClientParent
        <3>5. Service!Spend(t)
            BY <3>2, <3>3, <3>4 DEF Service!Spend
        <3> QED
            BY <2>1, <3>5 DEF Service!Next
    <2>3. CASE UNCHANGED <<live, spent>>
        <3>1. UNCHANGED Service!vars
            BY <2>1, <2>3, SameView
        <3> QED
            BY <3>1
    <2> QED
        BY <1>6, <2>2, <2>3 DEF Redeem, Script
<1>7. ASSUME NEW w \in Workers, Unindex(w)
      PROVE  UNCHANGED Service!vars
    <2>1. user[w] \in Users /\ tok[w] \in Tokens /\ UNCHANGED <<live, spent, delivered>>
        BY <1>0, <1>7 DEF Unindex, RequestType, history
    <2>2. \A t \in delivered : owner'[t] = owner[t] /\ parent'[t] = parent[t]
        BY <1>7, <1>a, <2>1 DEF Unindex, minted
    <2> QED
        BY <2>1, <2>2, SameView
<1>8. ASSUME NEW w \in Workers, ScanBegin(w)
      PROVE  UNCHANGED Service!vars
    BY <1>8, SameView DEF ScanBegin, redis, minted, history
<1>9. ASSUME NEW w \in Workers, NEW t \in Tokens, ScanDelete(w, t)
      PROVE  [Service!Next]_(Service!vars)
    BY <1>9, DropIsKill DEF ScanDelete, minted, history
<1>10. ASSUME NEW w \in Workers, ScanEnd(w) \/ ScanFail(w) \/ RevokeRefused(w)
       PROVE  UNCHANGED Service!vars
    BY <1>10, SameView DEF ScanEnd, ScanFail, RevokeRefused, redis, minted
<1>11. ASSUME NEW t \in Tokens, Expire(t)
       PROVE  [Service!Next]_(Service!vars)
    BY <1>11, DropIsKill DEF Expire, minted, history
<1>12. ASSUME NEW t \in Tokens, ExpireTombstone(t)
       PROVE  UNCHANGED Service!vars
    BY <1>12, SameView DEF ExpireTombstone, minted, history
<1> QED
    BY <1>1, <1>2, <1>3, <1>4, <1>5, <1>6, <1>7, <1>8, <1>9, <1>10, <1>11, <1>12
    DEF Next, Step

\* The Redis commands of RefreshTokens, however they interleave, fail and are
\* repeated, give clients what SessionTokens promises.
THEOREM Implements == Spec => ServiceSpec
<1>1. Init => Service!Init
    BY RefinementInit
<1>2. IInv /\ IInv' /\ [Next]_vars => [Service!Next]_(Service!vars)
    BY RefinementStep
<1> QED
    BY <1>1, <1>2, Inductive, PTL DEF Spec, ServiceSpec, Service!Spec

\* A token that is spent or dead for the clients of SessionTokens stays so.
LEMMA EndsAreFinal ==
    ASSUME IInv, [Service!Next]_(Service!vars), NEW t \in Tokens,
           ClientStatus[t] \in {"spent", "dead"}
    PROVE  ClientStatus'[t] = ClientStatus[t]
<1>1. CASE UNCHANGED Service!vars
    BY <1>1 DEF Service!vars
<1>2. ASSUME NEW s \in Tokens, NEW u \in Users, NEW p \in Tokens \cup {None}, Service!Issue(s, u, p)
      PROVE  ClientStatus'[t] = ClientStatus[t]
    BY <1>2 DEF Service!Issue, ClientStatus
<1>3. ASSUME NEW s \in Tokens, Service!Spend(s) \/ Service!Kill(s)
      PROVE  ClientStatus'[t] = ClientStatus[t]
    BY <1>3 DEF Service!Spend, Service!Kill, ClientStatus
<1> QED
    BY <1>1, <1>2, <1>3 DEF Service!Next

\* A client's token never comes back: neither a MULTI that is repeated after its reply
\* was lost nor the end of a tombstone makes a spent or revoked token valid again.
THEOREM NoTokenComesBack == Spec => NoneComesBack
<1>1. IInv /\ IInv' /\ [Next]_vars =>
          [\A t \in Tokens :
              ClientStatus[t] \in {"spent", "dead"} => ClientStatus'[t] = ClientStatus[t]]_vars
    BY RefinementStep, EndsAreFinal
<1> QED
    BY <1>1, Inductive, PTL DEF Spec, NoneComesBack

-----------------------------------------------------------------------------
(* What the liveness of a revocation rests on *)

\* An iteration owes what it owed, less what has been deleted.
LEMMA ScanKept ==
    ASSUME RequestType, ScanType, ScanCanGoOn,
           \A v \in Workers : scan'[v] \subseteq scan[v] \cap index',
           \A v \in Workers : scan'[v] # {} => user'[v] = user[v],
           \A t \in Tokens : owner[t] # None => owner'[t] = owner[t]
    PROVE  ScanCanGoOn' /\ \A v \in Workers : pc[v] = "scan" => scan'[v] \subseteq scan[v]
<1> SUFFICES ASSUME NEW v \in Workers, NEW t \in scan'[v]
             PROVE  t \in index' /\ t \in TokensOf(user[v])'
    BY DEF ScanCanGoOn
<1>1. t \in scan[v] /\ t \in index' /\ user'[v] = user[v]
    OBVIOUS
<1>2. owner[t] = user[v] /\ t \in Tokens
    BY <1>1 DEF ScanCanGoOn, TokensOf
<1>3. user[v] # None
    BY <1>1 DEF RequestType, ScanType
<1> QED
    BY <1>1, <1>2, <1>3 DEF TokensOf

LEMMA ScanStep ==
    ASSUME IInv, ScanCanGoOn, [Next]_vars
    PROVE  ScanCanGoOn' /\ \A v \in Workers : pc[v] = "scan" => scan'[v] \subseteq scan[v]
<1> DEFINE Goal == ScanCanGoOn' /\ \A v \in Workers : pc[v] = "scan" => scan'[v] \subseteq scan[v]
<1>0. RequestType /\ TokenType /\ ScanType
    BY TypeParts DEF IInv
<1>a. /\ \A v \in Workers : scan[v] # {} => pc[v] = "scan"
      /\ \A v \in Workers : scan[v] \subseteq index
    BY <1>0 DEF ScanType, ScanCanGoOn
<1>b. ASSUME NEW w \in Workers, OthersStay(w), pc[w] # "scan"
      PROVE  \A v \in Workers : scan[v] # {} => user'[v] = user[v]
    BY <1>a, <1>b DEF OthersStay
<1>c. ASSUME NEW w \in Workers, NEW u \in Users, NEW p \in Tokens \cup {None}, Mint(w, u, p)
      PROVE  OthersStay(w) /\ \A t \in Tokens : owner[t] # None => owner'[t] = owner[t]
    BY <1>0, <1>c, MintType
<1>1. CASE UNCHANGED vars
    BY <1>0, <1>1, <1>a, ScanKept DEF vars
<1>2. ASSUME NEW w \in Workers, NEW u \in Users, Login(w, u) PROVE Goal
    <2>1. pc[w] = "idle" /\ UNCHANGED <<index, scan>> /\ Mint(w, u, None)
        BY <1>2 DEF Login, redis
    <2> QED
        BY <1>0, <1>a, <1>b, <1>c, <2>1, ScanKept
<1>3. ASSUME NEW w \in Workers, NEW t \in Tokens, Refresh(w, t) PROVE Goal
    <2>1. OthersStay(w)
        BY <1>0, <1>3, GoOnType DEF Refresh, IInv, Minted, TokenType, Steps
    <2>2. pc[w] = "idle" /\ UNCHANGED <<index, scan, owner>>
        BY <1>3 DEF Refresh, redis, minted
    <2> QED
        BY <1>0, <1>a, <1>b, <2>1, <2>2, ScanKept
<1>4. ASSUME NEW w \in Workers, Issue(w) PROVE Goal
    <2>1. /\ pc[w] = "issue" /\ user[w] \in Users /\ tok[w] \in Tokens
          /\ UNCHANGED <<owner, scan>>
        BY <1>0, <1>4 DEF Issue, RequestType, minted
    <2>2. OthersStay(w)
        BY <1>0, <1>4, <2>1, GoOnType, RetryOrFinishType DEF Issue, Steps
    <2>3. index \subseteq index'
        BY <1>4 DEF Issue, Store
    <2> QED
        BY <1>0, <1>a, <1>b, <2>1, <2>2, <2>3, ScanKept
<1>5. ASSUME NEW w \in Workers, Respond(w) PROVE Goal
    <2>1. OthersStay(w) /\ pc[w] = "respond" /\ UNCHANGED <<index, scan, owner>>
        BY <1>0, <1>5, FinishType DEF Respond, redis, minted
    <2> QED
        BY <1>0, <1>a, <1>b, <2>1, ScanKept
<1>6. ASSUME NEW w \in Workers, Redeem(w) PROVE Goal
    <2>1. /\ pc[w] = "redeem" /\ user[w] \in Users /\ tok[w] \in Tokens
          /\ UNCHANGED <<owner, scan, index>>
        BY <1>0, <1>6 DEF Redeem, RequestType, minted
    <2>2. OthersStay(w)
        BY <1>0, <1>6, <2>1, GoOnType, FinishType, RetryOrFinishType DEF Redeem, Answer, Steps
    <2> QED
        BY <1>0, <1>a, <1>b, <2>1, <2>2, ScanKept
<1>7. ASSUME NEW w \in Workers, Unindex(w) PROVE Goal
    <2>1. pc[w] = "unindex" /\ user[w] \in Users /\ tok[w] \in Tokens
        BY <1>0, <1>7 DEF Unindex, RequestType
    <2>2. OthersStay(w) /\ \A t \in Tokens : owner[t] # None => owner'[t] = owner[t]
        BY <1>0, <1>7, <1>c, <2>1, FinishType DEF Unindex, minted
    <2>3. \A v \in Workers : scan'[v] \subseteq scan[v] \cap index'
        BY <1>0, <1>7, <1>a, ForgetType DEF Unindex
    <2> QED
        BY <1>0, <1>b, <2>1, <2>2, <2>3, ScanKept
<1>8. ASSUME NEW w \in Workers, ScanBegin(w) PROVE Goal
    <2>1. /\ pc[w] = "revoke"
          /\ scan'[w] = index \cap TokensOf(user[w])
          /\ \A v \in Workers \ {w} : scan'[v] = scan[v]
          /\ UNCHANGED <<index, owner, user>>
        BY <1>0, <1>8 DEF ScanBegin, ScanType, redis, minted
    <2> QED
        BY <2>1 DEF ScanCanGoOn, TokensOf
<1>9. ASSUME NEW t \in Tokens, Drop(t), Forget({t}), UNCHANGED <<owner, user>> PROVE Goal
    <2>1. \A v \in Workers : scan'[v] \subseteq scan[v] \cap index'
        BY <1>0, <1>9, <1>a, ForgetType DEF Drop
    <2> QED
        BY <1>0, <1>9, <2>1, ScanKept
<1>10. ASSUME NEW w \in Workers, AuditReuse(w), UNCHANGED <<index, owner>> PROVE Goal
    <2>1. /\ OthersStay(w)
          /\ scan'[w] = {}
          /\ \A v \in Workers \ {w} : scan'[v] = scan[v]
        BY <1>0, <1>10, FinishType DEF AuditReuse, ScanType
    <2> QED
        BY <1>0, <1>10, <1>a, <2>1, ScanKept DEF OthersStay
<1>11. ASSUME NEW w \in Workers, ScanFail(w) PROVE Goal
    <2>1. UNCHANGED <<index, owner>>
        BY <1>11 DEF ScanFail, redis, minted
    <2>2. CASE scan' = [scan EXCEPT ![w] = {}] /\ UNCHANGED user
        <3>1. scan'[w] = {} /\ \A v \in Workers \ {w} : scan'[v] = scan[v]
            BY <1>0, <2>2 DEF ScanType
        <3> QED
            BY <1>0, <1>a, <2>1, <2>2, <3>1, ScanKept
    <2> QED
        BY <1>10, <1>11, <2>1, <2>2 DEF ScanFail
<1>12. ASSUME NEW w \in Workers, ScanEnd(w) \/ RevokeRefused(w) PROVE Goal
    BY <1>10, <1>12 DEF ScanEnd, RevokeRefused, redis, minted
<1>13. ASSUME NEW t \in Tokens, Expire(t) \/ \E w \in Workers : ScanDelete(w, t) PROVE Goal
    BY <1>9, <1>13 DEF Expire, ScanDelete, minted
<1>14. ASSUME NEW t \in Tokens, ExpireTombstone(t) PROVE Goal
    BY <1>0, <1>14, <1>a, ScanKept DEF ExpireTombstone, request, minted
<1> QED
    BY <1>1, <1>2, <1>3, <1>4, <1>5, <1>6, <1>7, <1>8, <1>11, <1>12, <1>13, <1>14
    DEF Next, Step

\* RevokeAllRefreshTokens is never stuck: every key an iteration still owes is in the
\* index and the user's, whatever others delete, add or let expire meanwhile.
THEOREM ScansCanGoOn == Spec => []ScanCanGoOn
<1>1. Init => ScanCanGoOn
    BY DEF Init, ScanCanGoOn
<1>2. IInv /\ ScanCanGoOn /\ [Next]_vars => ScanCanGoOn'
    BY ScanStep
<1> QED
    BY <1>1, <1>2, Inductive, PTL DEF Spec

\* And it has an end: what an iteration owes only becomes less.
THEOREM ScansShrink == Spec => ScanShrinks
<1>1. IInv /\ ScanCanGoOn /\ [Next]_vars =>
          [\A w \in Workers : pc[w] = "scan" => scan'[w] \subseteq scan[w]]_vars
    BY ScanStep
<1> QED
    BY <1>1, Inductive, ScansCanGoOn, PTL DEF Spec, ScanShrinks
=============================================================================
