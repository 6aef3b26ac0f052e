----------------------- MODULE ExecutionIntake_proofs -----------------------
(***************************************************************************)
(* Proofs about the creation of executions, for any number of requests,    *)
(* edits, tokens and retries, any assets, rules and targets: first that    *)
(* what is created is current, whatever a resolution computes; then what   *)
(* the resolver computes for any input; then the two together.             *)
(***************************************************************************)
EXTENDS ProfiledIntake, SequenceLemmas, FiniteSetTheorems, TLAPS

\* TypeOK, in the parts a step can disturb.
Committed ==
  /\ assets \in Assets /\ config \in Configs
  /\ assetRev \in Nat /\ configRev \in Nat
  /\ released \in BOOLEAN /\ begun \in Nat
  /\ editing \in Configs \cup {Nothing}
Cached   == DOMAIN cache \subseteq Revs /\ \A k \in DOMAIN cache : cache[k] \in Configs
Prepared == DOMAIN tokens \subseteq TokenIds /\ \A i \in DOMAIN tokens : tokens[i] \in Token
Locks ==
  /\ projectLock \in Requests \cup {Nothing}
  /\ profileLock \in Requests \cup {Nothing, Editor}
  /\ \A r \in Requests :
       /\ projectLock = r <=> req[r].pc \in {"project locked", "profile locked"}
       /\ profileLock = r <=> req[r].pc = "profile locked"

\* What was read under a revision is what is committed as long as that revision
\* is the current one, step by step of a resolution; a lock keeps it current.
Early == {"idle", "peeked"}

Stands(q) ==
  q.pc \notin Early =>
    /\ q.target \in Targets
    /\ q.revs.asset <= assetRev /\ q.revs.config <= configRev
    /\ q.revs.config = configRev => q.pc = "checked" \/ q.reads.config = config
    /\ q.revs.asset = assetRev =>
         /\ q.pc \in {"checked", "configured"} \/ q.reads.layout = assets
         /\ q.pc \in {"checked", "configured", "laid out"} \/ q.reads.vars = assets
    /\ q.pc \in {"project locked", "profile locked"} => q.revs.asset = assetRev
    /\ q.pc = "profile locked" => q.revs.config = configRev

TokenStands(t) ==
  /\ t.revs.asset <= assetRev /\ t.revs.config <= configRev
  /\ t.revs.config = configRev => t.reads.config = config
  /\ t.revs.asset = assetRev => t.reads.layout = assets /\ t.reads.vars = assets

CacheStands ==
  \A k \in DOMAIN cache : k.config <= configRev /\ (k.config = configRev => cache[k] = config)

RequestsStand == \A r \in Requests : Stands(req[r])
TokensStand   == \A i \in DOMAIN tokens : TokenStands(tokens[i])
EditorWrites  == profileLock = Editor => editing \in Configs

IInv ==
  /\ Committed /\ req \in [Requests -> Request] /\ Cached /\ Prepared
  /\ executions \in Seq(Execution) /\ Locks
  /\ RequestsStand /\ TokensStand /\ CacheStands /\ EditorWrites

LEMMA IInvTypes == IInv => TypeOK
BY DEF IInv, TypeOK, Committed, Cached, Prepared, Locks

-----------------------------------------------------------------------------
(* One step.                                                               *)

\* What one request reads or decides disturbs nothing but that request.
LEMMA RequestMoves ==
  ASSUME IInv, NEW r \in Requests, NEW q \in Request, req' = [req EXCEPT ![r] = q],
         Stands(q),
         UNCHANGED <<assets, assetRev, config, configRev, released, editing>>, begun' \in Nat
  PROVE  /\ Committed' /\ req' \in [Requests -> Request] /\ RequestsStand'
         /\ EditorWrites' \/ profileLock' # profileLock
<1>1. Committed' BY DEF IInv, Committed
<1>2. req' \in [Requests -> Request] BY DEF IInv
<1>3. RequestsStand'
  <2> SUFFICES ASSUME NEW s \in Requests PROVE Stands(req[s])'
    BY DEF RequestsStand
  <2>1. req'[s] = IF s = r THEN q ELSE req[s] BY DEF IInv
  <2>2. Stands(req'[s]) BY <2>1 DEF IInv, RequestsStand
  <2> QED BY <2>2 DEF Stands
<1>4. EditorWrites' \/ profileLock' # profileLock BY DEF IInv, EditorWrites
<1> QED BY <1>1, <1>2, <1>3, <1>4

LEMMA IdleStands == Idle \in Request /\ Stands(Idle)
BY DEF Idle, Request, Revs, NoRevs, Reads, Unread, Stands, Early

\* A step of one request that touches neither locks nor what is committed.
LEMMA PlainStep ==
  ASSUME IInv, NEW r \in Requests, NEW q \in Request, req' = [req EXCEPT ![r] = q],
         Stands(q), begun' \in Nat, UNCHANGED edits, UNCHANGED locks,
         {req[r].pc, q.pc} \cap {"project locked", "profile locked"} = {},
         Cached', CacheStands', Prepared', TokensStand', UNCHANGED executions
  PROVE  IInv'
<1>1. Committed' /\ req' \in [Requests -> Request] /\ RequestsStand'
      /\ (EditorWrites' \/ profileLock' # profileLock)
  BY RequestMoves DEF edits
<1>2. EditorWrites' BY <1>1 DEF locks
<1>3. Locks'
  <2>1. \A s \in Requests : req'[s].pc = IF s = r THEN q.pc ELSE req[s].pc BY DEF IInv
  <2> QED BY <2>1 DEF IInv, Locks, locks
<1> QED BY <1>1, <1>2, <1>3 DEF IInv

LEMMA CacheStays ==
  ASSUME IInv, UNCHANGED edits, UNCHANGED cache PROVE Cached' /\ CacheStands'
BY DEF IInv, edits, Cached, CacheStands

LEMMA TokensStay ==
  ASSUME IInv, UNCHANGED edits, UNCHANGED tokens PROVE Prepared' /\ TokensStand'
BY DEF IInv, edits, Prepared, TokensStand, TokenStands

LEMMA Ended ==
  ASSUME IInv, NEW r \in Requests, EndRequest(r), begun' \in Nat, UNCHANGED edits,
         UNCHANGED locks, req[r].pc \notin {"project locked", "profile locked"},
         UNCHANGED cache, Prepared', TokensStand', UNCHANGED executions
  PROVE  IInv'
<1>1. req' = [req EXCEPT ![r] = Idle] BY DEF EndRequest
<1>2. Idle.pc = "idle" BY DEF Idle
<1> QED BY <1>1, <1>2, IdleStands, CacheStays, PlainStep

LEMMA BeginKeeps ==
  ASSUME IInv, NEW r \in Requests, NEW kind \in {"preview", "fresh"}, NEW t \in Targets,
         Begin(r, kind, t)
  PROVE  IInv'
<1> DEFINE q == [Idle EXCEPT !.pc = "checked", !.kind = kind, !.target = t,
                             !.revs = CurrentRevs]
<1>1. q \in Request /\ Stands(q)
  <2>1. /\ Idle \in Request /\ CurrentRevs \in Revs
        /\ CurrentRevs.asset = assetRev /\ CurrentRevs.config = configRev
    BY IdleStands DEF CurrentRevs, Revs, IInv, Committed
  <2>2. q \in Request BY <2>1 DEF Request
  <2>3. q.pc = "checked" /\ q.target = t /\ q.revs = CurrentRevs BY <2>1 DEF Request
  <2>4. assetRev <= assetRev /\ configRev <= configRev BY DEF IInv, Committed
  <2> HIDE DEF q
  <2> QED BY <2>1, <2>2, <2>3, <2>4 DEF Stands, Early
<1>2. /\ req' = [req EXCEPT ![r] = q] /\ begun' \in Nat /\ UNCHANGED edits /\ UNCHANGED locks
      /\ UNCHANGED cache /\ UNCHANGED tokens /\ UNCHANGED executions /\ req[r].pc = "idle"
  BY DEF Begin, StartRequest, At, edits, locks, IInv, Committed
<1>3. q.pc = "checked" BY DEF Idle
<1> HIDE DEF q
<1> QED BY <1>1, <1>2, <1>3, CacheStays, TokensStay, PlainStep

LEMMA LoadConfigKeeps ==
  ASSUME IInv, NEW r \in Requests, LoadConfig(r) PROVE IInv'
<1> DEFINE revs   == req[r].revs
           loaded == IF revs \in DOMAIN cache THEN cache[revs] ELSE config
           q      == [req[r] EXCEPT !.pc = "configured", !.reads.config = loaded]
<1>1. req[r] \in Request /\ revs \in Revs BY DEF IInv, Request
<1>2. loaded \in Configs /\ (revs.config = configRev => loaded = config)
  BY DEF IInv, Cached, CacheStands, Committed
<1>3. req[r].pc = "checked" BY DEF LoadConfig, At
<1>4. Stands(req[r]) BY DEF IInv, RequestsStand
<1>5. /\ q \in Request /\ q.pc = "configured" /\ q.target = req[r].target
      /\ q.revs = revs /\ q.reads.config = loaded
  BY <1>1, <1>2 DEF Request, Reads
<1>6. Stands(q) BY <1>2, <1>3, <1>4, <1>5 DEF Stands, Early
<1>7. /\ req' = [req EXCEPT ![r] = q] /\ begun' \in Nat /\ UNCHANGED edits /\ UNCHANGED locks
      /\ UNCHANGED tokens /\ UNCHANGED executions
      /\ cache' = [k \in DOMAIN cache \cup {revs} |-> IF k = revs THEN loaded ELSE cache[k]]
  BY DEF LoadConfig, edits, locks, IInv, Committed
<1>8. revs.config <= configRev BY <1>3, <1>4 DEF Stands, Early
<1> HIDE DEF revs, loaded, q
<1>9. Cached' /\ CacheStands'
  BY <1>1, <1>2, <1>7, <1>8 DEF IInv, Cached, CacheStands, edits
<1> QED BY <1>3, <1>5, <1>6, <1>7, <1>9, TokensStay, PlainStep

LEMMA EvictKeeps ==
  ASSUME IInv, NEW revs \in DOMAIN cache, Evict(revs) PROVE IInv'
<1>1. Cached' /\ CacheStands' BY DEF IInv, Evict, Cached, CacheStands, edits
<1>2. Prepared' /\ TokensStand' BY TokensStay DEF Evict
<1>3. Committed' /\ Locks' /\ EditorWrites'
  BY DEF IInv, Evict, Committed, Locks, EditorWrites, edits, locks
<1>4. RequestsStand' BY DEF IInv, Evict, RequestsStand, Stands, edits
<1> QED BY <1>1, <1>2, <1>3, <1>4 DEF IInv, Evict

LEMMA LoadLayoutKeeps ==
  ASSUME IInv, NEW r \in Requests, LoadLayout(r) PROVE IInv'
<1> DEFINE q == [req[r] EXCEPT !.pc = "laid out", !.reads.layout = assets]
<1>1. req[r] \in Request /\ Stands(req[r]) /\ req[r].pc = "configured"
  BY DEF IInv, RequestsStand, LoadLayout, At
<1>2. /\ q \in Request /\ q.pc = "laid out" /\ q.target = req[r].target
      /\ q.revs = req[r].revs /\ q.reads.config = req[r].reads.config
      /\ q.reads.layout = assets
  BY <1>1 DEF Request, Reads, IInv, Committed
<1>3. Stands(q) BY <1>1, <1>2 DEF Stands, Early
<1>4. /\ req' = [req EXCEPT ![r] = q] /\ begun' \in Nat /\ UNCHANGED edits /\ UNCHANGED locks
      /\ UNCHANGED cache /\ UNCHANGED tokens /\ UNCHANGED executions
  BY DEF LoadLayout, edits, locks, IInv, Committed
<1> HIDE DEF q
<1> QED BY <1>1, <1>2, <1>3, <1>4, CacheStays, TokensStay, PlainStep

LEMMA LoadVariablesKeeps ==
  ASSUME IInv, NEW r \in Requests, LoadVariables(r) PROVE IInv'
<1> DEFINE reads == [req[r].reads EXCEPT !.vars = assets]
           q == [req[r] EXCEPT !.pc = "resolved", !.reads = reads]
<1>1. req[r] \in Request /\ Stands(req[r]) /\ req[r].pc = "laid out"
  BY DEF IInv, RequestsStand, LoadVariables, At
<1>2. /\ q \in Request /\ q.pc = "resolved" /\ q.target = req[r].target
      /\ q.revs = req[r].revs /\ q.reads.config = req[r].reads.config
      /\ q.reads.layout = req[r].reads.layout /\ q.reads.vars = assets
  BY <1>1 DEF Request, Reads, IInv, Committed
<1>3. Stands(q) BY <1>1, <1>2 DEF Stands, Early
<1>4. /\ begun' \in Nat /\ UNCHANGED edits /\ UNCHANGED locks
      /\ UNCHANGED cache /\ UNCHANGED tokens /\ UNCHANGED executions
      /\ req' = [req EXCEPT ![r] = q] \/ EndRequest(r)
  BY DEF LoadVariables, edits, locks, IInv, Committed
<1>5. CASE req' = [req EXCEPT ![r] = q]
  <2> HIDE DEF q
  <2> QED BY <1>1, <1>2, <1>3, <1>4, <1>5, CacheStays, TokensStay, PlainStep
<1>6. CASE EndRequest(r) BY <1>1, <1>4, <1>6, TokensStay, Ended
<1> QED BY <1>4, <1>5, <1>6

LEMMA AnswerPreviewKeeps ==
  ASSUME IInv, NEW r \in Requests, AnswerPreview(r) PROVE IInv'
<1>1. /\ EndRequest(r) /\ begun' \in Nat /\ UNCHANGED edits /\ UNCHANGED locks
      /\ UNCHANGED cache /\ UNCHANGED tokens /\ UNCHANGED executions /\ req[r].pc = "resolved"
  BY DEF AnswerPreview, At, edits, locks, IInv, Committed
<1> QED BY <1>1, TokensStay, Ended

LEMMA SavePrepareKeeps ==
  ASSUME IInv, NEW r \in Requests, SavePrepare(r) PROVE IInv'
<1> DEFINE kept == {i \in DOMAIN tokens : ~ tokens[i].expired}
           new  == [target |-> req[r].target, revs |-> req[r].revs, reads |-> req[r].reads,
                    consumed |-> FALSE, expired |-> FALSE]
<1>1. PICK i \in TokenIds \ DOMAIN tokens :
        tokens' = [k \in kept \cup {i} |-> IF k = i THEN new ELSE tokens[k]]
  BY DEF SavePrepare
<1>2. /\ EndRequest(r) /\ begun' \in Nat /\ UNCHANGED edits /\ UNCHANGED locks
      /\ UNCHANGED cache /\ UNCHANGED executions /\ req[r].pc = "resolved"
  BY DEF SavePrepare, At, edits, locks, IInv, Committed
<1>3. Stands(req[r]) /\ req[r] \in Request BY DEF IInv, RequestsStand
<1>4. new \in Token /\ TokenStands(new)
  BY <1>2, <1>3 DEF Token, Request, TokenStands, Stands, Early
<1> HIDE DEF new
<1>5. kept \subseteq DOMAIN tokens OBVIOUS
<1> HIDE DEF kept
<1>6. \A k \in DOMAIN tokens' : tokens'[k] = new \/ (k \in DOMAIN tokens /\ tokens'[k] = tokens[k])
  BY <1>1, <1>5
<1>7. Prepared' BY <1>1, <1>4, <1>5, <1>6 DEF IInv, Prepared
<1>8. TokensStand'
  <2> SUFFICES ASSUME NEW k \in DOMAIN tokens' PROVE TokenStands(tokens[k])' BY DEF TokensStand
  <2>1. TokenStands(tokens'[k]) BY <1>4, <1>6 DEF IInv, TokensStand
  <2> QED BY <1>2, <2>1 DEF TokenStands, edits
<1> QED BY <1>2, <1>7, <1>8, Ended

LEMMA ExpireKeeps ==
  ASSUME IInv, NEW i \in TokenIds, Expire(i) PROVE IInv'
<1>1. /\ i \in DOMAIN tokens /\ tokens' = [tokens EXCEPT ![i].expired = TRUE]
      /\ UNCHANGED edits /\ UNCHANGED locks /\ UNCHANGED cache
      /\ begun' = begun /\ req' = req /\ executions' = executions
  BY DEF Expire
<1>2. \A k \in DOMAIN tokens' :
        /\ k \in DOMAIN tokens /\ tokens'[k] \in Token
        /\ tokens'[k].revs = tokens[k].revs /\ tokens'[k].reads = tokens[k].reads
  BY <1>1 DEF IInv, Prepared, Token
<1>3. Prepared' BY <1>1, <1>2 DEF IInv, Prepared
<1>4. TokensStand' BY <1>1, <1>2 DEF IInv, TokensStand, TokenStands, edits
<1>5. Cached' /\ CacheStands' BY <1>1, CacheStays
<1>6. Committed' /\ Locks' /\ EditorWrites'
  BY <1>1 DEF IInv, Committed, Locks, EditorWrites, edits, locks
<1>7. RequestsStand' BY <1>1 DEF IInv, RequestsStand, Stands, edits
<1> QED BY <1>1, <1>3, <1>4, <1>5, <1>6, <1>7 DEF IInv

LEMMA PeekTokenKeeps ==
  ASSUME IInv, NEW r \in Requests, NEW i \in TokenIds, PeekToken(r, i) PROVE IInv'
<1> DEFINE q == [Idle EXCEPT !.pc = "peeked", !.kind = "token", !.token = i,
                             !.consumed = tokens[i].consumed]
<1>1. i \in DOMAIN tokens /\ i \in Nat BY BoundsAreNumbers DEF PeekToken, TokenIds
<1>2. tokens[i].consumed \in BOOLEAN BY <1>1 DEF IInv, Prepared, Token
<1>3. q \in Request /\ q.pc = "peeked" BY <1>1, <1>2, IdleStands DEF Request
<1>4. /\ req' = [req EXCEPT ![r] = q] /\ begun' \in Nat /\ UNCHANGED edits /\ UNCHANGED locks
      /\ UNCHANGED cache /\ UNCHANGED tokens /\ UNCHANGED executions /\ req[r].pc = "idle"
  BY DEF PeekToken, StartRequest, At, edits, locks, IInv, Committed
<1> HIDE DEF q
<1>5. Stands(q) BY <1>3 DEF Stands, Early
<1> QED BY <1>3, <1>4, <1>5, CacheStays, TokensStay, PlainStep

LEMMA LockTokenKeeps ==
  ASSUME IInv, NEW r \in Requests, LockToken(r) PROVE IInv'
<1> DEFINE i == req[r].token
           q == [req[r] EXCEPT !.pc = "resolved", !.target = tokens[i].target,
                               !.revs = tokens[i].revs, !.reads = tokens[i].reads]
<1>1. /\ begun' \in Nat /\ UNCHANGED edits /\ UNCHANGED locks
      /\ UNCHANGED cache /\ UNCHANGED tokens /\ UNCHANGED executions /\ req[r].pc = "peeked"
      /\ (i \in DOMAIN tokens /\ req' = [req EXCEPT ![r] = q]) \/ EndRequest(r)
  BY DEF LockToken, At, edits, locks, IInv, Committed
<1>2. CASE i \in DOMAIN tokens /\ req' = [req EXCEPT ![r] = q]
  <2>1. tokens[i] \in Token /\ TokenStands(tokens[i]) /\ req[r] \in Request
    BY <1>2 DEF IInv, Prepared, TokensStand
  <2>2. /\ q \in Request /\ q.pc = "resolved" /\ q.target = tokens[i].target
        /\ q.revs = tokens[i].revs /\ q.reads = tokens[i].reads
    BY <2>1 DEF Request, Token
  <2>3. tokens[i].target \in Targets BY <2>1 DEF Token
  <2> HIDE DEF q, i
  <2>4. Stands(q) BY <2>1, <2>2, <2>3 DEF Stands, TokenStands, Early
  <2> QED BY <1>1, <1>2, <2>2, <2>4, CacheStays, TokensStay, PlainStep
<1>3. CASE EndRequest(r) BY <1>1, <1>3, TokensStay, Ended
<1> QED BY <1>1, <1>2, <1>3

\* Steps that take or give back locks.
LEMMA LockStep ==
  ASSUME IInv, NEW r \in Requests, NEW q \in Request, req' = [req EXCEPT ![r] = q],
         Stands(q), UNCHANGED edits, begun' = begun, Locks', UNCHANGED cache,
         Prepared', TokensStand', executions' \in Seq(Execution),
         profileLock' \in Requests \cup {Nothing, profileLock}
  PROVE  IInv'
<1>1. Committed' /\ req' \in [Requests -> Request] /\ RequestsStand'
      /\ (EditorWrites' \/ profileLock' # profileLock)
  BY RequestMoves DEF edits, IInv, Committed
<1>2. EditorWrites' BY <1>1, EditorIsNew DEF EditorWrites
<1>3. Cached' /\ CacheStands' BY CacheStays
<1> QED BY <1>1, <1>2, <1>3 DEF IInv

LEMMA LockProjectKeeps ==
  ASSUME IInv, NEW r \in Requests, LockProject(r) PROVE IInv'
<1>1. /\ req[r].pc = "resolved" /\ projectLock = Nothing /\ begun' = begun /\ UNCHANGED edits
      /\ UNCHANGED cache /\ UNCHANGED tokens /\ executions' = executions
      /\ profileLock' = profileLock
  BY DEF LockProject, At
<1>2. req[r] \in Request /\ Stands(req[r]) BY DEF IInv, RequestsStand
<1>3. CASE req[r].revs.asset = assetRev
  <2> DEFINE q == [req[r] EXCEPT !.pc = "project locked"]
  <2>1. req' = [req EXCEPT ![r] = q] /\ projectLock' = r
    BY <1>3 DEF LockProject, Goto
  <2>2. /\ q \in Request /\ q.pc = "project locked" /\ q.target = req[r].target
        /\ q.revs = req[r].revs /\ q.reads = req[r].reads
    BY <1>2 DEF Request
  <2> HIDE DEF q
  <2>3. Stands(q) BY <1>1, <1>2, <1>3, <2>2 DEF Stands, Early
  <2>4. \A s \in Requests : req'[s].pc = IF s = r THEN "project locked" ELSE req[s].pc
    BY <2>1, <2>2 DEF IInv
  <2>5. Locks' BY <1>1, <2>1, <2>4, NothingIsNew DEF IInv, Locks
  <2>6. Prepared' /\ TokensStand' BY <1>1, TokensStay
  <2>7. executions' \in Seq(Execution) BY <1>1 DEF IInv
  <2> QED BY <1>1, <2>1, <2>2, <2>3, <2>5, <2>6, <2>7, LockStep
<1>4. CASE req[r].revs.asset # assetRev
  <2>1. EndRequest(r) /\ UNCHANGED locks BY <1>1, <1>4 DEF LockProject, locks
  <2>2. begun' \in Nat BY <1>1 DEF IInv, Committed
  <2> QED BY <1>1, <2>1, <2>2, TokensStay, Ended
<1> QED BY <1>3, <1>4

LEMMA LockProfileKeeps ==
  ASSUME IInv, NEW r \in Requests, LockProfile(r) PROVE IInv'
<1>1. /\ req[r].pc = "project locked" /\ profileLock = Nothing /\ begun' = begun /\ UNCHANGED edits
      /\ UNCHANGED cache /\ UNCHANGED tokens /\ executions' = executions
  BY DEF LockProfile, At
<1>2. req[r] \in Request /\ Stands(req[r]) BY DEF IInv, RequestsStand
<1>3. Prepared' /\ TokensStand' BY <1>1, TokensStay
<1>4. executions' \in Seq(Execution) BY <1>1 DEF IInv
<1>5. CASE req[r].revs.config = configRev
  <2> DEFINE q == [req[r] EXCEPT !.pc = "profile locked"]
  <2>1. req' = [req EXCEPT ![r] = q] /\ profileLock' = r /\ projectLock' = projectLock
    BY <1>5 DEF LockProfile, Goto
  <2>2. /\ q \in Request /\ q.pc = "profile locked" /\ q.target = req[r].target
        /\ q.revs = req[r].revs /\ q.reads = req[r].reads
    BY <1>2 DEF Request
  <2> HIDE DEF q
  <2>3. Stands(q) BY <1>1, <1>2, <1>5, <2>2 DEF Stands, Early
  <2>4. \A s \in Requests : req'[s].pc = IF s = r THEN "profile locked" ELSE req[s].pc
    BY <2>1, <2>2 DEF IInv
  <2>5. Locks' BY <1>1, <2>1, <2>4, NothingIsNew DEF IInv, Locks
  <2> QED BY <1>1, <1>3, <1>4, <2>1, <2>2, <2>3, <2>5, LockStep
<1>6. CASE req[r].revs.config # configRev
  <2>1. EndRequest(r) /\ projectLock' = Nothing /\ profileLock' = profileLock
    BY <1>6 DEF LockProfile
  <2>2. req' = [req EXCEPT ![r] = Idle] /\ Idle.pc = "idle" BY <2>1 DEF EndRequest, Idle
  <2>3. \A s \in Requests : req'[s].pc = IF s = r THEN "idle" ELSE req[s].pc
    BY <2>2 DEF IInv
  <2>4. Locks' BY <1>1, <2>1, <2>3, NothingIsNew DEF IInv, Locks
  <2> QED BY <1>1, <1>3, <1>4, <2>1, <2>2, <2>4, IdleStands, LockStep
<1> QED BY <1>5, <1>6

\* At its commit a creation holds both rows, and both revisions are current.
LEMMA CommitIsCurrent ==
  ASSUME IInv, NEW r \in Requests, At(r, "profile locked")
  PROVE  /\ req[r].target \in Targets /\ req[r].reads \in Reads /\ req[r].token \in Nat
         /\ req[r].reads.config = config
         /\ req[r].reads.layout = assets /\ req[r].reads.vars = assets
<1>1. Stands(req[r]) /\ req[r].pc = "profile locked" /\ req[r] \in Request
  BY DEF IInv, RequestsStand, At
<1> QED BY <1>1 DEF Stands, Early, Request

LEMMA CommitExecutionKeeps ==
  ASSUME IInv, NEW r \in Requests, CommitExecution(r) PROVE IInv'
<1> DEFINE e == [target |-> req[r].target, reads |-> req[r].reads,
                 token |-> req[r].token, retryOf |-> 0]
<1>1. /\ req[r].pc = "profile locked" /\ begun' = begun /\ UNCHANGED edits
      /\ UNCHANGED cache /\ projectLock' = Nothing /\ profileLock' = Nothing
      /\ req' = [req EXCEPT ![r] = Idle]
  BY DEF CommitExecution, At, EndRequest
<1>2. e \in Execution BY CommitIsCurrent DEF CommitExecution, Execution
<1>3. executions' = Append(executions, e) \/ executions' = executions
  BY DEF CommitExecution, NewExecution
<1>4. executions' \in Seq(Execution) BY <1>2, <1>3 DEF IInv
<1>5. \/ tokens' = tokens
      \/ tokens' = [i \in DOMAIN tokens |->
                      IF i = req[r].token THEN [tokens[i] EXCEPT !.consumed = TRUE] ELSE tokens[i]]
  BY DEF CommitExecution
<1>6. DOMAIN tokens' = DOMAIN tokens /\ \A i \in DOMAIN tokens :
        /\ tokens'[i] \in Token
        /\ tokens'[i].revs = tokens[i].revs /\ tokens'[i].reads = tokens[i].reads
  <2>1. DOMAIN tokens' = DOMAIN tokens BY <1>5
  <2>2. \A i \in DOMAIN tokens : tokens[i] \in Token BY DEF IInv, Prepared
  <2>3. \A i \in DOMAIN tokens :
          tokens'[i] = tokens[i] \/ tokens'[i] = [tokens[i] EXCEPT !.consumed = TRUE]
    BY <1>5
  <2> QED BY <2>1, <2>2, <2>3 DEF Token
<1>7. Prepared' BY <1>6 DEF IInv, Prepared
<1>8. TokensStand' BY <1>1, <1>6 DEF IInv, TokensStand, TokenStands, edits
<1>9. \A s \in Requests : req'[s].pc = IF s = r THEN "idle" ELSE req[s].pc
  BY <1>1 DEF IInv, Idle
<1>10. projectLock = r /\ profileLock = r BY <1>1 DEF IInv, Locks
<1>11. Locks' BY <1>1, <1>9, <1>10, NothingIsNew DEF IInv, Locks
<1> QED BY <1>1, <1>4, <1>7, <1>8, <1>11, IdleStands, LockStep

LEMMA AbortCreationKeeps ==
  ASSUME IInv, NEW r \in Requests, AbortCreation(r) PROVE IInv'
<1>1. /\ req[r].pc = "project locked" /\ begun' = begun /\ UNCHANGED edits
      /\ UNCHANGED cache /\ UNCHANGED tokens /\ executions' = executions
      /\ projectLock' = Nothing /\ profileLock' = profileLock
      /\ req' = [req EXCEPT ![r] = Idle]
  BY DEF AbortCreation, At, EndRequest
<1>2. \A s \in Requests : req'[s].pc = IF s = r THEN "idle" ELSE req[s].pc
  BY <1>1 DEF IInv, Idle
<1>3. projectLock = r BY <1>1 DEF IInv, Locks
<1>4. Locks' BY <1>1, <1>2, <1>3, NothingIsNew DEF IInv, Locks
<1>5. Prepared' /\ TokensStand' BY <1>1, TokensStay
<1>6. executions' \in Seq(Execution) BY <1>1 DEF IInv
<1> QED BY <1>1, <1>4, <1>5, <1>6, IdleStands, LockStep

LEMMA RetryKeeps ==
  ASSUME IInv, NEW i \in DOMAIN executions, Retry(i) PROVE IInv'
<1>1. /\ executions' = Append(executions, [executions[i] EXCEPT !.token = 0, !.retryOf = i])
      /\ UNCHANGED edits /\ UNCHANGED locks /\ UNCHANGED cache /\ UNCHANGED tokens
      /\ begun' = begun /\ req' = req
  BY DEF Retry, NewExecution
<1>2. executions[i] \in Execution /\ i \in Nat
  <2>1. executions \in Seq(Execution) BY DEF IInv
  <2>2. DOMAIN executions = 1 .. Len(executions) /\ Len(executions) \in Nat BY <2>1
  <2> QED BY <2>1, <2>2
<1>3. executions' \in Seq(Execution)
  <2>1. [executions[i] EXCEPT !.token = 0, !.retryOf = i] \in Execution BY <1>2 DEF Execution
  <2>2. executions \in Seq(Execution) BY DEF IInv
  <2> QED BY <1>1, <2>1, <2>2
<1>4. Committed' /\ Locks' /\ EditorWrites'
  BY <1>1 DEF IInv, Committed, Locks, EditorWrites, edits, locks
<1>5. RequestsStand' BY <1>1 DEF IInv, RequestsStand, Stands, edits
<1> QED BY <1>1, <1>3, <1>4, <1>5, CacheStays, TokensStay DEF IInv

-----------------------------------------------------------------------------
(* The editors.                                                            *)

LEMMA EditAssetsKeeps ==
  ASSUME IInv, NEW a \in Assets, EditAssets(a) PROVE IInv'
<1>1. /\ assets' = a /\ assetRev' = assetRev + 1 /\ projectLock = Nothing
      /\ config' = config /\ configRev' = configRev /\ released' = released
      /\ editing' = editing /\ begun' = begun /\ UNCHANGED locks /\ cache' = cache
      /\ req' = req /\ tokens' = tokens /\ executions' = executions
  BY DEF EditAssets, locks
<1>2. assetRev \in Nat BY DEF IInv, Committed
<1>3. Committed' BY <1>1, <1>2 DEF IInv, Committed
<1>4. Cached' /\ CacheStands' BY <1>1 DEF IInv, Cached, CacheStands
<1>5. Prepared' BY <1>1 DEF IInv, Prepared
<1>6. Locks' /\ EditorWrites' BY <1>1 DEF IInv, Locks, EditorWrites, locks
<1>7. RequestsStand'
  <2> SUFFICES ASSUME NEW r \in Requests PROVE Stands(req[r])' BY DEF RequestsStand
  <2>1. Stands(req[r]) /\ req[r] \in Request BY DEF IInv, RequestsStand
  <2>2. req[r].pc \notin {"project locked", "profile locked"}
    BY <1>1, NothingIsNew DEF IInv, Locks
  <2>3. req[r].revs.asset \in Nat BY <2>1 DEF Request, Revs
  <2>4. req[r].pc \notin Early => req[r].revs.asset <= assetRev BY <2>1 DEF Stands
  <2>5. \A n \in Nat : n <= assetRev => n <= assetRev' /\ n # assetRev' BY <1>1, <1>2
  <2>6. req[r].pc \notin Early => req[r].revs.asset <= assetRev' /\ req[r].revs.asset # assetRev'
    BY <2>3, <2>4, <2>5
  <2> QED BY <1>1, <2>1, <2>2, <2>6 DEF Stands
<1>8. TokensStand'
  <2> SUFFICES ASSUME NEW i \in DOMAIN tokens PROVE TokenStands(tokens[i])'
    BY <1>1 DEF TokensStand
  <2>1. TokenStands(tokens[i]) /\ tokens[i] \in Token BY DEF IInv, TokensStand, Prepared
  <2>2. tokens[i].revs.asset \in Nat BY <2>1 DEF Token, Revs
  <2> QED BY <1>1, <1>2, <2>1, <2>2 DEF TokenStands
<1> QED BY <1>1, <1>3, <1>4, <1>5, <1>6, <1>7, <1>8 DEF IInv

LEMMA EditProfileKeeps ==
  ASSUME IInv, NEW c \in Configs, EditProfile(c) PROVE IInv'
<1>1. /\ profileLock = Nothing /\ profileLock' = Editor /\ editing' = c
      /\ assets' = assets /\ assetRev' = assetRev /\ config' = config
      /\ configRev' = configRev /\ released' = released /\ begun' = begun
      /\ projectLock' = projectLock /\ cache' = cache /\ req' = req
      /\ tokens' = tokens /\ executions' = executions
  BY DEF EditProfile
<1>2. Committed' /\ Cached' /\ Prepared' /\ EditorWrites' /\ CacheStands'
  BY <1>1 DEF IInv, Committed, Cached, Prepared, EditorWrites, CacheStands
<1>3. Locks' BY <1>1, NothingIsNew, EditorIsNew DEF IInv, Locks
<1>4. RequestsStand' /\ TokensStand'
  BY <1>1 DEF IInv, RequestsStand, Stands, TokensStand, TokenStands
<1> QED BY <1>1, <1>2, <1>3, <1>4 DEF IInv

LEMMA CommitProfileKeeps ==
  ASSUME IInv, CommitProfile PROVE IInv'
<1>1. /\ profileLock = Editor /\ projectLock = Nothing /\ profileLock' = Nothing
      /\ config' = editing /\ configRev' = configRev + 1 /\ editing' = Nothing
      /\ assets' = assets /\ assetRev' = assetRev /\ released' = released /\ begun' = begun
      /\ projectLock' = projectLock /\ cache' = cache /\ req' = req
      /\ tokens' = tokens /\ executions' = executions
  BY DEF CommitProfile
<1>2. configRev \in Nat /\ editing \in Configs BY <1>1 DEF IInv, Committed, EditorWrites
<1>3. Committed' /\ Cached' /\ Prepared' /\ EditorWrites'
  BY <1>1, <1>2, EditorIsNew DEF IInv, Committed, Cached, Prepared, EditorWrites
<1>4. Locks' BY <1>1, NothingIsNew, EditorIsNew DEF IInv, Locks
<1>5. CacheStands'
  <2> SUFFICES ASSUME NEW k \in DOMAIN cache
               PROVE  k.config <= configRev' /\ k.config # configRev'
    BY <1>1 DEF CacheStands
  <2>1. k.config \in Nat /\ k.config <= configRev BY DEF IInv, Cached, CacheStands, Revs
  <2> QED BY <1>1, <1>2, <2>1
<1>6. RequestsStand'
  <2> SUFFICES ASSUME NEW r \in Requests PROVE Stands(req[r])' BY DEF RequestsStand
  <2>1. Stands(req[r]) /\ req[r] \in Request BY DEF IInv, RequestsStand
  <2>2. req[r].pc \notin {"project locked", "profile locked"}
    BY <1>1, NothingIsNew DEF IInv, Locks
  <2>3. req[r].revs.config \in Nat BY <2>1 DEF Request, Revs
  <2>4. req[r].pc \notin Early => req[r].revs.config <= configRev BY <2>1 DEF Stands
  <2>5. \A n \in Nat : n <= configRev => n <= configRev' /\ n # configRev' BY <1>1, <1>2
  <2>6. req[r].pc \notin Early => req[r].revs.config <= configRev' /\ req[r].revs.config # configRev'
    BY <2>3, <2>4, <2>5
  <2> QED BY <1>1, <2>1, <2>2, <2>6 DEF Stands
<1>7. TokensStand'
  <2> SUFFICES ASSUME NEW i \in DOMAIN tokens PROVE TokenStands(tokens[i])'
    BY <1>1 DEF TokensStand
  <2>1. TokenStands(tokens[i]) /\ tokens[i] \in Token BY DEF IInv, TokensStand, Prepared
  <2>2. tokens[i].revs.config \in Nat BY <2>1 DEF Token, Revs
  <2> QED BY <1>1, <1>2, <2>1, <2>2 DEF TokenStands
<1> QED BY <1>1, <1>3, <1>4, <1>5, <1>6, <1>7 DEF IInv

LEMMA AbortEditorKeeps ==
  ASSUME IInv, AbortEditor PROVE IInv'
<1>1. /\ profileLock = Editor /\ profileLock' = Nothing /\ editing' = Nothing
      /\ assets' = assets /\ assetRev' = assetRev /\ config' = config
      /\ configRev' = configRev /\ released' = released /\ begun' = begun
      /\ projectLock' = projectLock /\ cache' = cache /\ req' = req
      /\ tokens' = tokens /\ executions' = executions
  BY DEF AbortEditor, Deadlocked
<1>2. Committed' /\ Cached' /\ Prepared' /\ EditorWrites' /\ CacheStands'
  BY <1>1, EditorIsNew DEF IInv, Committed, Cached, Prepared, EditorWrites, CacheStands
<1>3. Locks' BY <1>1, NothingIsNew, EditorIsNew DEF IInv, Locks
<1>4. RequestsStand' /\ TokensStand'
  BY <1>1 DEF IInv, RequestsStand, Stands, TokensStand, TokenStands
<1> QED BY <1>1, <1>2, <1>3, <1>4 DEF IInv

LEMMA DisableReleaseKeeps ==
  ASSUME IInv, DisableRelease PROVE IInv'
<1>1. /\ released' = FALSE /\ UNCHANGED locks /\ editing' = editing
      /\ assets' = assets /\ assetRev' = assetRev /\ config' = config
      /\ configRev' = configRev /\ begun' = begun /\ cache' = cache /\ req' = req
      /\ tokens' = tokens /\ executions' = executions
  BY DEF DisableRelease, locks
<1>2. Committed' /\ Cached' /\ Prepared' /\ EditorWrites' /\ CacheStands' /\ Locks'
  BY <1>1 DEF IInv, Committed, Cached, Prepared, EditorWrites, CacheStands, Locks, locks
<1>3. RequestsStand' /\ TokensStand'
  BY <1>1 DEF IInv, RequestsStand, Stands, TokensStand, TokenStands
<1> QED BY <1>1, <1>2, <1>3 DEF IInv

-----------------------------------------------------------------------------
(* The specification.                                                      *)

LEMMA InitIInv == Init => IInv
<1> SUFFICES ASSUME Init PROVE IInv OBVIOUS
<1>1. Committed /\ Cached /\ Prepared
  BY DEF Init, Committed, Cached, Prepared
<1>2. req \in [Requests -> Request] /\ \A r \in Requests : req[r].pc = "idle"
  BY IdleStands DEF Init, Idle
<1>3. RequestsStand BY <1>2 DEF RequestsStand, Stands, Early
<1>4. Locks BY <1>2, NothingIsNew DEF Init, Locks
<1>5. TokensStand /\ CacheStands /\ EditorWrites
  BY EditorIsNew DEF Init, TokensStand, CacheStands, EditorWrites
<1>6. executions \in Seq(Execution) BY DEF Init
<1> QED BY <1>1, <1>2, <1>3, <1>4, <1>5, <1>6 DEF IInv

LEMMA RequestStepKeeps ==
  ASSUME IInv, NEW r \in Requests, RequestStep(r) PROVE IInv'
BY BeginKeeps, LoadConfigKeeps, LoadLayoutKeeps, LoadVariablesKeeps, AnswerPreviewKeeps,
   SavePrepareKeeps, PeekTokenKeeps, LockTokenKeeps, LockProjectKeeps, LockProfileKeeps,
   CommitExecutionKeeps, AbortCreationKeeps
   DEF RequestStep

LEMMA StepIInv == IInv /\ [Next]_vars => IInv'
<1> SUFFICES ASSUME IInv, [Next]_vars PROVE IInv' OBVIOUS
<1>1. CASE Next
  BY <1>1, RequestStepKeeps, EvictKeeps, ExpireKeeps, RetryKeeps, EditAssetsKeeps,
     EditProfileKeeps, CommitProfileKeeps, AbortEditorKeeps, DisableReleaseKeeps DEF Next
<1>2. CASE UNCHANGED vars
  BY <1>2 DEF vars, IInv, Committed, Cached, Prepared, Locks, RequestsStand, Stands,
              TokensStand, TokenStands, CacheStands, EditorWrites
<1> QED BY <1>1, <1>2

\* Whatever a request, a token or the cache holds was read under a revision
\* that is in the past or still describes what is committed.
THEOREM ReadsStand == Spec => []IInv
BY InitIInv, StepIInv, PTL DEF Spec

\* Every variable has its type, and each row lock has the holder its requests
\* and its editor take it to have (TypeOK).
THEOREM IntakeTyped == Spec => []TypeOK
BY ReadsStand, IInvTypes, PTL

\* Only a commit of a creation or a retry makes an execution.
LEMMA Makers ==
  ASSUME IInv, [Next]_vars, executions' # executions
  PROVE  \/ \E r \in Requests : CommitExecution(r)
         \/ \E i \in DOMAIN executions : Retry(i)
BY DEF Next, RequestStep, vars, Begin, LoadConfig, LoadLayout, LoadVariables, AnswerPreview,
       SavePrepare, PeekToken, LockToken, LockProject, LockProfile, AbortCreation, Evict,
       Expire, EditAssets, EditProfile, CommitProfile, AbortEditor, DisableRelease

LEMMA NewIsCurrent ==
  ASSUME IInv, [Next]_vars, NEW i \in DOMAIN executions', Created(i),
         executions'[i].retryOf = 0
  PROVE  Outcome(executions'[i].reads, executions'[i].target)
           = Outcome(Current, executions'[i].target)
<1>1. executions' # executions
  <2>1. i \in DOMAIN executions' /\ i \notin DOMAIN executions BY DEF Created
  <2>2. executions' = executions => DOMAIN executions' = DOMAIN executions OBVIOUS
  <2> QED BY <2>1, <2>2
<1>2. executions \in Seq(Execution) BY DEF IInv
<1>3. \A e : executions' = Append(executions, e) => executions'[i] = e
  <2> SUFFICES ASSUME NEW e, executions' = Append(executions, e) PROVE executions'[i] = e
    OBVIOUS
  <2>1. DOMAIN executions = 1 .. Len(executions) /\ Len(executions) \in Nat BY <1>2
  <2>2. DOMAIN executions' = 1 .. Len(executions) + 1 BY <1>2
  <2>3. i = Len(executions) + 1 BY <2>1, <2>2 DEF Created
  <2> QED BY <1>2, <2>3
<1>4. CASE \E r \in Requests : CommitExecution(r)
  <2>1. PICK r \in Requests : CommitExecution(r) BY <1>4
  <2> DEFINE e == [target |-> req[r].target, reads |-> req[r].reads,
                   token |-> req[r].token, retryOf |-> 0]
  <2>2. executions' = Append(executions, e) BY <1>1, <2>1 DEF CommitExecution, NewExecution
  <2>3. executions'[i] = e BY <1>3, <2>2
  <2>4. /\ req[r].reads.config = config
        /\ req[r].reads.layout = assets /\ req[r].reads.vars = assets
    BY <2>1, CommitIsCurrent DEF CommitExecution
  <2>5. executions'[i].reads = req[r].reads BY <2>3
  <2> QED BY <2>4, <2>5 DEF Outcome, ContentOf, Current
<1>5. CASE \E k \in DOMAIN executions : Retry(k)
  <2>1. PICK k \in DOMAIN executions : Retry(k) BY <1>5
  <2>2. executions' = Append(executions, [executions[k] EXCEPT !.token = 0, !.retryOf = k])
    BY <2>1 DEF Retry, NewExecution
  <2>3. executions'[i] = [executions[k] EXCEPT !.token = 0, !.retryOf = k] BY <1>3, <2>2
  <2>4. executions[k] \in Execution BY <1>2
  <2>5. executions'[i].retryOf = k BY <2>3, <2>4 DEF Execution
  <2>6. DOMAIN executions = 1 .. Len(executions) BY <1>2
  <2> QED BY <2>5, <2>6
<1> QED BY <1>1, <1>4, <1>5, Makers

\* Whoever edits while it is made, an execution made from the profile has the
\* content of what is committed at its own commit (SnapshotIsCurrent): a stale
\* preview, token or cache entry is refused by the two revisions.
THEOREM NewExecutionsAreCurrent == Spec => SnapshotIsCurrent
<1>1. IInv /\ [Next]_vars =>
        [\A i \in DOMAIN executions' :
           Created(i) /\ executions'[i].retryOf = 0
             => Outcome(executions'[i].reads, executions'[i].target)
                  = Outcome(Current, executions'[i].target)]_vars
  <2> SUFFICES ASSUME IInv, [Next]_vars, NEW i \in DOMAIN executions',
                      Created(i) /\ executions'[i].retryOf = 0
               PROVE  Outcome(executions'[i].reads, executions'[i].target)
                        = Outcome(Current, executions'[i].target)
    OBVIOUS
  <2> QED BY NewIsCurrent
<1> QED BY <1>1, ReadsStand, PTL DEF Spec, SnapshotIsCurrent

-----------------------------------------------------------------------------
(* The operators of the resolver.                                          *)

LEMMA SequenceOfItsMembers ==
  ASSUME NEW M, NEW s \in Seq(M) PROVE IsSequence(s) /\ ToSet(s) \subseteq M
<1>1. s \in [1 .. Len(s) -> M] /\ Len(s) \in Nat /\ DOMAIN s = 1 .. Len(s) OBVIOUS
<1>2. \A i \in 1 .. Len(s) : s[i] \in ToSet(s) BY <1>1 DEF ToSet
<1>3. s \in [1 .. Len(s) -> ToSet(s)] BY <1>1, <1>2
<1>4. s \in Seq(ToSet(s)) BY <1>1, <1>3, SeqDef
<1>5. ToSet(s) \subseteq M BY <1>1 DEF ToSet
<1> QED BY <1>4, <1>5 DEF IsSequence

LEMMA OnlyMembers ==
  ASSUME NEW s, IsSequence(s), NEW I
  PROVE  IsSequence(Only(s, I)) /\ ToSet(Only(s, I)) = {s[i] : i \in DOMAIN s \cap I}
<1> DEFINE M == ToSet(s)
           seqs == [i \in DOMAIN s |-> IF i \in I THEN <<s[i]>> ELSE <<>>]
<1>1. s \in Seq(M) /\ DOMAIN s = 1 .. Len(s) /\ Len(s) \in Nat BY DEF IsSequence
<1>2. \A i \in DOMAIN s : s[i] \in M BY DEF ToSet
<1>3. \A i \in DOMAIN s : (IF i \in I THEN <<s[i]>> ELSE <<>>) \in Seq(M) BY <1>2
<1>4. seqs \in Seq(Seq(M)) BY <1>1, <1>3
<1>5. \A i \in DOMAIN s : ToSet(seqs[i]) = IF i \in I THEN {s[i]} ELSE {} BY DEF ToSet
<1>6. DOMAIN seqs = DOMAIN s OBVIOUS
<1> HIDE DEF seqs, M
<1>7. /\ FlattenSeq(seqs) \in Seq(M)
      /\ \A m \in M : m \in ToSet(FlattenSeq(seqs)) <=> \E i \in DOMAIN seqs : m \in ToSet(seqs[i])
  BY <1>4, FlattenMembers
<1>8. Only(s, I) = FlattenSeq(seqs) BY DEF Only, seqs
<1>9. IsSequence(Only(s, I)) /\ ToSet(Only(s, I)) \subseteq M
  BY <1>7, <1>8, SequenceOfItsMembers
<1>10. \A m \in M : m \in ToSet(Only(s, I)) <=> \E i \in DOMAIN s \cap I : m = s[i]
  BY <1>5, <1>6, <1>7, <1>8
<1>11. \A i \in DOMAIN s \cap I : s[i] \in M BY <1>2
<1> QED BY <1>9, <1>10, <1>11

LEMMA ConcatSequences ==
  ASSUME NEW s, IsSequence(s), NEW t, IsSequence(t)
  PROVE  IsSequence(s \o t) /\ ToSet(s \o t) = ToSet(s) \cup ToSet(t)
<1> DEFINE M == ToSet(s) \cup ToSet(t)
<1>1. s \in Seq(M) /\ t \in Seq(M)
  <2>1. s \in [1 .. Len(s) -> ToSet(s)] /\ Len(s) \in Nat BY DEF IsSequence
  <2>2. t \in [1 .. Len(t) -> ToSet(t)] /\ Len(t) \in Nat BY DEF IsSequence
  <2>3. s \in [1 .. Len(s) -> M] /\ t \in [1 .. Len(t) -> M] BY <2>1, <2>2
  <2> HIDE DEF M
  <2> QED BY <2>1, <2>2, <2>3, SeqDef
<1> HIDE DEF M
<1>2. s \o t \in Seq(M) /\ ToSet(s \o t) = ToSet(s) \cup ToSet(t) BY <1>1, ConcatMembers
<1>3. IsSequence(s \o t) BY <1>2, SequenceOfItsMembers
<1> QED BY <1>2, <1>3

LEMMA EmptyIsSequence == IsSequence(<<>>) /\ ToSet(<<>>) = {}
BY DEF IsSequence, ToSet

LEMMA SingletonIsSequence == ASSUME NEW x PROVE IsSequence(<<x>>) /\ ToSet(<<x>>) = {x}
BY DEF IsSequence, ToSet

LEMMA DomainIsRange ==
  ASSUME NEW s, IsSequence(s) PROVE Len(s) \in Nat /\ DOMAIN s = 1 .. Len(s)
BY DEF IsSequence

LEMMA FunctionIsSequence ==
  ASSUME NEW n \in Nat, NEW f, f = [i \in 1 .. n |-> f[i]]
  PROVE  IsSequence(f) /\ Len(f) = n
<1>1. DOMAIN f = 1 .. n BY Zenon
<1>2. f \in [1 .. n -> ToSet(f)]
  <2>1. \A i \in 1 .. n : f[i] \in ToSet(f) BY <1>1 DEF ToSet
  <2> QED BY <2>1
<1>3. f \in Seq(ToSet(f)) BY <1>2, SeqDef
<1>4. Len(f) = n BY <1>1, <1>3
<1> QED BY <1>3, <1>4 DEF IsSequence

\* Of the layers that define a name, the last gives its source.
LEMMA TopLayer ==
  ASSUME NEW n \in Nat, NEW layers, DOMAIN layers = 1 .. n, NEW x
  PROVE  /\ x \in DOMAIN Bindings(layers) <=> \E i \in 1 .. n : x \in layers[i].names
         /\ \A k \in 1 .. n :
              /\ x \in layers[k].names
              /\ \A j \in k + 1 .. n : x \notin layers[j].names
              => Bindings(layers)[x] = layers[k].scope
<1> DEFINE I == {i \in DOMAIN layers : x \in layers[i].names}
<1>1. DOMAIN Bindings(layers) = UNION {layers[i].names : i \in DOMAIN layers}
  BY DEF Bindings
<1>2. x \in DOMAIN Bindings(layers) <=> \E i \in 1 .. n : x \in layers[i].names
  BY <1>1
<1>3. ASSUME NEW k \in 1 .. n, x \in layers[k].names,
             \A j \in k + 1 .. n : x \notin layers[j].names
      PROVE  Bindings(layers)[x] = layers[k].scope
  <2>1. k \in I /\ \A j \in I : j <= k BY <1>3
  <2>2. I \subseteq Nat OBVIOUS
  <2>3. Max(I) = k
    <3> HIDE DEF I
    <3>1. \A j \in I : k >= j BY <2>1, <2>2
    <3>2. \A y \in I : (\A j \in I : y >= j) => y = k BY <2>1, <2>2, <3>1
    <3>3. Max(I) \in I /\ \A j \in I : Max(I) >= j BY <2>1, <3>1 DEF Max
    <3> QED BY <3>2, <3>3
  <2>4. x \in DOMAIN Bindings(layers) BY <1>2, <1>3
  <2>5. Bindings(layers)[x] = layers[Max(I)].scope BY <1>1, <2>4 DEF Bindings
  <2> QED BY <2>3, <2>5
<1> QED BY <1>2, <1>3

\* Every value has the scope of one of the layers.
LEMMA BindingsHaveScopes ==
  ASSUME NEW n \in Nat, NEW layers, DOMAIN layers = 1 .. n, NEW x \in DOMAIN Bindings(layers)
  PROVE  \E k \in 1 .. n : Bindings(layers)[x] = layers[k].scope
<1> DEFINE I == {i \in 1 .. n : x \in layers[i].names}
           D == {n - i : i \in I}
<1>1. I # {} BY TopLayer
<1>2. D \in SUBSET Nat /\ D # {} BY <1>1
<1>3. PICK d \in D : \A e \in D : d <= e
  <2> HIDE DEF D
  <2> QED BY <1>2, NatLeast
<1>4. PICK k \in I : d = n - k BY <1>3
<1>5. \A j \in I : j <= k
  <2> SUFFICES ASSUME NEW j \in I PROVE j <= k OBVIOUS
  <2>1. n - j \in D OBVIOUS
  <2>2. n - k <= n - j BY <1>3, <1>4, <2>1
  <2>3. j \in Nat /\ k \in Nat OBVIOUS
  <2> HIDE DEF I, D
  <2> QED BY <2>2, <2>3
<1>6. k \in 1 .. n /\ x \in layers[k].names BY <1>4
<1>7. \A j \in k + 1 .. n : x \notin layers[j].names
  <2> SUFFICES ASSUME NEW j \in k + 1 .. n, x \in layers[j].names PROVE FALSE OBVIOUS
  <2>1. j \in I BY <1>6
  <2>2. j <= k BY <1>5, <2>1
  <2> HIDE DEF I, D
  <2> QED BY <1>6, <2>2
<1> HIDE DEF I, D
<1>8. Bindings(layers)[x] = layers[k].scope BY <1>6, <1>7, TopLayer
<1> QED BY <1>6, <1>8

LEMMA NoLayerIsTheRun ==
  ASSUME NEW defs, NEW rules, NEW target, NEW suite, NEW m
  PROVE  /\ \A x \in DOMAIN CaseVariables(defs, rules, target, suite, m) :
              CaseVariables(defs, rules, target, suite, m)[x] # "runtime"
         /\ \A x \in DOMAIN SuiteVariables(defs, target, suite) :
              SuiteVariables(defs, target, suite)[x] # "runtime"
<1>1. ASSUME NEW n \in Nat, NEW layers, DOMAIN layers = 1 .. n,
             \A k \in 1 .. n : layers[k].scope # "runtime"
      PROVE  \A x \in DOMAIN Bindings(layers) : Bindings(layers)[x] # "runtime"
  BY <1>1, BindingsHaveScopes
<1> DEFINE cl == <<Layer("global",  defs.global),
                   Layer("project", defs.project),
                   Layer("case",    defs.case[m.case]),
                   Layer("suite",   IF suite = NoSuite THEN {} ELSE defs.suite[suite]),
                   Layer("member",  m.overrides),
                   Layer("params",  target.params),
                   Layer("pinned",  IF m.id = NoMember THEN {} ELSE rules.pinned[m.id])>>
           sl == <<Layer("global",  defs.global),
                   Layer("project", defs.project),
                   Layer("suite",   defs.suite[suite]),
                   Layer("params",  target.params)>>
<1>2. DOMAIN cl = 1 .. 7 /\ \A k \in 1 .. 7 : cl[k].scope # "runtime" BY DEF Layer
<1>3. DOMAIN sl = 1 .. 4 /\ \A k \in 1 .. 4 : sl[k].scope # "runtime" BY DEF Layer
<1>4. /\ CaseVariables(defs, rules, target, suite, m) = Bindings(cl)
      /\ SuiteVariables(defs, target, suite) = Bindings(sl)
  BY DEF CaseVariables, SuiteVariables
<1> HIDE DEF cl, sl
<1> QED BY <1>1, <1>2, <1>3, <1>4

LEMMA DefinedIsSetByNodes ==
  ASSUME NEW nodes, IsSequence(nodes), NEW bound, NEW order, ~ Undefined(nodes, bound),
         \A x \in DOMAIN bound : bound[x] # "runtime"
  PROVE  SetByNodes(Snapshot(nodes, bound, order))
<1> DEFINE shot == Snapshot(nodes, bound, order)
<1>1. DOMAIN shot = DOMAIN nodes /\ \A i \in DOMAIN nodes :
        /\ shot[i].sets = nodes[i].sets
        /\ shot[i].reads = [x \in nodes[i].uses |-> Source(bound, x)]
        /\ shot[i].finds = [x \in nodes[i].finds |-> Source(bound, x)]
  BY DEF Snapshot
<1>2. DOMAIN nodes = 1 .. Len(nodes) /\ Len(nodes) \in Nat BY DomainIsRange
<1> HIDE DEF shot
<1>3. \A x : Source(bound, x) = "runtime" => x \notin DOMAIN bound BY DEF Source
<1>4. ASSUME NEW i \in DOMAIN shot, NEW x \in DOMAIN shot[i].reads, shot[i].reads[x] = "runtime"
      PROVE  \E j \in 1 .. i - 1 : x \in shot[j].sets
  <2>1. i \in DOMAIN nodes /\ shot[i].reads = [y \in nodes[i].uses |-> Source(bound, y)]
    BY <1>1, <1>4
  <2>2. x \in nodes[i].uses BY <1>4, <2>1
  <2>3. x \notin DOMAIN bound BY <1>3, <1>4, <2>1, <2>2
  <2>4. x \in RuntimeNames(nodes, i) BY <2>1, <2>2, <2>3 DEF Undefined
  <2>5. PICK j \in 1 .. i - 1 : x \in nodes[j].sets BY <2>4 DEF RuntimeNames
  <2>6. j \in DOMAIN nodes BY <1>2, <2>1, <2>5
  <2> QED BY <1>1, <2>5, <2>6
<1>5. ASSUME NEW i \in DOMAIN shot, NEW x \in DOMAIN shot[i].finds, shot[i].finds[x] = "runtime"
      PROVE  \E j \in DOMAIN shot : x \in shot[j].sets
  <2>1. i \in DOMAIN nodes /\ shot[i].finds = [y \in nodes[i].finds |-> Source(bound, y)]
    BY <1>1, <1>5
  <2>2. x \in nodes[i].finds BY <1>5, <2>1
  <2>3. x \notin DOMAIN bound BY <1>3, <1>5, <2>1, <2>2
  <2>4. x \in RuntimeNames(nodes, Len(nodes) + 1) BY <2>1, <2>2, <2>3 DEF Undefined
  <2>5. PICK j \in 1 .. Len(nodes) + 1 - 1 : x \in nodes[j].sets BY <2>4 DEF RuntimeNames
  <2>6. j \in DOMAIN nodes BY <1>2, <2>5
  <2> QED BY <1>1, <2>5, <2>6
<1> QED BY <1>4, <1>5 DEF SetByNodes, shot

LEMMA SelectedSteps ==
  ASSUME NEW flow, IsSequence(flow), NEW target
  PROVE  /\ IsSequence(SelectSteps(flow, target))
         /\ ToSet(SelectSteps(flow, target)) \subseteq ToSet(flow)
<1> DEFINE asked == {"main"} \cup (IF target.pre THEN {"setup"} ELSE {})
                             \cup (IF target.post THEN {"teardown"} ELSE {})
           enabled == IF \E i \in DOMAIN flow : flow[i].phase \in asked
                      THEN asked ELSE Phases
           In(phase) == Only(flow, {i \in DOMAIN flow : flow[i].phase = phase /\ phase \in enabled})
<1>1. SelectSteps(flow, target) = In("setup") \o In("main") \o In("teardown")
  BY DEF SelectSteps
<1>2. ASSUME NEW phase PROVE IsSequence(In(phase)) /\ ToSet(In(phase)) \subseteq ToSet(flow)
  <2> DEFINE I == {i \in DOMAIN flow : flow[i].phase = phase /\ phase \in enabled}
  <2>1. IsSequence(Only(flow, I)) /\ ToSet(Only(flow, I)) = {flow[i] : i \in DOMAIN flow \cap I}
    BY OnlyMembers
  <2>2. {flow[i] : i \in DOMAIN flow \cap I} \subseteq ToSet(flow) BY DEF ToSet
  <2> QED BY <2>1, <2>2
<1> HIDE DEF In
<1> DEFINE first == In("setup") \o In("main")
<1>3. IsSequence(first) /\ ToSet(first) \subseteq ToSet(flow)
  BY <1>2, ConcatSequences
<1> HIDE DEF first
<1>4. /\ IsSequence(first \o In("teardown"))
      /\ ToSet(first \o In("teardown")) = ToSet(first) \cup ToSet(In("teardown"))
  BY <1>2, <1>3, ConcatSequences
<1>5. ToSet(first \o In("teardown")) \subseteq ToSet(flow)
  BY <1>2, <1>3, <1>4
<1> QED BY <1>1, <1>4, <1>5 DEF first

\* The nodes of a case that run, and the places of the others.
Skips(layout, rules, target, m) ==
  LET steps == SelectSteps(layout.flow[m.case], target)
  IN {i \in DOMAIN steps : NodeSkipped(rules, m, steps[i])}

KeptSteps(layout, rules, target, m) ==
  LET steps == SelectSteps(layout.flow[m.case], target)
  IN Only(steps, DOMAIN steps \ Skips(layout, rules, target, m))

LEMMA KeptStepsAre ==
  ASSUME NEW layout, LayoutStands(layout), NEW rules, NEW target, NEW m,
         m.case \in DOMAIN layout.flow
  PROVE  LET steps == SelectSteps(layout.flow[m.case], target)
             kept  == KeptSteps(layout, rules, target, m)
         IN /\ IsSequence(steps) /\ ToSet(steps) \subseteq ToSet(layout.flow[m.case])
            /\ IsSequence(kept)
            /\ ToSet(kept) = {n \in ToSet(steps) : ~ NodeSkipped(rules, m, n)}
<1> DEFINE steps == SelectSteps(layout.flow[m.case], target)
           kept  == KeptSteps(layout, rules, target, m)
<1>1. IsSequence(layout.flow[m.case]) BY DEF LayoutStands
<1>2. IsSequence(steps) /\ ToSet(steps) \subseteq ToSet(layout.flow[m.case])
  BY <1>1, SelectedSteps
<1> DEFINE I == DOMAIN steps \ Skips(layout, rules, target, m)
<1>3. kept = Only(steps, I) BY DEF KeptSteps
<1>4. I = {i \in DOMAIN steps : ~ NodeSkipped(rules, m, steps[i])} BY DEF Skips
<1> HIDE DEF steps, kept, I
<1>5. IsSequence(kept) /\ ToSet(kept) = {steps[i] : i \in DOMAIN steps \cap I}
  BY <1>2, <1>3, OnlyMembers
<1>6. {steps[i] : i \in DOMAIN steps \cap I} = {n \in ToSet(steps) : ~ NodeSkipped(rules, m, n)}
  BY <1>4 DEF ToSet
<1> QED BY <1>2, <1>5, <1>6 DEF steps, kept

LEMMA CaseIs ==
  ASSUME NEW layout, NEW defs, NEW rules, NEW target, NEW suite, NEW m, NEW pos
  PROVE  LET case  == ResolveCase(layout, defs, rules, target, suite, m, pos)
             kept  == KeptSteps(layout, rules, target, m)
             bound == CaseVariables(defs, rules, target, suite, m)
             steps == SelectSteps(layout.flow[m.case], target)
         IN /\ case.undefined = Undefined(kept, bound)
            /\ case.case.member = m.id /\ case.case.case = m.case /\ case.case.pos = pos
            /\ case.case.flow = Snapshot(kept, bound, Places(kept))
            /\ case.exclusions =
                 {Exclusion(steps[i].kind, suite, m, pos, steps[i].key, "direct") :
                    i \in Skips(layout, rules, target, m)}
                 \cup EmptyCase(kept, suite, m, pos)
BY DEF ResolveCase, KeptSteps, Skips

-----------------------------------------------------------------------------
(* The target and its suites.                                              *)

SpecStands(layout, s) ==
  /\ IsSequence(s.members) /\ s.virtual \in BOOLEAN
  /\ s.virtual => s.suite = NoSuite /\ \A i \in DOMAIN s.members : s.members[i].id = NoMember
  /\ ~ s.virtual =>
       /\ s.suite \in DOMAIN layout.members
       /\ \A i \in DOMAIN s.members :
            s.members[i].id # NoMember => s.members[i] \in ToSet(layout.members[s.suite])

LEMMA WholeSuitesStand ==
  ASSUME NEW layout, LayoutStands(layout), NEW ids, ToSet(ids) \subseteq DOMAIN layout.members,
         NEW j \in DOMAIN WholeSuites(layout, ids)
  PROVE  LET s == WholeSuites(layout, ids)[j]
         IN /\ SpecStands(layout, s) /\ ~ s.virtual
            /\ s.members = layout.members[s.suite]
<1> DEFINE s == WholeSuites(layout, ids)[j]
<1>1. j \in DOMAIN ids /\ s = [suite |-> ids[j], virtual |-> FALSE, members |-> layout.members[ids[j]]]
  BY DEF WholeSuites
<1>2. ids[j] \in DOMAIN layout.members BY <1>1 DEF ToSet
<1>3. IsSequence(layout.members[ids[j]]) BY <1>2 DEF LayoutStands
<1>4. s.suite = ids[j] /\ s.virtual = FALSE /\ s.members = layout.members[ids[j]] BY <1>1
<1> HIDE DEF s
<1>5. \A i \in DOMAIN s.members : s.members[i] \in ToSet(layout.members[s.suite])
  BY <1>4 DEF ToSet
<1>6. SpecStands(layout, s) BY <1>2, <1>3, <1>4, <1>5 DEF SpecStands
<1> QED BY <1>4, <1>6 DEF s

LEMMA ContextMembersStand ==
  ASSUME NEW layout, LayoutStands(layout), NEW target, target.suite \in DOMAIN layout.members
  PROVE  LET ms == ContextMembers(layout, target)
         IN /\ IsSequence(ms)
            /\ \A i \in DOMAIN ms :
                 ms[i].id # NoMember => ms[i] \in ToSet(layout.members[target.suite])
<1> DEFINE all == layout.members[target.suite]
           here == {i \in DOMAIN all : all[i].case = target.case}
           places == Occurrences(layout, target)
           named == {i \in DOMAIN places : places[i].id = target.member}
           alone == [id |-> NoMember, case |-> target.case, overrides |-> {}]
<1>1. IsSequence(all) BY DEF LayoutStands
<1>2. places = Only(all, here) BY DEF Occurrences
<1> HIDE DEF here, places
<1>3. IsSequence(places) /\ ToSet(places) \subseteq ToSet(all)
  <2>1. IsSequence(places) /\ ToSet(places) = {all[i] : i \in DOMAIN all \cap here}
    BY <1>1, <1>2, OnlyMembers
  <2> QED BY <2>1 DEF ToSet
<1> HIDE DEF named
<1>4. IsSequence(Only(places, named)) /\ ToSet(Only(places, named)) \subseteq ToSet(places)
  <2>1. /\ IsSequence(Only(places, named))
        /\ ToSet(Only(places, named)) = {places[i] : i \in DOMAIN places \cap named}
    BY <1>3, OnlyMembers
  <2> QED BY <2>1 DEF ToSet
<1> DEFINE ms == ContextMembers(layout, target)
<1>5. \/ ms = Only(places, named)
      \/ ms = <<alone>>
      \/ ms = places
  BY DEF ContextMembers, places, named
<1> HIDE DEF ms, all
<1>6. CASE ms = <<alone>>
  <2>1. IsSequence(ms) BY <1>6, SingletonIsSequence
  <2>2. \A i \in DOMAIN ms : ms[i].id = NoMember BY <1>6
  <2> QED BY <2>1, <2>2 DEF ms
<1>7. CASE ms \in {places, Only(places, named)}
  <2>1. IsSequence(ms) /\ ToSet(ms) \subseteq ToSet(all) BY <1>3, <1>4, <1>7
  <2>2. \A i \in DOMAIN ms : ms[i] \in ToSet(all) BY <2>1 DEF ToSet
  <2> QED BY <2>1, <2>2 DEF ms, all
<1> QED BY <1>5, <1>6, <1>7

\* A suite of the target is well formed, and its id tells what is in it.
LEMMA SpecsAreStanding ==
  ASSUME NEW layout, LayoutStands(layout), NEW rules, NEW target, TargetStands(layout, target)
  PROVE  LET specs == Specs(layout, rules, target)
         IN /\ IsSequence(specs)
            /\ \A j \in DOMAIN specs : SpecStands(layout, specs[j])
            /\ \A i, j \in DOMAIN specs :
                 specs[i].suite = specs[j].suite =>
                   /\ specs[i].members = specs[j].members
                   /\ specs[i].virtual = specs[j].virtual
<1> DEFINE specs == Specs(layout, rules, target)
           Goal == /\ IsSequence(specs)
                   /\ \A j \in DOMAIN specs : SpecStands(layout, specs[j])
                   /\ \A i, j \in DOMAIN specs :
                        specs[i].suite = specs[j].suite =>
                          /\ specs[i].members = specs[j].members
                          /\ specs[i].virtual = specs[j].virtual
<1>1. CASE target.scope = "case"
  <2> DEFINE alone == [id |-> NoMember, case |-> target.case, overrides |-> {}]
             s == [suite |-> NoSuite, virtual |-> TRUE, members |-> <<alone>>]
  <2>1. specs = <<s>> BY <1>1 DEF Specs
  <2>2. DOMAIN specs = {1} /\ specs[1] = s BY <2>1
  <2>3. IsSequence(<<alone>>) /\ \A i \in DOMAIN <<alone>> : <<alone>>[i].id = NoMember
    BY SingletonIsSequence
  <2>4. SpecStands(layout, s)
    <3>1. s.suite = NoSuite /\ s.virtual = TRUE /\ s.members = <<alone>> OBVIOUS
    <3> HIDE DEF s, alone
    <3> QED BY <2>3, <3>1 DEF SpecStands
  <2>5. IsSequence(specs) BY <2>1, SingletonIsSequence
  <2> HIDE DEF s, specs
  <2> QED BY <2>2, <2>4, <2>5 DEF specs
<1>2. CASE target.scope = "context"
  <2>1. CASE target.suite \in rules.suites
    <3>1. specs = <<>> BY <1>2, <2>1 DEF Specs
    <3> QED BY <3>1, EmptyIsSequence
  <2>2. CASE target.suite \notin rules.suites
    <3> DEFINE ms == ContextMembers(layout, target)
               s == [suite |-> target.suite, virtual |-> FALSE, members |-> ms]
    <3>1. specs = <<s>> BY <1>2, <2>2 DEF Specs
    <3>2. DOMAIN specs = {1} /\ specs[1] = s BY <3>1
    <3>3. target.suite \in DOMAIN layout.members BY <1>2 DEF TargetStands
    <3>4. SpecStands(layout, s)
      <4>1. s.suite = target.suite /\ s.virtual = FALSE /\ s.members = ms OBVIOUS
      <4>2. /\ IsSequence(ms)
            /\ \A i \in DOMAIN ms :
                 ms[i].id # NoMember => ms[i] \in ToSet(layout.members[target.suite])
        BY <3>3, ContextMembersStand
      <4> HIDE DEF s, ms
      <4> QED BY <3>3, <4>1, <4>2 DEF SpecStands
    <3>5. IsSequence(specs) BY <3>1, SingletonIsSequence
    <3> HIDE DEF s, specs
    <3> QED BY <3>2, <3>4, <3>5 DEF specs
  <2> QED BY <2>1, <2>2
<1>3. ASSUME NEW ids, IsSequence(ids), ToSet(ids) \subseteq DOMAIN layout.members,
             specs = WholeSuites(layout, ids)
      PROVE  Goal
  <2>1. \A j \in DOMAIN specs : /\ SpecStands(layout, specs[j]) /\ ~ specs[j].virtual
                                /\ specs[j].members = layout.members[specs[j].suite]
    BY <1>3, WholeSuitesStand
  <2>2. \A j \in DOMAIN specs : specs[j].virtual = FALSE BY <2>1 DEF SpecStands
  <2>3. IsSequence(specs)
    <3>1. DOMAIN specs = 1 .. Len(ids) /\ Len(ids) \in Nat
      BY <1>3, DomainIsRange DEF WholeSuites
    <3>2. specs = [i \in DOMAIN specs |-> specs[i]]
      BY <1>3 DEF WholeSuites
    <3> HIDE DEF specs
    <3> QED BY <3>1, <3>2, FunctionIsSequence
  <2> HIDE DEF specs
  <2> QED BY <2>1, <2>2, <2>3
<1>4. ASSUME NEW ids, IsSequence(ids), NEW I
      PROVE  IsSequence(Only(ids, I)) /\ ToSet(Only(ids, I)) \subseteq ToSet(ids)
  BY <1>4, OnlyMembers DEF ToSet
<1>5. CASE target.scope = "suites"
  <2> DEFINE ids == Only(target.suites,
                         {i \in DOMAIN target.suites : target.suites[i] \notin rules.suites \cup {}})
  <2>1. specs = WholeSuites(layout, ids) BY <1>5 DEF Specs
  <2>2. IsSequence(target.suites) /\ ToSet(target.suites) \subseteq DOMAIN layout.members
    BY <1>5 DEF TargetStands
  <2>3. IsSequence(ids) /\ ToSet(ids) \subseteq DOMAIN layout.members BY <1>4, <2>2
  <2> HIDE DEF ids, specs
  <2> QED BY <1>3, <2>1, <2>3 DEF specs
<1>6. CASE target.scope = "all"
  <2> DEFINE ids == Only(layout.suites,
                         {i \in DOMAIN layout.suites :
                            layout.suites[i] \notin rules.suites \cup target.excluded})
  <2>1. specs = WholeSuites(layout, ids) BY <1>6 DEF Specs
  <2>2. IsSequence(layout.suites) /\ ToSet(layout.suites) \subseteq DOMAIN layout.members
    BY DEF LayoutStands
  <2>3. IsSequence(ids) /\ ToSet(ids) \subseteq DOMAIN layout.members BY <1>4, <2>2
  <2> HIDE DEF ids, specs
  <2> QED BY <1>3, <2>1, <2>3 DEF specs
<1>7. Goal BY <1>1, <1>2, <1>5, <1>6 DEF TargetStands
<1> QED BY <1>7

\* What the cases of a suite resolve to; those that keep a node run.
Results(layout, defs, rules, target, s) ==
  [i \in Wanted(layout, rules, s) |->
     ResolveCase(layout, defs, rules, target, s.suite, s.members[i], i)]

Running(results) == {i \in DOMAIN results : results[i].case.flow # <<>>}

AllHooks(layout, s) == HooksOf(layout, s, "setup") \o HooksOf(layout, s, "teardown")

LEMMA HooksAre ==
  ASSUME NEW layout, LayoutStands(layout), NEW rules, NEW s,
         s.virtual \/ s.suite \in DOMAIN layout.hooks
  PROVE  IsSequence(KeptHooks(rules, s.suite, AllHooks(layout, s)))
<1>1. ASSUME NEW phase PROVE IsSequence(HooksOf(layout, s, phase))
  <2> DEFINE hooks == layout.hooks[s.suite]
             I == {i \in DOMAIN hooks : hooks[i].phase = phase}
  <2>1. CASE s.virtual
    BY <2>1, EmptyIsSequence DEF HooksOf
  <2>2. CASE ~ s.virtual
    <3>1. HooksOf(layout, s, phase) = Only(hooks, I) BY <2>2 DEF HooksOf
    <3>2. IsSequence(hooks) BY <2>2 DEF LayoutStands
    <3> HIDE DEF hooks, I
    <3> QED BY <3>1, <3>2, OnlyMembers
  <2> QED BY <2>1, <2>2
<1> DEFINE hooks == AllHooks(layout, s)
           I == {i \in DOMAIN hooks : <<s.suite, hooks[i].key>> \notin rules.hooks}
<1>2. IsSequence(hooks) BY <1>1, ConcatSequences DEF AllHooks
<1>3. KeptHooks(rules, s.suite, hooks) = Only(hooks, I) BY DEF KeptHooks
<1> HIDE DEF hooks, I
<1>4. IsSequence(Only(hooks, I)) BY <1>2, OnlyMembers
<1> QED BY <1>3, <1>4 DEF hooks

\* What a suite that is resolved at all holds.
SuiteStands(layout, s, suite, results, hooks, bound) ==
  /\ suite.suite = s.suite
  /\ suite.na = (Running(results) = {})
  /\ suite.undefined = (\/ ~ s.virtual /\ Undefined(hooks, bound)
                        \/ \E i \in DOMAIN results : results[i].undefined)
  /\ IsSequence(hooks)
  /\ suite.hooks = IF s.virtual THEN <<>> ELSE Snapshot(hooks, bound, HookPlaces(hooks))
  /\ IsSequence(suite.cases)
  /\ \A c : c \in ToSet(suite.cases) <=> \E i \in Running(results) : c = results[i].case
  /\ \A x : x \in suite.exclusions <=>
       \/ \E n \in ToSet(AllHooks(layout, s)) \ ToSet(hooks) :
            x = Exclusion("suite_step", s.suite, NoOccurrence, 0, n.key, "direct")
       \/ \E i \in DOMAIN s.members \ DOMAIN results :
            /\ s.members[i].case \in DOMAIN layout.flow
            /\ x = Exclusion("case", s.suite, s.members[i], i, NoKey, "direct")
       \/ \E i \in DOMAIN results : x \in results[i].exclusions
       \/ /\ Running(results) = {} /\ ~ s.virtual
          /\ x = Exclusion("suite", s.suite, NoOccurrence, 0, NoKey, "empty")

LEMMA SuiteIs ==
  ASSUME NEW layout, LayoutStands(layout), NEW defs, NEW rules, NEW target,
         NEW s, SpecStands(layout, s), s.virtual \/ s.suite \in ToSet(layout.suites)
  PROVE  SuiteStands(layout, s, BuildSuite(layout, defs, rules, target, s),
                     Results(layout, defs, rules, target, s),
                     KeptHooks(rules, s.suite, AllHooks(layout, s)),
                     SuiteVariables(defs, target, s.suite))
<1> DEFINE suite   == BuildSuite(layout, defs, rules, target, s)
           results == Results(layout, defs, rules, target, s)
           hooks   == KeptHooks(rules, s.suite, AllHooks(layout, s))
           bound   == SuiteVariables(defs, target, s.suite)
           all  == AllHooks(layout, s)
           live == Running(results)
           seqs == [i \in DOMAIN s.members |-> IF i \in live THEN <<results[i].case>> ELSE <<>>]
           M    == {results[i].case : i \in live}
<1>1. suite = SuiteOf(layout, s, all, hooks, bound, results)
  BY DEF BuildSuite, BuildLiveSuite, AllHooks, Results
<1>2. suite.cases = FlattenSeq(seqs) BY <1>1 DEF SuiteOf, Running
<1>3. s.virtual \/ s.suite \in DOMAIN layout.hooks BY DEF LayoutStands
<1>4. IsSequence(hooks) BY <1>3, HooksAre
<1>5. DOMAIN results \subseteq DOMAIN s.members /\ live \subseteq DOMAIN results
  BY DEF Results, Running, Wanted
<1>6. IsSequence(s.members) BY DEF SpecStands
<1>7. DOMAIN s.members = 1 .. Len(s.members) /\ Len(s.members) \in Nat BY <1>6, DomainIsRange
<1>8. IsSequence(FlattenSeq(seqs)) /\ ToSet(FlattenSeq(seqs)) = M
  <2> HIDE DEF live, results
  <2>1. \A i \in DOMAIN s.members :
          (IF i \in live THEN <<results[i].case>> ELSE <<>>) \in Seq(M)
    <3>1. \A i \in live : results[i].case \in M OBVIOUS
    <3> HIDE DEF M
    <3> QED BY <3>1
  <2>2. seqs \in Seq(Seq(M)) /\ DOMAIN seqs = DOMAIN s.members
    <3> HIDE DEF M
    <3> QED BY <1>7, <2>1
  <2>3. \A i \in DOMAIN s.members : ToSet(seqs[i]) = IF i \in live THEN {results[i].case} ELSE {}
    BY SingletonIsSequence, EmptyIsSequence
  <2> HIDE DEF seqs, M
  <2>4. /\ FlattenSeq(seqs) \in Seq(M)
        /\ \A m \in M : m \in ToSet(FlattenSeq(seqs)) <=> \E i \in DOMAIN seqs : m \in ToSet(seqs[i])
    BY <2>2, FlattenMembers
  <2>5. IsSequence(FlattenSeq(seqs)) /\ ToSet(FlattenSeq(seqs)) \subseteq M
    BY <2>4, SequenceOfItsMembers
  <2>6. \A m \in M : \E i \in DOMAIN s.members : m \in ToSet(seqs[i])
    BY <1>5, <2>3 DEF M
  <2>7. \A m \in M : m \in ToSet(FlattenSeq(seqs)) BY <2>2, <2>4, <2>6
  <2> QED BY <2>5, <2>7
<1>9. /\ suite.suite = s.suite
      /\ suite.na = (live = {})
      /\ suite.undefined = (\/ ~ s.virtual /\ Undefined(hooks, bound)
                            \/ \E i \in DOMAIN results : results[i].undefined)
      /\ suite.hooks = IF s.virtual THEN <<>> ELSE Snapshot(hooks, bound, HookPlaces(hooks))
  <2> DEFINE made == SuiteOf(layout, s, all, hooks, bound, results)
  <2>1. /\ made.suite = s.suite
        /\ made.na = (live = {})
        /\ made.undefined = (\/ ~ s.virtual /\ Undefined(hooks, bound)
                             \/ \E i \in DOMAIN results : results[i].undefined)
        /\ made.hooks = IF s.virtual THEN <<>> ELSE Snapshot(hooks, bound, HookPlaces(hooks))
    BY DEF SuiteOf, Running
  <2> HIDE DEF made
  <2>2. suite = made BY <1>1 DEF made
  <2> HIDE DEF suite, results, hooks, bound
  <2> QED BY <2>1, <2>2
<1> DEFINE dead == {p \in DOMAIN s.members : /\ s.members[p].case \in DOMAIN layout.flow
                                             /\ p \notin DOMAIN results}
           X1 == {Exclusion("suite_step", s.suite, NoOccurrence, 0, n.key, "direct") :
                    n \in ToSet(all) \ ToSet(hooks)}
           X2 == {Exclusion("case", s.suite, s.members[i], i, NoKey, "direct") : i \in dead}
           X3 == UNION {results[i].exclusions : i \in DOMAIN results}
           X4 == IF live = {} /\ ~ s.virtual
                 THEN {Exclusion("suite", s.suite, NoOccurrence, 0, NoKey, "empty")} ELSE {}
<1>10. suite.exclusions = X1 \cup X2 \cup X3 \cup X4
  BY <1>1 DEF SuiteOf, Running
<1>11. \A x : x \in suite.exclusions <=>
         \/ \E n \in ToSet(all) \ ToSet(hooks) :
              x = Exclusion("suite_step", s.suite, NoOccurrence, 0, n.key, "direct")
         \/ \E i \in DOMAIN s.members \ DOMAIN results :
              /\ s.members[i].case \in DOMAIN layout.flow
              /\ x = Exclusion("case", s.suite, s.members[i], i, NoKey, "direct")
         \/ \E i \in DOMAIN results : x \in results[i].exclusions
         \/ /\ live = {} /\ ~ s.virtual
            /\ x = Exclusion("suite", s.suite, NoOccurrence, 0, NoKey, "empty")
  <2> HIDE DEF all, live, results, hooks, suite
  <2>1. \A x : x \in X1 <=> \E n \in ToSet(all) \ ToSet(hooks) :
              x = Exclusion("suite_step", s.suite, NoOccurrence, 0, n.key, "direct")
    OBVIOUS
  <2>2. \A x : x \in X2 <=> \E i \in DOMAIN s.members \ DOMAIN results :
              /\ s.members[i].case \in DOMAIN layout.flow
              /\ x = Exclusion("case", s.suite, s.members[i], i, NoKey, "direct")
    <3>1. \A x : x \in X2 <=> \E i \in dead :
              x = Exclusion("case", s.suite, s.members[i], i, NoKey, "direct")
      OBVIOUS
    <3>2. \A i : i \in dead <=> /\ i \in DOMAIN s.members \ DOMAIN results
                               /\ s.members[i].case \in DOMAIN layout.flow
      OBVIOUS
    <3> HIDE DEF X2, dead
    <3> QED BY <3>1, <3>2
  <2>3. \A x : x \in X3 <=> \E i \in DOMAIN results : x \in results[i].exclusions
    OBVIOUS
  <2>4. \A x : x \in X4 <=> /\ live = {} /\ ~ s.virtual
            /\ x = Exclusion("suite", s.suite, NoOccurrence, 0, NoKey, "empty")
    OBVIOUS
  <2> HIDE DEF X1, X2, X3, X4
  <2> QED BY <1>10, <2>1, <2>2, <2>3, <2>4
<1>12. \A c : c \in M <=> \E i \in live : c = results[i].case
  <2> HIDE DEF live
  <2> QED OBVIOUS
<1> HIDE DEF live, all, seqs, M, suite, results, hooks, bound
<1>13. IsSequence(suite.cases) /\ ToSet(suite.cases) = M BY <1>2, <1>8
<1>14. \A c : c \in ToSet(suite.cases) <=> \E i \in live : c = results[i].case
  BY <1>12, <1>13
<1>15. SuiteStands(layout, s, suite, results, hooks, bound)
  BY <1>4, <1>9, <1>11, <1>13, <1>14 DEF SuiteStands, live, all
<1> QED BY <1>15 DEF suite, results, hooks, bound

\* A deleted suite gives nothing that runs.
LEMMA GoneSuiteIs ==
  ASSUME NEW layout, NEW defs, NEW rules, NEW target, NEW s,
         ~ s.virtual, s.suite \notin ToSet(layout.suites)
  PROVE  LET suite == BuildSuite(layout, defs, rules, target, s)
         IN /\ suite.suite = s.suite /\ suite.na = TRUE /\ suite.cases = <<>>
            /\ suite.exclusions =
                 {Exclusion("suite", s.suite, NoOccurrence, 0, NoKey, "direct")}
BY DEF BuildSuite

\* A case that runs is what one occurrence of its suite resolves to.
LEMMA RunningCase ==
  ASSUME NEW layout, LayoutStands(layout), NEW defs, NEW rules, NEW target,
         NEW s, SpecStands(layout, s), s.virtual \/ s.suite \in ToSet(layout.suites),
         NEW k \in DOMAIN BuildSuite(layout, defs, rules, target, s).cases
  PROVE  \E i \in DOMAIN s.members :
           /\ s.members[i].case \in DOMAIN layout.flow
           /\ i \in DOMAIN Results(layout, defs, rules, target, s)
           /\ Results(layout, defs, rules, target, s)[i]
                = ResolveCase(layout, defs, rules, target, s.suite, s.members[i], i)
           /\ BuildSuite(layout, defs, rules, target, s).cases[k]
                = ResolveCase(layout, defs, rules, target, s.suite, s.members[i], i).case
<1> DEFINE suite   == BuildSuite(layout, defs, rules, target, s)
           results == Results(layout, defs, rules, target, s)
           hooks   == KeptHooks(rules, s.suite, AllHooks(layout, s))
           bound   == SuiteVariables(defs, target, s.suite)
<1>1. SuiteStands(layout, s, suite, results, hooks, bound)
  BY SuiteIs
<1> HIDE DEF suite, results, hooks, bound
<1>2. suite.cases[k] \in ToSet(suite.cases) BY DEF suite, ToSet
<1>3. PICK i \in Running(results) : suite.cases[k] = results[i].case BY <1>1, <1>2 DEF SuiteStands
<1> USE DEF suite, results
<1>4. i \in Wanted(layout, rules, s) BY DEF Running, Results
<1>5. results[i] = ResolveCase(layout, defs, rules, target, s.suite, s.members[i], i)
  BY <1>4 DEF Results
<1>6. i \in DOMAIN s.members /\ s.members[i].case \in DOMAIN layout.flow BY <1>4 DEF Wanted
<1>7. i \in DOMAIN results BY DEF Running
<1> QED BY <1>3, <1>5, <1>6, <1>7

-----------------------------------------------------------------------------
(* What an execution is made of.                                           *)

Build(e, j) ==
  BuildSuite(LayoutFor(e), VarsFor(e), RulesFor(e), TargetFor(e), SpecsFor(e)[j])

LEMMA ContentIs ==
  ASSUME NEW e \in Contents
  PROVE  /\ Content(e) = ResolveTarget(LayoutFor(e), VarsFor(e), RulesFor(e), TargetFor(e))
         /\ RowsReady(Outcomes[e]) =
              (/\ Content(e).outcome = "resolved"
               /\ SnapshotReadyRows(Materialize(Content(e))))
<1> DEFINE made == ResolveTarget(LayoutFor(e), VarsFor(e), RulesFor(e), TargetFor(e))
<1>2. Outcomes[e] = OutcomeOf(made)
  BY DEF Outcomes
<1> HIDE DEF made
<1>3. Content(e) = made BY <1>2 DEF Content, OutcomeOf
<1>4. RowsReady(Outcomes[e]) =
        (made.outcome = "resolved" /\ SnapshotReadyRows(Materialize(made)))
  BY <1>2 DEF RowsReady, OutcomeOf
<1> QED BY <1>3, <1>4 DEF made

LEMMA InputsOf ==
  ASSUME NEW e \in Contents
  PROVE  /\ LayoutStands(LayoutFor(e))
         /\ IsSequence(SpecsFor(e))
         /\ \A j \in DOMAIN SpecsFor(e) : SpecStands(LayoutFor(e), SpecsFor(e)[j])
         /\ \A i, j \in DOMAIN SpecsFor(e) :
              SpecsFor(e)[i].suite = SpecsFor(e)[j].suite =>
                /\ SpecsFor(e)[i].members = SpecsFor(e)[j].members
                /\ SpecsFor(e)[i].virtual = SpecsFor(e)[j].virtual
<1>1. e.layout \in Assets /\ e.target \in Targets BY DEF Contents
<1>2. LayoutStands(LayoutFor(e)) /\ TargetStands(LayoutFor(e), TargetFor(e))
  BY <1>1, InputsStand DEF LayoutFor, TargetFor
<1> QED BY <1>2, SpecsAreStanding DEF SpecsFor

LEMMA ExecutedIs ==
  ASSUME NEW e \in Executed
  PROVE  /\ IsSequence(Content(e).suites)
         /\ DOMAIN Content(e).suites = DOMAIN SpecsFor(e)
         /\ \A j \in DOMAIN SpecsFor(e) :
              /\ Content(e).suites[j] = Build(e, j)
              /\ ~ Content(e).suites[j].undefined
         /\ \E j \in DOMAIN SpecsFor(e) : ~ Content(e).suites[j].na
         /\ \A x : x \in Content(e).exclusions <=>
                     \E j \in DOMAIN SpecsFor(e) : x \in Content(e).suites[j].exclusions
         /\ Content(e).summary = Summary(SpecsFor(e), Content(e).suites, Content(e).exclusions)
<1> DEFINE specs  == SpecsFor(e)
           suites == [i \in DOMAIN specs |-> Build(e, i)]
           invalid == ContextInvalid(LayoutFor(e), RulesFor(e), TargetFor(e))
<1>1. e \in Contents /\ Content(e).outcome = "resolved" BY DEF Executed
<1>2. Content(e) = TargetResult(invalid, specs, suites)
  BY <1>1, ContentIs DEF ResolveTarget, SpecsFor, Build
<1> HIDE DEF suites, invalid
<1>3. /\ \A i \in DOMAIN suites : ~ suites[i].undefined
      /\ \E i \in DOMAIN suites : ~ suites[i].na
      /\ Content(e).suites = suites
      /\ Content(e).exclusions = UNION {suites[i].exclusions : i \in DOMAIN suites}
      /\ Content(e).summary = Summary(specs, Content(e).suites, Content(e).exclusions)
  <2> DEFINE result == TargetResult(invalid, specs, suites)
  <2>1. result.outcome = "resolved" BY <1>1, <1>2
  <2> HIDE DEF specs
  <2>2. ~ (invalid \/ \E i \in DOMAIN suites : suites[i].undefined)
    BY <2>1 DEF TargetResult
  <2>3. ~ \A i \in DOMAIN suites : suites[i].na
    BY <2>1, <2>2 DEF TargetResult
  <2> DEFINE exclusions == UNION {suites[i].exclusions : i \in DOMAIN suites}
  <2>4. result = [outcome |-> "resolved", suites |-> suites, exclusions |-> exclusions,
                  summary |-> Summary(specs, suites, exclusions)]
    BY <2>2, <2>3, Zenon DEF TargetResult
  <2> HIDE DEF result, exclusions
  <2>5. /\ result.suites = suites /\ result.exclusions = exclusions
        /\ result.summary = Summary(specs, suites, exclusions)
    BY <2>4
  <2>6. Content(e) = result BY <1>2 DEF result
  <2> QED BY <2>2, <2>3, <2>5, <2>6 DEF exclusions
<1>4. DOMAIN suites = DOMAIN specs /\ \A j \in DOMAIN specs : suites[j] = Build(e, j)
  BY DEF suites
<1>5. \A x : x \in Content(e).exclusions <=> \E j \in DOMAIN suites : x \in suites[j].exclusions
  BY <1>3
<1>6. IsSequence(suites)
  <2>1. IsSequence(specs) BY <1>1, InputsOf
  <2>2. DOMAIN specs = 1 .. Len(specs) /\ Len(specs) \in Nat BY <2>1, DomainIsRange
  <2>3. suites = [i \in DOMAIN specs |-> suites[i]] BY DEF suites
  <2> HIDE DEF specs
  <2> QED BY <2>2, <2>3, FunctionIsSequence
<1> HIDE DEF specs
<1> QED BY <1>3, <1>4, <1>5, <1>6 DEF specs

LEMMA RunSuiteIs ==
  ASSUME NEW e \in Executed, NEW s \in RunSuites(e)
  PROVE  \E j \in DOMAIN SpecsFor(e) :
           /\ s = Build(e, j) /\ ~ s.undefined /\ ~ s.na
           /\ SpecStands(LayoutFor(e), SpecsFor(e)[j])
           /\ SpecsFor(e)[j].virtual \/ SpecsFor(e)[j].suite \in ToSet(LayoutFor(e).suites)
<1>1. s \in ToSet(Content(e).suites) /\ ~ s.na BY DEF RunSuites
<1>2. PICK j \in DOMAIN SpecsFor(e) : s = Content(e).suites[j]
  BY <1>1, ExecutedIs DEF ToSet
<1>3. s = Build(e, j) /\ ~ s.undefined BY <1>2, ExecutedIs
<1>4. e \in Contents BY DEF Executed
<1>5. SpecStands(LayoutFor(e), SpecsFor(e)[j]) BY <1>4, InputsOf
<1>6. SpecsFor(e)[j].virtual \/ SpecsFor(e)[j].suite \in ToSet(LayoutFor(e).suites)
  BY <1>1, <1>3, GoneSuiteIs DEF Build
<1> QED BY <1>1, <1>3, <1>5, <1>6

\* Every name that a snapshot leaves to the run is set by an earlier node.
LEMMA ExecutedAreBound == Executed \subseteq BoundContents
<1> SUFFICES ASSUME NEW e \in Executed, NEW s \in RunSuites(e)
             PROVE  /\ SetByNodes(s.hooks)
                    /\ \A k \in DOMAIN s.cases : SetByNodes(s.cases[k].flow)
  BY DEF BoundContents, Bound
<1> DEFINE layout == LayoutFor(e)
           defs   == VarsFor(e)
           rules  == RulesFor(e)
           target == TargetFor(e)
<1>0. LayoutStands(layout) BY InputsOf DEF Executed
<1>1. PICK j \in DOMAIN SpecsFor(e) :
        /\ s = Build(e, j) /\ ~ s.undefined /\ ~ s.na
        /\ SpecStands(layout, SpecsFor(e)[j])
        /\ SpecsFor(e)[j].virtual \/ SpecsFor(e)[j].suite \in ToSet(layout.suites)
  BY RunSuiteIs
<1> DEFINE spec    == SpecsFor(e)[j]
           results == Results(layout, defs, rules, target, spec)
           hooks   == KeptHooks(rules, spec.suite, AllHooks(layout, spec))
           bound   == SuiteVariables(defs, target, spec.suite)
<1>2. s = BuildSuite(layout, defs, rules, target, spec) BY <1>1 DEF Build
<1> HIDE DEF layout, defs, rules, target, spec
<1>3. SpecStands(layout, spec) /\ (spec.virtual \/ spec.suite \in ToSet(layout.suites))
  BY <1>1 DEF spec
<1>4. SuiteStands(layout, spec, s, results, hooks, bound) BY <1>0, <1>2, <1>3, SuiteIs
<1>5. SetByNodes(s.hooks)
  <2>1. CASE spec.virtual
    <3>1. s.hooks = <<>> BY <1>4, <2>1 DEF SuiteStands
    <3> QED BY <3>1 DEF SetByNodes
  <2>2. CASE ~ spec.virtual
    <3>1. s.hooks = Snapshot(hooks, bound, HookPlaces(hooks)) /\ IsSequence(hooks) /\ ~ Undefined(hooks, bound)
      BY <1>1, <1>4, <2>2 DEF SuiteStands
    <3>2. \A x \in DOMAIN bound : bound[x] # "runtime" BY NoLayerIsTheRun
    <3> HIDE DEF hooks, bound
    <3> QED BY <3>1, <3>2, DefinedIsSetByNodes
  <2> QED BY <2>1, <2>2
<1>6. ASSUME NEW k \in DOMAIN s.cases PROVE SetByNodes(s.cases[k].flow)
  <2>1. PICK i \in DOMAIN spec.members :
          /\ spec.members[i].case \in DOMAIN layout.flow
          /\ i \in DOMAIN results
          /\ results[i] = ResolveCase(layout, defs, rules, target, spec.suite, spec.members[i], i)
          /\ s.cases[k] = ResolveCase(layout, defs, rules, target, spec.suite, spec.members[i], i).case
    BY <1>0, <1>2, <1>3, <1>6, RunningCase
  <2> DEFINE m    == spec.members[i]
             kept == KeptSteps(layout, rules, target, m)
             vs   == CaseVariables(defs, rules, target, spec.suite, m)
  <2>2. ~ results[i].undefined BY <1>1, <1>4, <2>1 DEF SuiteStands
  <2>3. ~ Undefined(kept, vs) /\ s.cases[k].flow = Snapshot(kept, vs, Places(kept))
    BY <2>1, <2>2, CaseIs
  <2>4. IsSequence(kept) BY <1>0, <2>1, KeptStepsAre
  <2>5. \A x \in DOMAIN vs : vs[x] # "runtime" BY NoLayerIsTheRun
  <2> HIDE DEF kept, vs
  <2> QED BY <2>3, <2>4, <2>5, DefinedIsSetByNodes
<1> QED BY <1>5, <1>6

\* For a request without variables of its own, the page's layers are those of
\* the run.
LEMMA PageIsRight ==
  ASSUME NEW defs, NEW rules, NEW target, target.params = {}, NEW suite, suite # NoSuite,
         NEW m, m.id # NoMember, NEW x
  PROVE  Source(CaseVariables(defs, rules, target, suite, m), x)
           = Source(PageVariables(defs, rules, suite, m), x)
<1> DEFINE run  == <<Layer("global",  defs.global),
                     Layer("project", defs.project),
                     Layer("case",    defs.case[m.case]),
                     Layer("suite",   IF suite = NoSuite THEN {} ELSE defs.suite[suite]),
                     Layer("member",  m.overrides),
                     Layer("params",  target.params),
                     Layer("pinned",  IF m.id = NoMember THEN {} ELSE rules.pinned[m.id])>>
           page == <<Layer("global",  defs.global),
                     Layer("project", defs.project),
                     Layer("case",    defs.case[m.case]),
                     Layer("suite",   defs.suite[suite]),
                     Layer("member",  m.overrides),
                     Layer("pinned",  rules.pinned[m.id])>>
<1>1. /\ CaseVariables(defs, rules, target, suite, m) = Bindings(run)
      /\ PageVariables(defs, rules, suite, m) = Bindings(page)
  BY DEF CaseVariables, PageVariables
<1>2. /\ DOMAIN run = 1 .. 7 /\ DOMAIN page = 1 .. 6
      /\ \A k \in 1 .. 5 : run[k].names = page[k].names /\ run[k].scope = page[k].scope
      /\ run[6].names = {}
      /\ run[7].names = page[6].names /\ run[7].scope = page[6].scope
  BY DEF Layer
<1> HIDE DEF run, page
<1>3. /\ x \in DOMAIN Bindings(run) <=> \E i \in 1 .. 7 : x \in run[i].names
      /\ \A k \in 1 .. 7 :
           x \in run[k].names /\ (\A j \in k + 1 .. 7 : x \notin run[j].names)
             => Bindings(run)[x] = run[k].scope
  <2>1. DOMAIN run = 1 .. 7 /\ 7 \in Nat BY <1>2
  <2> QED BY <2>1, TopLayer, Zenon
<1>4. /\ x \in DOMAIN Bindings(page) <=> \E i \in 1 .. 6 : x \in page[i].names
      /\ \A k \in 1 .. 6 :
           x \in page[k].names /\ (\A j \in k + 1 .. 6 : x \notin page[j].names)
             => Bindings(page)[x] = page[k].scope
  <2>1. DOMAIN page = 1 .. 6 /\ 6 \in Nat BY <1>2
  <2> QED BY <2>1, TopLayer, Zenon
<1>5. CASE x \in page[6].names
  <2>1. Bindings(page)[x] = page[6].scope BY <1>4, <1>5
  <2>2. Bindings(run)[x] = run[7].scope BY <1>2, <1>3, <1>5
  <2>3. x \in DOMAIN Bindings(run) /\ x \in DOMAIN Bindings(page) BY <1>2, <1>3, <1>4, <1>5
  <2> QED BY <1>1, <1>2, <2>1, <2>2, <2>3 DEF Source
<1>6. ASSUME NEW k \in 1 .. 5, x \in page[k].names, \A j \in k + 1 .. 6 : x \notin page[j].names
      PROVE  Source(Bindings(run), x) = Source(Bindings(page), x)
  <2>1. Bindings(page)[x] = page[k].scope BY <1>4, <1>6
  <2>2. x \in run[k].names BY <1>2, <1>6
  <2>3. \A j \in k + 1 .. 7 : x \notin run[j].names
    <3> SUFFICES ASSUME NEW j \in k + 1 .. 7 PROVE x \notin run[j].names OBVIOUS
    <3>1. CASE j \in 1 .. 5 BY <1>2, <1>6, <3>1
    <3>2. CASE j = 6 BY <1>2, <3>2
    <3>3. CASE j = 7 BY <1>2, <1>6, <3>3
    <3> QED BY <3>1, <3>2, <3>3
  <2>4. Bindings(run)[x] = run[k].scope BY <1>3, <2>2, <2>3
  <2>5. x \in DOMAIN Bindings(run) /\ x \in DOMAIN Bindings(page) BY <1>3, <1>4, <1>6, <2>2
  <2> QED BY <1>2, <2>1, <2>4, <2>5 DEF Source
<1>7. CASE \A k \in 1 .. 6 : x \notin page[k].names
  <2>1. x \notin DOMAIN Bindings(page) BY <1>4, <1>7
  <2>2. \A k \in 1 .. 7 : x \notin run[k].names
    <3> SUFFICES ASSUME NEW j \in 1 .. 7 PROVE x \notin run[j].names OBVIOUS
    <3>1. CASE j \in 1 .. 5 BY <1>2, <1>7, <3>1
    <3>2. CASE j = 6 BY <1>2, <3>2
    <3>3. CASE j = 7 BY <1>2, <1>7, <3>3
    <3> QED BY <3>1, <3>2, <3>3
  <2>3. x \notin DOMAIN Bindings(run) BY <1>3, <2>2
  <2> QED BY <1>1, <2>1, <2>3 DEF Source
<1>8. \/ x \in page[6].names
      \/ \E k \in 1 .. 5 : x \in page[k].names /\ \A j \in k + 1 .. 6 : x \notin page[j].names
      \/ \A k \in 1 .. 6 : x \notin page[k].names
  <2> DEFINE In(k) == x \in page[k].names
  <2> HIDE DEF In
  <2> SUFFICES \/ In(6)
               \/ \E k \in 1 .. 5 : In(k) /\ \A j \in k + 1 .. 6 : ~ In(j)
               \/ \A k \in 1 .. 6 : ~ In(k)
    BY DEF In
  <2>1. CASE In(5) /\ ~ In(6) BY <2>1
  <2>2. CASE In(4) /\ ~ In(5) /\ ~ In(6) BY <2>2
  <2>3. CASE In(3) /\ ~ In(4) /\ ~ In(5) /\ ~ In(6) BY <2>3
  <2>4. CASE In(2) /\ ~ In(3) /\ ~ In(4) /\ ~ In(5) /\ ~ In(6) BY <2>4
  <2>5. CASE In(1) /\ ~ In(2) /\ ~ In(3) /\ ~ In(4) /\ ~ In(5) /\ ~ In(6) BY <2>5
  <2> QED BY <2>1, <2>2, <2>3, <2>4, <2>5
<1> QED BY <1>1, <1>5, <1>6, <1>7, <1>8

LEMMA MemberById ==
  ASSUME NEW layout, LayoutStands(layout), NEW suite \in DOMAIN layout.members,
         NEW m \in ToSet(layout.members[suite])
  PROVE  (CHOOSE o \in ToSet(layout.members[suite]) : o.id = m.id) = m
<1> DEFINE ms == layout.members[suite]
<1>1. \A i, j \in DOMAIN ms : ms[i].id = ms[j].id => i = j BY DEF LayoutStands
<1>2. \A o \in ToSet(ms) : o.id = m.id => o = m BY <1>1 DEF ToSet
<1> QED BY <1>2

\* What the page shows is what runs.
LEMMA ExecutedAreShown == Executed \subseteq ShownContents
<1> SUFFICES ASSUME NEW e \in Executed, TargetFor(e).params = {}, NEW s \in RunSuites(e),
                    NEW k \in DOMAIN s.cases, s.cases[k].member # NoMember
             PROVE  LET c == s.cases[k]
                        m == CHOOSE m \in ToSet(LayoutFor(e).members[s.suite]) : m.id = c.member
                        page == PageVariables(VarsFor(e), RulesFor(e), s.suite, m)
                    IN \A i \in DOMAIN c.flow :
                         /\ \A x \in DOMAIN c.flow[i].reads : c.flow[i].reads[x] = Source(page, x)
                         /\ \A x \in DOMAIN c.flow[i].finds : c.flow[i].finds[x] = Source(page, x)
  BY DEF ShownContents, Shown
<1> DEFINE layout == LayoutFor(e)
           defs   == VarsFor(e)
           rules  == RulesFor(e)
           target == TargetFor(e)
           c      == s.cases[k]
<1>0. LayoutStands(layout) BY InputsOf DEF Executed
<1>1. PICK j \in DOMAIN SpecsFor(e) :
        /\ s = Build(e, j) /\ ~ s.undefined /\ ~ s.na
        /\ SpecStands(layout, SpecsFor(e)[j])
        /\ SpecsFor(e)[j].virtual \/ SpecsFor(e)[j].suite \in ToSet(layout.suites)
  BY RunSuiteIs
<1> DEFINE spec    == SpecsFor(e)[j]
           results == Results(layout, defs, rules, target, spec)
           hooks   == KeptHooks(rules, spec.suite, AllHooks(layout, spec))
           bound   == SuiteVariables(defs, target, spec.suite)
<1>2. s = BuildSuite(layout, defs, rules, target, spec) BY <1>1 DEF Build
<1>3. target.params = {} /\ c.member # NoMember OBVIOUS
<1> HIDE DEF layout, defs, rules, target, spec
<1>4. SpecStands(layout, spec) /\ (spec.virtual \/ spec.suite \in ToSet(layout.suites))
  BY <1>1 DEF spec
<1>5. SuiteStands(layout, spec, s, results, hooks, bound) BY <1>0, <1>2, <1>4, SuiteIs
<1>6. s.suite = spec.suite BY <1>5 DEF SuiteStands
<1>7. PICK i \in DOMAIN spec.members :
        /\ spec.members[i].case \in DOMAIN layout.flow
        /\ c = ResolveCase(layout, defs, rules, target, spec.suite, spec.members[i], i).case
  BY <1>0, <1>2, <1>4, RunningCase
<1> DEFINE m    == spec.members[i]
           kept == KeptSteps(layout, rules, target, m)
           vs   == CaseVariables(defs, rules, target, spec.suite, m)
           page == PageVariables(defs, rules, spec.suite, m)
<1>8. c.member = m.id /\ c.flow = Snapshot(kept, vs, Places(kept)) BY <1>7, CaseIs
<1>9. /\ m.id # NoMember /\ m \in ToSet(layout.members[spec.suite])
      /\ spec.suite \in DOMAIN layout.members /\ spec.suite # NoSuite
  BY <1>0, <1>3, <1>4, <1>8 DEF SpecStands, LayoutStands
<1>10. (CHOOSE o \in ToSet(layout.members[s.suite]) : o.id = c.member) = m
  BY <1>0, <1>6, <1>8, <1>9, MemberById
<1>11. \A x : Source(vs, x) = Source(page, x) BY <1>3, <1>9, PageIsRight
<1> HIDE DEF c, m, kept, vs, page
<1>12. ASSUME NEW n \in DOMAIN c.flow, NEW x \in DOMAIN c.flow[n].reads
       PROVE  c.flow[n].reads[x] = Source(page, x)
  <2>1. n \in DOMAIN kept /\ c.flow[n].reads = [y \in kept[n].uses |-> Source(vs, y)]
    BY <1>8, <1>12 DEF Snapshot
  <2>2. x \in kept[n].uses BY <1>12, <2>1
  <2> QED BY <1>11, <2>1, <2>2
<1>13. ASSUME NEW n \in DOMAIN c.flow, NEW x \in DOMAIN c.flow[n].finds
       PROVE  c.flow[n].finds[x] = Source(page, x)
  <2>1. n \in DOMAIN kept /\ c.flow[n].finds = [y \in kept[n].finds |-> Source(vs, y)]
    BY <1>8, <1>13 DEF Snapshot
  <2>2. x \in kept[n].finds BY <1>13, <2>1
  <2> QED BY <1>11, <2>1, <2>2
<1>14. page = PageVariables(defs, rules, s.suite,
                            CHOOSE o \in ToSet(layout.members[s.suite]) : o.id = c.member)
  BY <1>6, <1>10 DEF page
<1> QED BY <1>12, <1>13, <1>14 DEF layout, defs, rules, c

-----------------------------------------------------------------------------
(* The rows and the test of a retry.                                       *)

LEMMA KeysCount ==
  ASSUME NEW n \in Nat, NEW rows, DOMAIN rows = 1 .. n,
         \A i, j \in 1 .. n :
           rows[i].phase = rows[j].phase /\ rows[i].order = rows[j].order => i = j
  PROVE  Cardinality(Keys(rows)) = n
<1> DEFINE f == [i \in 1 .. n |-> <<rows[i].phase, rows[i].order>>]
<1>1. \A i, j \in 1 .. n : f[i] = f[j] => i = j OBVIOUS
<1>2. \A i \in 1 .. n : f[i] \in Keys(rows) BY DEF Keys
<1>3. \A x \in Keys(rows) : \E i \in 1 .. n : f[i] = x BY DEF Keys
<1>4. f \in [1 .. n -> Keys(rows)] BY <1>2
<1> HIDE DEF f
<1>5. f \in Bijection(1 .. n, Keys(rows))
  BY <1>1, <1>3, <1>4 DEF Bijection, Injection, Surjection, IsInjective
<1>6. ExistsBijection(1 .. n, Keys(rows)) BY <1>5 DEF ExistsBijection
<1> QED BY <1>6, FS_CountingElements

\* Two nodes of a phase have different places.
LEMMA PlacesDiffer ==
  ASSUME NEW n \in Nat, NEW nodes, NEW i \in 1 .. n, NEW k \in 1 .. n,
         nodes[i].phase = nodes[k].phase, PlaceInPhase(nodes, i) = PlaceInPhase(nodes, k)
  PROVE  i = k
<1> DEFINE P(a) == {j \in 1 .. a : nodes[j].phase = nodes[a].phase}
<1>1. ASSUME NEW a \in 1 .. n, NEW b \in 1 .. n, a < b, nodes[a].phase = nodes[b].phase
      PROVE  PlaceInPhase(nodes, a) # PlaceInPhase(nodes, b)
  <2>1. P(a) \subseteq P(b) /\ b \in P(b) /\ b \notin P(a) BY <1>1
  <2>2. IsFiniteSet(P(b))
    <3>1. IsFiniteSet(1 .. b) BY FS_Interval
    <3> QED BY <3>1, FS_Subset
  <2>3. PlaceInPhase(nodes, a) = Cardinality(P(a)) /\ PlaceInPhase(nodes, b) = Cardinality(P(b))
    BY DEF PlaceInPhase
  <2> HIDE DEF P
  <2>4. Cardinality(P(a)) = Cardinality(P(b)) => P(a) = P(b) BY <2>1, <2>2, FS_Subset
  <2> QED BY <2>1, <2>3, <2>4
<1>2. i < k \/ k < i \/ i = k OBVIOUS
<1> QED BY <1>1, <1>2

\* The places of a case's nodes, and of a suite's rows, are keys.
LEMMA PlacesAreKeys ==
  ASSUME NEW n \in Nat, NEW nodes, NEW rows, DOMAIN rows = 1 .. n,
         \A i \in 1 .. n : rows[i].phase = nodes[i].phase /\ rows[i].order = PlaceInPhase(nodes, i)
  PROVE  Cardinality(Keys(rows)) = n
<1>1. \A i, j \in 1 .. n :
        rows[i].phase = rows[j].phase /\ rows[i].order = rows[j].order => i = j
  BY PlacesDiffer
<1> QED BY <1>1, KeysCount

LEMMA CaseKeys ==
  ASSUME NEW nodes, IsSequence(nodes), NEW bound
  PROVE  LET shot == Snapshot(nodes, bound, Places(nodes)) IN RowsMatch(shot, shot)
<1> DEFINE shot == Snapshot(nodes, bound, Places(nodes))
           n == Len(nodes)
<1>1. n \in Nat /\ DOMAIN nodes = 1 .. n BY DomainIsRange
<1>2. /\ DOMAIN shot = 1 .. n
      /\ \A i \in 1 .. n :
           shot[i].phase = nodes[i].phase /\ shot[i].order = PlaceInPhase(nodes, i)
  BY <1>1 DEF Snapshot, Places
<1>3. shot = [i \in 1 .. n |-> shot[i]] BY <1>1 DEF Snapshot
<1> HIDE DEF shot, n
<1>4. Len(shot) = n BY <1>1, <1>3, FunctionIsSequence
<1>5. Cardinality(Keys(shot)) = n BY <1>1, <1>2, PlacesAreKeys
<1>6. RowsMatch(shot, shot) BY <1>4, <1>5 DEF RowsMatch
<1> QED BY <1>6 DEF shot

\* The places in a phase are the numbers up to how many nodes it has: different
\* for different nodes, and none larger.
LEMMA PlacesFill ==
  ASSUME NEW n \in Nat, NEW nodes, NEW i \in 1 .. n, NEW place \in 1 .. PlaceInPhase(nodes, i)
  PROVE  \E k \in 1 .. n : nodes[k].phase = nodes[i].phase /\ PlaceInPhase(nodes, k) = place
<1> DEFINE S    == {k \in 1 .. i : nodes[k].phase = nodes[i].phase}
           c    == PlaceInPhase(nodes, i)
           f    == [k \in S |-> PlaceInPhase(nodes, k)]
           P(k) == {j \in 1 .. k : nodes[j].phase = nodes[k].phase}
<1>1. c = Cardinality(S) BY DEF PlaceInPhase
<1>2. IsFiniteSet(S) /\ c \in Nat
  <2>1. IsFiniteSet(1 .. i) BY FS_Interval
  <2>2. IsFiniteSet(S) BY <2>1, FS_Subset
  <2> HIDE DEF S, c
  <2> QED BY <1>1, <2>2, FS_CardinalityType
<1>3. \A k \in S : f[k] \in 1 .. c
  <2> SUFFICES ASSUME NEW k \in S PROVE PlaceInPhase(nodes, k) \in 1 .. c OBVIOUS
  <2>1. P(k) \subseteq S /\ k \in P(k) OBVIOUS
  <2>2. PlaceInPhase(nodes, k) = Cardinality(P(k)) BY DEF PlaceInPhase
  <2> HIDE DEF S, c, P
  <2>3. IsFiniteSet(P(k)) /\ Cardinality(P(k)) <= c BY <1>1, <1>2, <2>1, FS_Subset
  <2>4. Cardinality(P(k)) \in Nat /\ Cardinality(P(k)) # 0
    BY <2>1, <2>3, FS_CardinalityType, FS_EmptySet
  <2> QED BY <1>2, <2>2, <2>3, <2>4
<1>4. \A a, b \in S : f[a] = f[b] => a = b
  <2> SUFFICES ASSUME NEW a \in S, NEW b \in S, PlaceInPhase(nodes, a) = PlaceInPhase(nodes, b)
               PROVE  a = b
    OBVIOUS
  <2>1. a \in 1 .. n /\ b \in 1 .. n /\ nodes[a].phase = nodes[b].phase OBVIOUS
  <2> QED BY <2>1, PlacesDiffer
<1> DEFINE T == {f[k] : k \in S}
<1>5. f \in Bijection(S, T)
  <2>1. f \in [S -> T] /\ DOMAIN f = S OBVIOUS
  <2>2. \A x \in T : \E k \in S : f[k] = x OBVIOUS
  <2> HIDE DEF f, S, T
  <2> QED BY <1>4, <2>1, <2>2 DEF Bijection, Injection, Surjection, IsInjective
<1>6. T \subseteq 1 .. c BY <1>3
<1>7. f \in [S -> T] OBVIOUS
<1>8. \A x \in T : \E k \in S : x = PlaceInPhase(nodes, k) OBVIOUS
<1>9. \A k \in S : k \in 1 .. n /\ nodes[k].phase = nodes[i].phase OBVIOUS
<1>10. place \in 1 .. c OBVIOUS
<1> HIDE DEF S, c, f, T
<1>11. IsFiniteSet(T) /\ Cardinality(T) = c BY <1>1, <1>2, <1>5, FS_Bijection DEF ExistsBijection
<1>12. IsFiniteSet(1 .. c) /\ Cardinality(1 .. c) = c BY <1>2, FS_Interval
<1>13. T = 1 .. c BY <1>6, <1>11, <1>12, FS_Subset
<1>14. PICK k \in S : place = PlaceInPhase(nodes, k) BY <1>8, <1>10, <1>13
<1> QED BY <1>9, <1>14

\* The rows of a suite's hooks, which are numbered again, hold every number a
\* hook may have in its list.
LEMMA HookKeys ==
  ASSUME NEW nodes, IsSequence(nodes), NEW bound
  PROVE  LET shot == Snapshot(nodes, bound, HookPlaces(nodes)) IN RowsMatch(HookRows(shot), shot)
<1> DEFINE shot == Snapshot(nodes, bound, HookPlaces(nodes))
           rows == HookRows(shot)
           n == Len(nodes)
           H(i) == {j \in 1 .. i : nodes[j].phase = nodes[i].phase /\ nodes[j].own = nodes[i].own}
           P(i) == {j \in 1 .. i : nodes[j].phase = nodes[i].phase}
<1>1. n \in Nat /\ DOMAIN nodes = 1 .. n BY DomainIsRange
<1>2. /\ DOMAIN shot = 1 .. n
      /\ \A i \in 1 .. n :
           shot[i].phase = nodes[i].phase /\ shot[i].order = Cardinality(H(i))
  BY <1>1 DEF Snapshot, HookPlaces
<1>3. shot = [i \in 1 .. n |-> shot[i]] BY <1>1 DEF Snapshot
<1> HIDE DEF shot, n
<1>4. Len(shot) = n BY <1>1, <1>3, FunctionIsSequence
<1>5. \A i \in 1 .. n : PlaceInPhase(shot, i) = PlaceInPhase(nodes, i)
  <2> SUFFICES ASSUME NEW i \in 1 .. n PROVE PlaceInPhase(shot, i) = PlaceInPhase(nodes, i)
    OBVIOUS
  <2>1. ASSUME NEW j \in 1 .. i PROVE shot[j].phase = shot[i].phase <=> nodes[j].phase = nodes[i].phase
    <3>1. j \in 1 .. n BY <1>1
    <3> QED BY <3>1, <1>2
  <2>2. {j \in 1 .. i : shot[j].phase = shot[i].phase}
          = {j \in 1 .. i : nodes[j].phase = nodes[i].phase}
    BY <2>1
  <2> QED BY <2>2 DEF PlaceInPhase
<1>6. /\ DOMAIN rows = 1 .. n
      /\ \A i \in 1 .. n :
           rows[i].phase = nodes[i].phase /\ rows[i].order = PlaceInPhase(nodes, i)
  BY <1>2, <1>5 DEF HookRows
<1> HIDE DEF rows
<1>7. Cardinality(Keys(rows)) = n BY <1>1, <1>6, PlacesAreKeys
<1>8. ASSUME NEW i \in 1 .. n PROVE <<shot[i].phase, shot[i].order>> \in Keys(rows)
  <2>1. H(i) \subseteq P(i) /\ i \in H(i) /\ P(i) \subseteq 1 .. i BY <1>1
  <2>2. PlaceInPhase(nodes, i) = Cardinality(P(i)) BY DEF PlaceInPhase
  <2>3. IsFiniteSet(P(i))
    <3>1. IsFiniteSet(1 .. i) BY <1>1, FS_Interval
    <3> HIDE DEF P, H
    <3> QED BY <2>1, <3>1, FS_Subset
  <2>4. shot[i].phase = nodes[i].phase /\ shot[i].order = Cardinality(H(i)) BY <1>2
  <2> HIDE DEF H, P
  <2>5. /\ IsFiniteSet(H(i)) /\ Cardinality(H(i)) <= Cardinality(P(i)) /\ Cardinality(H(i)) # 0
    BY <2>1, <2>3, FS_Subset, FS_EmptySet
  <2>6. Cardinality(H(i)) \in Nat /\ Cardinality(P(i)) \in Nat
    BY <2>3, <2>5, FS_CardinalityType
  <2>7. Cardinality(H(i)) \in 1 .. PlaceInPhase(nodes, i) BY <2>2, <2>5, <2>6
  <2>8. PICK k \in 1 .. n :
          nodes[k].phase = nodes[i].phase /\ PlaceInPhase(nodes, k) = Cardinality(H(i))
    BY <1>1, <2>7, PlacesFill
  <2>9. rows[k].phase = shot[i].phase /\ rows[k].order = shot[i].order BY <1>6, <2>4, <2>8
  <2> QED BY <1>6, <2>9 DEF Keys
<1>9. Keys(shot) \subseteq Keys(rows) BY <1>2, <1>8 DEF Keys
<1>10. RowsMatch(rows, shot) BY <1>4, <1>7, <1>9 DEF RowsMatch
<1> QED BY <1>10 DEF rows, shot

LEMMA StepKeys ==
  ASSUME NEW flow, IsSequence(flow) PROVE RowsMatch(StepsOf(flow), StepsOf(flow))
<1> DEFINE places  == [i \in DOMAIN flow |-> i]
           actions == Only(places, ActionsOf(flow))
           steps   == StepsOf(flow)
           n       == Len(actions)
<1>1. DOMAIN flow = 1 .. Len(flow) /\ Len(flow) \in Nat BY DomainIsRange
<1>2. IsSequence(places)
  <2>1. places = [i \in 1 .. Len(flow) |-> places[i]] BY <1>1
  <2> HIDE DEF places
  <2> QED BY <1>1, <2>1, FunctionIsSequence
<1>3. IsSequence(actions)
  <2> HIDE DEF places
  <2> QED BY <1>2, OnlyMembers
<1>4. n \in Nat /\ DOMAIN actions = 1 .. n BY <1>3, DomainIsRange
<1>5. DOMAIN steps = DOMAIN actions /\ \A k \in DOMAIN actions : steps[k].order = k
  BY DEF StepsOf
<1>6. steps = [k \in DOMAIN actions |-> steps[k]] BY DEF StepsOf
<1> HIDE DEF actions, steps, n
<1>7. Len(steps) = n BY <1>4, <1>6, FunctionIsSequence
<1>8. \A i, j \in 1 .. n : steps[i].phase = steps[j].phase /\ steps[i].order = steps[j].order => i = j
  BY <1>4, <1>5
<1>9. Cardinality(Keys(steps)) = n BY <1>4, <1>5, <1>8, KeysCount
<1>10. RowsMatch(steps, steps) BY <1>7, <1>9 DEF RowsMatch
<1> QED BY <1>10 DEF steps

LEMMA SnapshotIsSequence ==
  ASSUME NEW nodes, IsSequence(nodes), NEW bound, NEW order
  PROVE  IsSequence(Snapshot(nodes, bound, order))
<1>1. DOMAIN nodes = 1 .. Len(nodes) /\ Len(nodes) \in Nat BY DomainIsRange
<1> DEFINE shot == Snapshot(nodes, bound, order)
<1>2. shot = [i \in 1 .. Len(nodes) |-> shot[i]] BY <1>1 DEF Snapshot
<1> HIDE DEF shot
<1>3. IsSequence(shot) BY <1>1, <1>2, FunctionIsSequence
<1> QED BY <1>3 DEF shot

LEMMA EmptyRows == RowsMatch(HookRows(<<>>), <<>>)
<1>1. HookRows(<<>>) = <<>> BY DEF HookRows
<1>2. Keys(<<>>) = {} BY DEF Keys
<1>3. Cardinality({}) = 0 BY FS_EmptySet
<1> QED BY <1>1, <1>2, <1>3 DEF RowsMatch

\* The rows of a resolved target pass the test of a retry.
LEMMA ExecutedAreReady == Executed \subseteq ReadyContents
<1> SUFFICES ASSUME NEW e \in Executed PROVE RowsReady(Outcomes[e])
  BY DEF ReadyContents
<1> DEFINE layout == LayoutFor(e)
           defs   == VarsFor(e)
           rules  == RulesFor(e)
           target == TargetFor(e)
           suites == Content(e).suites
           on     == {i \in DOMAIN suites : ~ suites[i].na}
           live   == Only(suites, on)
           tree   == Materialize(Content(e))
<1>1. e \in Contents /\ Content(e).outcome = "resolved" BY DEF Executed
<1>2. IsSequence(suites) BY ExecutedIs
<1>3. /\ IsSequence(live)
      /\ ToSet(live) = {suites[i] : i \in DOMAIN suites \cap on}
  <2> HIDE DEF suites, on
  <2> QED BY <1>2, OnlyMembers
<1>4. \A i \in DOMAIN live : live[i] \in RunSuites(e)
  <2> SUFFICES ASSUME NEW i \in DOMAIN live PROVE live[i] \in RunSuites(e) OBVIOUS
  <2>1. live[i] \in ToSet(live) BY DEF ToSet
  <2>2. PICK j \in DOMAIN suites \cap on : live[i] = suites[j] BY <1>3, <2>1
  <2>3. suites[j] \in ToSet(suites) /\ ~ suites[j].na BY <2>2 DEF ToSet
  <2> QED BY <2>2, <2>3 DEF RunSuites
<1>5. live # <<>>
  <2>1. PICK j \in DOMAIN suites : ~ suites[j].na BY ExecutedIs
  <2>2. suites[j] \in {suites[i] : i \in DOMAIN suites \cap on} BY <2>1
  <2>3. suites[j] \in ToSet(live) BY <1>3, <2>2
  <2> HIDE DEF live
  <2> QED BY <2>3, EmptyIsSequence
<1> DEFINE Tree(s) == [hooks |-> s.hooks, hookRows |-> HookRows(s.hooks),
                       cases |-> [k \in DOMAIN s.cases |->
                                    [flow  |-> s.cases[k].flow,  nodeRows |-> s.cases[k].flow,
                                     steps |-> StepsOf(s.cases[k].flow),
                                     stepRows |-> StepsOf(s.cases[k].flow)]]]
<1>6. tree = [i \in DOMAIN live |-> Tree(live[i])] BY DEF Materialize
<1>7. DOMAIN live = 1 .. Len(live) /\ Len(live) \in Nat /\ Len(live) # 0
  <2> HIDE DEF live
  <2> QED BY <1>3, <1>5 DEF IsSequence
<1>8. tree # <<>>
  <2>1. DOMAIN tree = DOMAIN live BY <1>6
  <2>2. 1 \in DOMAIN live BY <1>7
  <2>3. DOMAIN <<>> = {} OBVIOUS
  <2> HIDE DEF tree, live
  <2> QED BY <2>1, <2>2, <2>3
<1>9. ASSUME NEW s \in RunSuites(e)
      PROVE  /\ RowsMatch(HookRows(s.hooks), s.hooks)
             /\ \A k \in DOMAIN s.cases :
                  LET flow == s.cases[k].flow
                  IN RowsMatch(StepsOf(flow), StepsOf(flow)) /\ RowsMatch(flow, flow)
  <2>0. LayoutStands(layout) BY <1>1, InputsOf
  <2>1. PICK j \in DOMAIN SpecsFor(e) :
          /\ s = Build(e, j) /\ ~ s.undefined /\ ~ s.na
          /\ SpecStands(layout, SpecsFor(e)[j])
          /\ SpecsFor(e)[j].virtual \/ SpecsFor(e)[j].suite \in ToSet(layout.suites)
    BY <1>9, RunSuiteIs
  <2> DEFINE spec    == SpecsFor(e)[j]
             results == Results(layout, defs, rules, target, spec)
             hooks   == KeptHooks(rules, spec.suite, AllHooks(layout, spec))
             bound   == SuiteVariables(defs, target, spec.suite)
  <2>2. s = BuildSuite(layout, defs, rules, target, spec) BY <2>1 DEF Build
  <2> HIDE DEF layout, defs, rules, target, spec
  <2>3. SpecStands(layout, spec) /\ (spec.virtual \/ spec.suite \in ToSet(layout.suites))
    BY <2>1 DEF spec
  <2>4. SuiteStands(layout, spec, s, results, hooks, bound) BY <2>0, <2>2, <2>3, SuiteIs
  <2>5. RowsMatch(HookRows(s.hooks), s.hooks)
    <3>1. s.hooks = <<>> \/ (s.hooks = Snapshot(hooks, bound, HookPlaces(hooks)) /\ IsSequence(hooks))
      BY <2>4 DEF SuiteStands
    <3> HIDE DEF hooks, bound
    <3> QED BY <3>1, EmptyRows, HookKeys
  <2>6. ASSUME NEW k \in DOMAIN s.cases
        PROVE  LET flow == s.cases[k].flow
               IN RowsMatch(StepsOf(flow), StepsOf(flow)) /\ RowsMatch(flow, flow)
    <3>1. PICK i \in DOMAIN spec.members :
            /\ spec.members[i].case \in DOMAIN layout.flow
            /\ s.cases[k] = ResolveCase(layout, defs, rules, target, spec.suite, spec.members[i], i).case
      BY <2>0, <2>2, <2>3, <2>6, RunningCase
    <3> DEFINE m    == spec.members[i]
               kept == KeptSteps(layout, rules, target, m)
               vs   == CaseVariables(defs, rules, target, spec.suite, m)
               flow == s.cases[k].flow
    <3>2. flow = Snapshot(kept, vs, Places(kept)) BY <3>1, CaseIs
    <3>3. IsSequence(kept) BY <2>0, <3>1, KeptStepsAre
    <3> HIDE DEF kept, vs, flow
    <3>4. IsSequence(flow) BY <3>2, <3>3, SnapshotIsSequence
    <3>5. RowsMatch(flow, flow) BY <3>2, <3>3, CaseKeys
    <3>6. RowsMatch(StepsOf(flow), StepsOf(flow)) BY <3>4, StepKeys
    <3> QED BY <3>5, <3>6 DEF flow
  <2> QED BY <2>5, <2>6
<1>10. ASSUME NEW i \in DOMAIN tree
       PROVE  /\ RowsMatch(tree[i].hookRows, tree[i].hooks)
              /\ \A k \in DOMAIN tree[i].cases :
                   LET c == tree[i].cases[k]
                   IN /\ RowsMatch(c.stepRows, c.steps)
                      /\ RowsMatch(c.nodeRows, c.flow)
                      /\ \A j \in DOMAIN c.steps :
                           c.stepRows[j].assertions = c.steps[j].assertions
  <2> DEFINE s == live[i]
  <2>1. i \in DOMAIN live /\ tree[i] = Tree(s) BY <1>6, <1>10
  <2>2. s \in RunSuites(e) BY <1>4, <2>1
  <2> HIDE DEF tree, live, s
  <2>3. RowsMatch(tree[i].hookRows, tree[i].hooks)
    <3>1. tree[i].hookRows = HookRows(s.hooks) /\ tree[i].hooks = s.hooks BY <2>1
    <3> QED BY <1>9, <2>2, <3>1
  <2>4. ASSUME NEW k \in DOMAIN tree[i].cases
        PROVE  LET c == tree[i].cases[k]
               IN /\ RowsMatch(c.stepRows, c.steps)
                  /\ RowsMatch(c.nodeRows, c.flow)
                  /\ \A j \in DOMAIN c.steps :
                       c.stepRows[j].assertions = c.steps[j].assertions
    <3> DEFINE c == tree[i].cases[k]
               flow == s.cases[k].flow
    <3>1. k \in DOMAIN s.cases
          /\ c = [flow |-> flow, nodeRows |-> flow, steps |-> StepsOf(flow), stepRows |-> StepsOf(flow)]
      BY <2>1, <2>4
    <3>2. RowsMatch(StepsOf(flow), StepsOf(flow)) /\ RowsMatch(flow, flow) BY <1>9, <2>2, <3>1
    <3> HIDE DEF c, flow
    <3>3. c.stepRows = c.steps /\ c.steps = StepsOf(flow) /\ c.nodeRows = flow /\ c.flow = flow
      BY <3>1
    <3>4. RowsMatch(c.stepRows, c.steps) /\ RowsMatch(c.nodeRows, c.flow) BY <3>2, <3>3
    <3> QED BY <3>3, <3>4 DEF c
  <2> QED BY <2>3, <2>4
<1>11. SnapshotReadyRows(tree)
  <2> HIDE DEF tree
  <2> QED BY <1>8, <1>10 DEF SnapshotReadyRows
<1> QED BY <1>1, <1>11, ContentIs

-----------------------------------------------------------------------------
(* The exclusions.                                                         *)

LEMMA ExclusionIs ==
  ASSUME NEW type, NEW suite, NEW m, NEW pos, NEW key, NEW source
  PROVE  LET x == Exclusion(type, suite, m, pos, key, source)
         IN /\ x.type = type /\ x.suite = suite /\ x.pos = pos
            /\ x.key = key /\ x.source = source
BY DEF Exclusion

\* The exclusions of one case: its skipped nodes, and itself when none is left.
LEMMA CaseExclusions ==
  ASSUME NEW layout, NEW defs, NEW rules, NEW target, NEW suite, NEW m, NEW pos, NEW x
  PROVE  LET steps == SelectSteps(layout.flow[m.case], target)
         IN x \in ResolveCase(layout, defs, rules, target, suite, m, pos).exclusions <=>
              \/ \E q \in DOMAIN steps :
                   /\ NodeSkipped(rules, m, steps[q])
                   /\ x = Exclusion(steps[q].kind, suite, m, pos, steps[q].key, "direct")
              \/ /\ KeptSteps(layout, rules, target, m) = <<>>
                 /\ x = Exclusion("case", suite, m, pos, NoKey, "empty")
<1> DEFINE steps == SelectSteps(layout.flow[m.case], target)
           skips == Skips(layout, rules, target, m)
           kept  == KeptSteps(layout, rules, target, m)
           left  == {Exclusion(steps[i].kind, suite, m, pos, steps[i].key, "direct") : i \in skips}
<1>1. ResolveCase(layout, defs, rules, target, suite, m, pos).exclusions
        = left \cup EmptyCase(kept, suite, m, pos)
  BY CaseIs
<1>2. \A q : q \in skips <=> q \in DOMAIN steps /\ NodeSkipped(rules, m, steps[q])
  BY DEF Skips
<1> HIDE DEF steps, skips, kept
<1>3. x \in left <=> \E q \in skips :
        x = Exclusion(steps[q].kind, suite, m, pos, steps[q].key, "direct")
  OBVIOUS
<1>4. x \in EmptyCase(kept, suite, m, pos)
        <=> kept = <<>> /\ x = Exclusion("case", suite, m, pos, NoKey, "empty")
  BY DEF EmptyCase
<1> HIDE DEF left
<1>5. x \in ResolveCase(layout, defs, rules, target, suite, m, pos).exclusions <=>
        \/ \E q \in DOMAIN steps :
             /\ NodeSkipped(rules, m, steps[q])
             /\ x = Exclusion(steps[q].kind, suite, m, pos, steps[q].key, "direct")
        \/ kept = <<>> /\ x = Exclusion("case", suite, m, pos, NoKey, "empty")
  BY <1>1, <1>2, <1>3, <1>4
<1> QED BY <1>5 DEF steps, kept

LEMMA ResultsAre ==
  ASSUME NEW layout, NEW defs, NEW rules, NEW target, NEW s, NEW i
  PROVE  /\ i \in DOMAIN Results(layout, defs, rules, target, s) <=>
              /\ i \in DOMAIN s.members /\ s.members[i].case \in DOMAIN layout.flow
              /\ s.virtual \/ s.members[i].id \notin rules.members
         /\ i \in DOMAIN Results(layout, defs, rules, target, s) =>
              Results(layout, defs, rules, target, s)[i]
                = ResolveCase(layout, defs, rules, target, s.suite, s.members[i], i)
BY DEF Results, Wanted

\* An exclusion names its suite, and whether it is of a case or of a node.
LEMMA SuiteExclusions ==
  ASSUME NEW layout, LayoutStands(layout), NEW defs, NEW rules, NEW target,
         NEW s, SpecStands(layout, s), s.virtual \/ s.suite \in ToSet(layout.suites),
         NEW x \in BuildSuite(layout, defs, rules, target, s).exclusions
  PROVE  /\ x.suite = s.suite
         /\ \/ x.type \in {"suite", "suite_step"}
            \/ /\ x.type = "case" /\ x.source = "empty"
            \/ /\ x.type = "case" /\ x.source = "direct" /\ x.key = NoKey
               /\ x.pos \in DOMAIN s.members
               /\ s.members[x.pos].case \in DOMAIN layout.flow
               /\ x.pos \notin DOMAIN Results(layout, defs, rules, target, s)
            \/ /\ x.pos \in DOMAIN Results(layout, defs, rules, target, s)
               /\ <<x.type, s.members[x.pos].id, x.key>> \in rules.nodes
               /\ x.type \in {"action", "assertion"}
<1> DEFINE suite   == BuildSuite(layout, defs, rules, target, s)
           results == Results(layout, defs, rules, target, s)
           hooks   == KeptHooks(rules, s.suite, AllHooks(layout, s))
           bound   == SuiteVariables(defs, target, s.suite)
           Goal == /\ x.suite = s.suite
                   /\ \/ x.type \in {"suite", "suite_step"}
                      \/ /\ x.type = "case" /\ x.source = "empty"
                      \/ /\ x.type = "case" /\ x.source = "direct" /\ x.key = NoKey
                         /\ x.pos \in DOMAIN s.members
                         /\ s.members[x.pos].case \in DOMAIN layout.flow
                         /\ x.pos \notin DOMAIN results
                      \/ /\ x.pos \in DOMAIN results
                         /\ <<x.type, s.members[x.pos].id, x.key>> \in rules.nodes
                         /\ x.type \in {"action", "assertion"}
<1> SUFFICES Goal OBVIOUS
<1>1. SuiteStands(layout, s, suite, results, hooks, bound) BY SuiteIs
<1>2. x \in suite.exclusions OBVIOUS
<1> HIDE DEF suite, results, hooks, bound
<1>3. \/ \E n \in ToSet(AllHooks(layout, s)) \ ToSet(hooks) :
           x = Exclusion("suite_step", s.suite, NoOccurrence, 0, n.key, "direct")
      \/ \E i \in DOMAIN s.members \ DOMAIN results :
           /\ s.members[i].case \in DOMAIN layout.flow
           /\ x = Exclusion("case", s.suite, s.members[i], i, NoKey, "direct")
      \/ \E i \in DOMAIN results : x \in results[i].exclusions
      \/ x = Exclusion("suite", s.suite, NoOccurrence, 0, NoKey, "empty")
  BY <1>1, <1>2 DEF SuiteStands
<1>4. CASE \E n \in ToSet(AllHooks(layout, s)) \ ToSet(hooks) :
             x = Exclusion("suite_step", s.suite, NoOccurrence, 0, n.key, "direct")
  BY <1>4, ExclusionIs
<1>5. CASE x = Exclusion("suite", s.suite, NoOccurrence, 0, NoKey, "empty")
  BY <1>5, ExclusionIs
<1>6. CASE \E i \in DOMAIN s.members \ DOMAIN results :
             /\ s.members[i].case \in DOMAIN layout.flow
             /\ x = Exclusion("case", s.suite, s.members[i], i, NoKey, "direct")
  <2>1. PICK i \in DOMAIN s.members \ DOMAIN results :
          /\ s.members[i].case \in DOMAIN layout.flow
          /\ x = Exclusion("case", s.suite, s.members[i], i, NoKey, "direct")
    BY <1>6
  <2>2. x.type = "case" /\ x.suite = s.suite /\ x.pos = i /\ x.key = NoKey /\ x.source = "direct"
    BY <2>1, ExclusionIs
  <2> QED BY <2>1, <2>2 DEF results
<1>7. CASE \E i \in DOMAIN results : x \in results[i].exclusions
  <2>1. PICK i \in DOMAIN results : x \in results[i].exclusions BY <1>7
  <2> DEFINE m     == s.members[i]
             steps == SelectSteps(layout.flow[m.case], target)
  <2>2. /\ m.case \in DOMAIN layout.flow
        /\ x \in ResolveCase(layout, defs, rules, target, s.suite, m, i).exclusions
    BY <2>1, ResultsAre DEF results
  <2>3. \/ \E q \in DOMAIN steps :
             /\ NodeSkipped(rules, m, steps[q])
             /\ x = Exclusion(steps[q].kind, s.suite, m, i, steps[q].key, "direct")
        \/ x = Exclusion("case", s.suite, m, i, NoKey, "empty")
    BY <2>2, CaseExclusions
  <2>4. ToSet(steps) \subseteq ToSet(layout.flow[m.case]) BY <2>2, KeptStepsAre
  <2>5. \A n \in ToSet(layout.flow[m.case]) : n.kind \in {"action", "assertion"}
    BY <2>2 DEF LayoutStands, ToSet
  <2> HIDE DEF steps, m
  <2>6. CASE x = Exclusion("case", s.suite, m, i, NoKey, "empty")
    BY <2>6, ExclusionIs
  <2>7. ASSUME NEW q \in DOMAIN steps, NodeSkipped(rules, m, steps[q]),
               x = Exclusion(steps[q].kind, s.suite, m, i, steps[q].key, "direct")
        PROVE  Goal
    <3>1. x.type = steps[q].kind /\ x.suite = s.suite /\ x.pos = i /\ x.key = steps[q].key
      BY <2>7, ExclusionIs
    <3>2. steps[q] \in ToSet(layout.flow[m.case]) BY <2>4 DEF ToSet
    <3>3. x.type \in {"action", "assertion"} BY <2>5, <3>1, <3>2
    <3>4. <<x.type, m.id, x.key>> \in rules.nodes BY <2>7, <3>1 DEF NodeSkipped
    <3> QED BY <2>1, <3>1, <3>3, <3>4 DEF m
  <2> QED BY <2>3, <2>6, <2>7
<1> QED BY <1>3, <1>4, <1>5, <1>6, <1>7

\* The case and the node of an occurrence that is left out have an exclusion.
LEMMA ExclusionsExist ==
  ASSUME NEW layout, LayoutStands(layout), NEW defs, NEW rules, NEW target,
         NEW s, SpecStands(layout, s), s.virtual \/ s.suite \in ToSet(layout.suites),
         NEW pos \in DOMAIN s.members, s.members[pos].case \in DOMAIN layout.flow,
         NEW n \in ToSet(SelectSteps(layout.flow[s.members[pos].case], target))
  PROVE  LET suite   == BuildSuite(layout, defs, rules, target, s)
             results == Results(layout, defs, rules, target, s)
         IN /\ pos \notin DOMAIN results =>
                 Exclusion("case", s.suite, s.members[pos], pos, NoKey, "direct")
                   \in suite.exclusions
            /\ pos \in DOMAIN results /\ NodeSkipped(rules, s.members[pos], n) =>
                 Exclusion(n.kind, s.suite, s.members[pos], pos, n.key, "direct")
                   \in suite.exclusions
<1> DEFINE suite   == BuildSuite(layout, defs, rules, target, s)
           results == Results(layout, defs, rules, target, s)
           hooks   == KeptHooks(rules, s.suite, AllHooks(layout, s))
           bound   == SuiteVariables(defs, target, s.suite)
           m       == s.members[pos]
           steps   == SelectSteps(layout.flow[m.case], target)
<1>1. SuiteStands(layout, s, suite, results, hooks, bound) BY SuiteIs
<1>2. ASSUME pos \notin DOMAIN results
      PROVE  Exclusion("case", s.suite, m, pos, NoKey, "direct") \in suite.exclusions
  <2> HIDE DEF suite, results, hooks, bound
  <2> QED BY <1>1, <1>2 DEF SuiteStands
<1>3. ASSUME pos \in DOMAIN results, NodeSkipped(rules, m, n)
      PROVE  Exclusion(n.kind, s.suite, m, pos, n.key, "direct") \in suite.exclusions
  <2> DEFINE x == Exclusion(n.kind, s.suite, m, pos, n.key, "direct")
  <2>1. PICK q \in DOMAIN steps : n = steps[q] BY DEF ToSet
  <2> HIDE DEF steps
  <2>2. \E i \in DOMAIN steps :
          /\ NodeSkipped(rules, m, steps[i])
          /\ x = Exclusion(steps[i].kind, s.suite, m, pos, steps[i].key, "direct")
    BY <1>3, <2>1
  <2> HIDE DEF x
  <2>3. x \in ResolveCase(layout, defs, rules, target, s.suite, m, pos).exclusions
    BY <2>2, CaseExclusions DEF steps
  <2>4. x \in results[pos].exclusions BY <1>3, <2>3, ResultsAre
  <2> HIDE DEF suite, results, hooks, bound
  <2>5. x \in suite.exclusions BY <1>1, <1>3, <2>4 DEF SuiteStands
  <2> QED BY <2>5 DEF x
<1> QED BY <1>2, <1>3

LEMMA KeptMembers ==
  ASSUME NEW layout, LayoutStands(layout), NEW rules, NEW target, NEW m,
         m.case \in DOMAIN layout.flow
  PROVE  LET steps == SelectSteps(layout.flow[m.case], target)
         IN /\ ToSet(steps) \subseteq ToSet(layout.flow[m.case])
            /\ \A o : o \in ToSet(KeptSteps(layout, rules, target, m))
                      <=> o \in ToSet(steps) /\ ~ NodeSkipped(rules, m, o)
<1> DEFINE steps == SelectSteps(layout.flow[m.case], target)
           kept  == KeptSteps(layout, rules, target, m)
<1>1. /\ ToSet(steps) \subseteq ToSet(layout.flow[m.case])
      /\ ToSet(kept) = {n \in ToSet(steps) : ~ NodeSkipped(rules, m, n)}
  BY KeptStepsAre
<1> HIDE DEF steps, kept
<1>2. \A o : o \in ToSet(kept) <=> o \in ToSet(steps) /\ ~ NodeSkipped(rules, m, o) BY <1>1
<1> QED BY <1>1, <1>2 DEF steps, kept

\* The nodes that run.
LEMMA RunningNodes ==
  ASSUME NEW layout, LayoutStands(layout), NEW defs, NEW rules, NEW target,
         NEW s, SpecStands(layout, s), s.virtual \/ s.suite \in ToSet(layout.suites),
         NEW pos \in DOMAIN s.members, s.members[pos].case \in DOMAIN layout.flow,
         NEW n \in ToSet(SelectSteps(layout.flow[s.members[pos].case], target))
  PROVE  CaseRuns(BuildSuite(layout, defs, rules, target, s), pos, n.key) <=>
           /\ pos \in DOMAIN Results(layout, defs, rules, target, s)
           /\ ~ NodeSkipped(rules, s.members[pos], n)
<1> DEFINE suite   == BuildSuite(layout, defs, rules, target, s)
           results == Results(layout, defs, rules, target, s)
           hooks   == KeptHooks(rules, s.suite, AllHooks(layout, s))
           bound   == SuiteVariables(defs, target, s.suite)
           m       == s.members[pos]
           steps   == SelectSteps(layout.flow[m.case], target)
           kept    == KeptSteps(layout, rules, target, m)
           vs      == CaseVariables(defs, rules, target, s.suite, m)
           case    == ResolveCase(layout, defs, rules, target, s.suite, m, pos).case
<1>1. SuiteStands(layout, s, suite, results, hooks, bound) BY SuiteIs
<1>2. case.pos = pos /\ case.flow = Snapshot(kept, vs, Places(kept)) BY CaseIs
<1>3. /\ \A o : o \in ToSet(kept) <=> o \in ToSet(steps) /\ ~ NodeSkipped(rules, m, o)
      /\ ToSet(steps) \subseteq ToSet(layout.flow[m.case])
  BY KeptMembers
<1>4. \A o \in ToSet(layout.flow[m.case]) : o.key = n.key => o = n
  <2>1. n \in ToSet(layout.flow[m.case]) BY <1>3
  <2>2. \A i, j \in DOMAIN layout.flow[m.case] :
          layout.flow[m.case][i].key = layout.flow[m.case][j].key => i = j
    BY DEF LayoutStands
  <2> QED BY <2>1, <2>2 DEF ToSet
<1>5. /\ DOMAIN case.flow = DOMAIN kept
      /\ \A i \in DOMAIN kept : case.flow[i].key = kept[i].key
  <2> HIDE DEF case, kept, vs
  <2> QED BY <1>2 DEF Snapshot
<1>6. ASSUME CaseRuns(suite, pos, n.key)
      PROVE  pos \in DOMAIN results /\ ~ NodeSkipped(rules, m, n)
  <2>1. PICK k \in DOMAIN suite.cases :
          /\ suite.cases[k].pos = pos
          /\ \E i \in DOMAIN suite.cases[k].flow : suite.cases[k].flow[i].key = n.key
    BY <1>6 DEF CaseRuns
  <2>2. PICK p \in DOMAIN s.members :
          /\ p \in DOMAIN results
          /\ suite.cases[k] = ResolveCase(layout, defs, rules, target, s.suite, s.members[p], p).case
    BY RunningCase
  <2>3. suite.cases[k].pos = p BY <2>2, CaseIs
  <2>4. p = pos /\ suite.cases[k] = case BY <2>1, <2>2, <2>3
  <2> HIDE DEF suite, case, kept, steps, results
  <2>5. PICK i \in DOMAIN kept : kept[i].key = n.key BY <1>5, <2>1, <2>4
  <2>6. kept[i] \in ToSet(kept) BY DEF ToSet
  <2>7. kept[i] = n /\ ~ NodeSkipped(rules, m, kept[i]) BY <1>3, <1>4, <2>5, <2>6
  <2> QED BY <2>2, <2>4, <2>7
<1>7. ASSUME pos \in DOMAIN results, ~ NodeSkipped(rules, m, n)
      PROVE  CaseRuns(suite, pos, n.key)
  <2>1. n \in ToSet(kept) BY <1>3, <1>7
  <2>2. PICK i \in DOMAIN kept : kept[i] = n BY <2>1 DEF ToSet
  <2>3. results[pos].case = case BY <1>7, ResultsAre
  <2> HIDE DEF suite, case, kept, steps, results, hooks, bound
  <2>4. i \in DOMAIN case.flow /\ case.flow[i].key = n.key BY <1>5, <2>2
  <2>5. case.flow # <<>>
    <3>1. DOMAIN <<>> = {} OBVIOUS
    <3> QED BY <2>4, <3>1
  <2>6. pos \in Running(results) BY <1>7, <2>3, <2>5 DEF Running
  <2>7. ~ suite.na BY <1>1, <2>6 DEF SuiteStands
  <2>8. case \in ToSet(suite.cases) BY <1>1, <2>3, <2>6 DEF SuiteStands
  <2>9. PICK k \in DOMAIN suite.cases : suite.cases[k] = case BY <2>8 DEF ToSet
  <2> QED BY <1>2, <2>4, <2>7, <2>9 DEF CaseRuns
<1> QED BY <1>6, <1>7

LEMMA LiveSuite ==
  ASSUME NEW layout, NEW defs, NEW rules, NEW target, NEW s,
         NEW x \in BuildSuite(layout, defs, rules, target, s).exclusions, x.type # "suite"
  PROVE  s.virtual \/ s.suite \in ToSet(layout.suites)
<1> SUFFICES ASSUME ~ (s.virtual \/ s.suite \in ToSet(layout.suites)) PROVE FALSE OBVIOUS
<1>1. ~ s.virtual /\ s.suite \notin ToSet(layout.suites) OBVIOUS
<1>2. BuildSuite(layout, defs, rules, target, s).exclusions
        = {Exclusion("suite", s.suite, NoOccurrence, 0, NoKey, "direct")}
  BY <1>1 DEF BuildSuite
<1>3. x = Exclusion("suite", s.suite, NoOccurrence, 0, NoKey, "direct") BY <1>2
<1> QED BY <1>3, ExclusionIs

\* Every node of the target runs or is left out by a rule, and never both.
LEMMA ExecutedAreAccounted == Executed \subseteq AccountedContents
<1> SUFFICES ASSUME NEW e \in Executed, NEW j \in DOMAIN SpecsFor(e),
                    ~ Gone(e, SpecsFor(e)[j]),
                    NEW pos \in DOMAIN SpecsFor(e)[j].members,
                    SpecsFor(e)[j].members[pos].case \in DOMAIN LayoutFor(e).flow,
                    NEW n \in ToSet(SelectSteps(LayoutFor(e).flow[SpecsFor(e)[j].members[pos].case],
                                                TargetFor(e)))
             PROVE  LET s == SpecsFor(e)[j]
                        m == s.members[pos]
                        caseOut == LeftOut(e, {"case"}, s, pos, NoKey)
                        nodeOut == LeftOut(e, {n.kind}, s, pos, n.key)
                        runs    == CaseRuns(Content(e).suites[j], pos, n.key)
                    IN /\ caseOut <=> ~ s.virtual /\ m.id \in RulesFor(e).members
                       /\ nodeOut <=> ~ caseOut /\ <<n.kind, m.id, n.key>> \in RulesFor(e).nodes
                       /\ runs <=> ~ caseOut /\ ~ nodeOut
  BY DEF AccountedContents, Accounted
<1> DEFINE layout == LayoutFor(e)
           defs   == VarsFor(e)
           rules  == RulesFor(e)
           target == TargetFor(e)
           specs  == SpecsFor(e)
           s      == specs[j]
           m      == s.members[pos]
           resolved == pos \in DOMAIN Results(layout, defs, rules, target, s)
<1>1. /\ LayoutStands(layout)
      /\ \A i \in DOMAIN specs : SpecStands(layout, specs[i])
      /\ \A i, k \in DOMAIN specs :
           specs[i].suite = specs[k].suite =>
             specs[i].members = specs[k].members /\ specs[i].virtual = specs[k].virtual
  BY InputsOf DEF Executed
<1>2. s.virtual \/ s.suite \in ToSet(layout.suites) BY DEF Gone
<1>3. resolved <=> s.virtual \/ m.id \notin rules.members BY ResultsAre
<1>4. n.kind \in {"action", "assertion"}
  <2>1. n \in ToSet(layout.flow[m.case]) BY <1>1, KeptStepsAre
  <2> QED BY <1>1, <2>1 DEF LayoutStands, ToSet
    \* An exclusion with this suite's id comes from a suite of the same members.
<1>5. ASSUME NEW x \in Content(e).exclusions, x.suite = s.suite, x.pos = pos,
             x.source = "direct", x.type \in {"case", "action", "assertion"}
      PROVE  /\ x.type = "case" => ~ resolved
             /\ x.type # "case" => resolved /\ <<x.type, m.id, x.key>> \in rules.nodes
  <2>1. PICK i \in DOMAIN specs : x \in Build(e, i).exclusions BY ExecutedIs
  <2> DEFINE t == specs[i]
  <2>2. x \in BuildSuite(layout, defs, rules, target, t).exclusions BY <2>1 DEF Build
  <2>3. SpecStands(layout, t) BY <1>1
  <2>0. t.suite = s.suite => t.members = s.members /\ t.virtual = s.virtual BY <1>1
  <2> HIDE DEF layout, defs, rules, target, specs, s
  <2>4. t.virtual \/ t.suite \in ToSet(layout.suites)
    BY <1>5, <2>2, LiveSuite
  <2>5. /\ x.suite = t.suite
        /\ \/ x.type \in {"suite", "suite_step"}
           \/ /\ x.type = "case" /\ x.source = "empty"
           \/ /\ x.type = "case" /\ x.source = "direct" /\ x.key = NoKey
              /\ x.pos \in DOMAIN t.members
              /\ t.members[x.pos].case \in DOMAIN layout.flow
              /\ x.pos \notin DOMAIN Results(layout, defs, rules, target, t)
           \/ /\ x.pos \in DOMAIN Results(layout, defs, rules, target, t)
              /\ <<x.type, t.members[x.pos].id, x.key>> \in rules.nodes
              /\ x.type \in {"action", "assertion"}
    BY <1>1, <2>2, <2>3, <2>4, SuiteExclusions
  <2>6. t.members = s.members /\ t.virtual = s.virtual BY <1>5, <2>0, <2>5
  <2>7. pos \in DOMAIN Results(layout, defs, rules, target, t) <=> resolved
    BY <2>6, ResultsAre
  <2>8. \/ x.type = "case" /\ pos \notin DOMAIN Results(layout, defs, rules, target, t)
        \/ /\ pos \in DOMAIN Results(layout, defs, rules, target, t)
           /\ <<x.type, t.members[pos].id, x.key>> \in rules.nodes
           /\ x.type \in {"action", "assertion"}
    BY <1>5, <2>5
  <2> HIDE DEF t, resolved
  <2> QED BY <2>6, <2>7, <2>8
<1>6. /\ Content(e).suites[j] = BuildSuite(layout, defs, rules, target, s)
      /\ \A x \in BuildSuite(layout, defs, rules, target, s).exclusions : x \in Content(e).exclusions
  BY ExecutedIs DEF Build
<1>7. LeftOut(e, {"case"}, s, pos, NoKey) <=> ~ resolved
  <2>1. ASSUME LeftOut(e, {"case"}, s, pos, NoKey) PROVE ~ resolved
    BY <1>5, <2>1 DEF LeftOut
  <2>2. ASSUME ~ resolved PROVE LeftOut(e, {"case"}, s, pos, NoKey)
    <3> DEFINE x == Exclusion("case", s.suite, m, pos, NoKey, "direct")
    <3>1. x \in Content(e).exclusions BY <1>1, <1>2, <1>6, <2>2, ExclusionsExist
    <3>2. x.type = "case" /\ x.source = "direct" /\ x.suite = s.suite /\ x.pos = pos /\ x.key = NoKey
      BY ExclusionIs
    <3> HIDE DEF x
    <3> QED BY <3>1, <3>2 DEF LeftOut
  <2> QED BY <2>1, <2>2
<1>8. LeftOut(e, {n.kind}, s, pos, n.key)
        <=> resolved /\ <<n.kind, m.id, n.key>> \in rules.nodes
  <2>1. ASSUME LeftOut(e, {n.kind}, s, pos, n.key)
        PROVE  resolved /\ <<n.kind, m.id, n.key>> \in rules.nodes
    <3>1. PICK x \in Content(e).exclusions :
            x.type = n.kind /\ x.source = "direct" /\ x.suite = s.suite /\ x.pos = pos /\ x.key = n.key
      BY <2>1 DEF LeftOut
    <3> HIDE DEF resolved, s, rules, m
    <3> QED BY <1>4, <1>5, <3>1
  <2>2. ASSUME resolved, <<n.kind, m.id, n.key>> \in rules.nodes
        PROVE  LeftOut(e, {n.kind}, s, pos, n.key)
    <3> DEFINE x == Exclusion(n.kind, s.suite, m, pos, n.key, "direct")
    <3>0. NodeSkipped(rules, m, n) BY <2>2 DEF NodeSkipped
    <3>1. x \in Content(e).exclusions BY <1>1, <1>2, <1>6, <2>2, <3>0, ExclusionsExist
    <3>2. x.type = n.kind /\ x.source = "direct" /\ x.suite = s.suite /\ x.pos = pos /\ x.key = n.key
      BY ExclusionIs
    <3> HIDE DEF x
    <3> QED BY <3>1, <3>2 DEF LeftOut
  <2> QED BY <2>1, <2>2
<1>9. CaseRuns(Content(e).suites[j], pos, n.key)
        <=> resolved /\ ~ <<n.kind, m.id, n.key>> \in rules.nodes
  <2>1. CaseRuns(BuildSuite(layout, defs, rules, target, s), pos, n.key)
          <=> resolved /\ ~ NodeSkipped(rules, m, n)
    BY <1>1, <1>2, RunningNodes
  <2> QED BY <1>6, <2>1 DEF NodeSkipped
<1> HIDE DEF resolved, rules, s, m
<1>10. /\ LeftOut(e, {"case"}, s, pos, NoKey) <=> ~ s.virtual /\ m.id \in rules.members
       /\ LeftOut(e, {n.kind}, s, pos, n.key) <=>
            ~ LeftOut(e, {"case"}, s, pos, NoKey) /\ <<n.kind, m.id, n.key>> \in rules.nodes
       /\ CaseRuns(Content(e).suites[j], pos, n.key) <=>
            ~ LeftOut(e, {"case"}, s, pos, NoKey) /\ ~ LeftOut(e, {n.kind}, s, pos, n.key)
  BY <1>3, <1>7, <1>8, <1>9
<1> QED BY <1>10 DEF s, m, rules
-----------------------------------------------------------------------------
(* Sums and lengths as counts.                                             *)

\* f is the function that a sum of g over the subsets of S chooses.
Sums(f, g, S) ==
  f = [s \in SUBSET S |-> IF s = {} THEN 0
                          ELSE g[CHOOSE x \in s : TRUE] + f[s \ {CHOOSE x \in s : TRUE}]]

\* The pairs of a member of S and a member of its set.
Pairs(A, S) == {p \in S \X UNION {A[i] : i \in S} : p[2] \in A[p[1]]}

LEMMA PairsAre ==
  ASSUME NEW A, NEW S
  PROVE  /\ \A i \in S : \A x \in A[i] : <<i, x>> \in Pairs(A, S)
         /\ \A p \in Pairs(A, S) : p = <<p[1], p[2]>> /\ p[1] \in S /\ p[2] \in A[p[1]]
BY DEF Pairs

\* One more member adds as many pairs as its set has members.
LEMMA OnePairSet ==
  ASSUME NEW A, NEW S, NEW x \in S, IsFiniteSet(A[x]), IsFiniteSet(Pairs(A, S \ {x}))
  PROVE  /\ IsFiniteSet(Pairs(A, S))
         /\ Cardinality(Pairs(A, S)) = Cardinality(A[x]) + Cardinality(Pairs(A, S \ {x}))
<1> DEFINE new == {x} \X A[x]
           old == Pairs(A, S \ {x})
<1>1. IsFiniteSet(new) /\ Cardinality(new) = Cardinality(A[x])
  <2>1. IsFiniteSet({x}) /\ Cardinality({x}) = 1 BY FS_Singleton
  <2>2. IsFiniteSet(new) /\ Cardinality(new) = 1 * Cardinality(A[x]) BY <2>1, FS_Product
  <2>3. Cardinality(A[x]) \in Nat BY FS_CardinalityType
  <2> QED BY <2>2, <2>3
<1>2. new \cap old = {} BY PairsAre
<1>3. Pairs(A, S) = new \cup old
  <2>1. ASSUME NEW p \in Pairs(A, S) PROVE p \in new \cup old
    <3>1. p = <<p[1], p[2]>> /\ p[1] \in S /\ p[2] \in A[p[1]] BY <2>1, PairsAre
    <3>2. CASE p[1] = x BY <3>1, <3>2
    <3>3. CASE p[1] # x
      <4>1. p[1] \in S \ {x} BY <3>1, <3>3
      <4> QED BY <3>1, <4>1, PairsAre
    <3> QED BY <3>2, <3>3
  <2>2. \A p \in new : p \in Pairs(A, S)
    <3>1. \A y \in A[x] : <<x, y>> \in Pairs(A, S) BY PairsAre
    <3> QED BY <3>1
  <2>3. ASSUME NEW p \in old PROVE p \in Pairs(A, S)
    <3>1. p = <<p[1], p[2]>> /\ p[1] \in S \ {x} /\ p[2] \in A[p[1]] BY <2>3, PairsAre
    <3> QED BY <3>1, PairsAre
  <2> HIDE DEF new, old
  <2> QED BY <2>1, <2>2, <2>3
<1>4. Cardinality({}) = 0 BY FS_EmptySet
<1>5. Cardinality(new) \in Nat /\ Cardinality(old) \in Nat BY <1>1, FS_CardinalityType
<1> HIDE DEF new, old
<1>6. IsFiniteSet(old) BY DEF old
<1>7. /\ IsFiniteSet(new \cup old)
      /\ Cardinality(new \cup old)
           = Cardinality(new) + Cardinality(old) - Cardinality(new \cap old)
  BY <1>1, <1>6, FS_Union
<1>8. Cardinality(new \cup old) = Cardinality(new) + Cardinality(old)
  <2>1. Cardinality(new \cap old) = 0 BY <1>2, <1>4, Zenon
  <2> QED BY <1>5, <1>7, <2>1
<1>9. Cardinality(new \cup old) = Cardinality(A[x]) + Cardinality(old) BY <1>1, <1>8
<1>10. IsFiniteSet(Pairs(A, S)) /\ Cardinality(Pairs(A, S)) = Cardinality(A[x]) + Cardinality(old)
  BY <1>3, <1>7, <1>9
<1> QED BY <1>10 DEF old

\* Whatever function gives the sums of sizes, it counts the pairs.
LEMMA SumCounts ==
  ASSUME NEW S, IsFiniteSet(S), NEW A, \A i \in S : IsFiniteSet(A[i]), NEW g,
         \A i \in S : g[i] = Cardinality(A[i]), NEW f, Sums(f, g, S)
  PROVE  \A s \in SUBSET S : IsFiniteSet(Pairs(A, s)) /\ f[s] = Cardinality(Pairs(A, s))
<1> DEFINE Good(s) == IsFiniteSet(Pairs(A, s)) /\ f[s] = Cardinality(Pairs(A, s))
           Bad == {n \in Nat : \E s \in SUBSET S : Cardinality(s) = n /\ ~ Good(s)}
<1>1. \A s \in SUBSET S : IsFiniteSet(s) /\ Cardinality(s) \in Nat
  BY FS_Subset, FS_CardinalityType
<1>2. ASSUME NEW n \in Bad, \A m \in Bad : n <= m PROVE FALSE
  <2>1. PICK s \in SUBSET S : Cardinality(s) = n /\ ~ Good(s) BY <1>2
  <2>2. f[s] = IF s = {} THEN 0
               ELSE g[CHOOSE x \in s : TRUE] + f[s \ {CHOOSE x \in s : TRUE}]
    BY DEF Sums
  <2>3. CASE s = {}
    <3>1. Pairs(A, s) = {} BY <2>3, PairsAre
    <3> QED BY <2>1, <2>2, <2>3, <3>1, FS_EmptySet
  <2>4. CASE s # {}
    <3>1. PICK x \in s : x = CHOOSE y \in s : TRUE BY <2>4
    <3>2. f[s] = Cardinality(A[x]) + f[s \ {x}] BY <2>2, <2>4, <3>1
    <3>3. s \ {x} \in SUBSET S /\ Cardinality(s \ {x}) = n - 1
      BY <1>1, <2>1, <3>1, FS_RemoveElement
    <3>4. n \in Nat /\ n - 1 \in Nat
      <4>1. Cardinality(s \ {x}) \in Nat BY <1>1, <3>3
      <4> QED BY <1>1, <2>1, <3>3, <4>1
    <3>5. n - 1 \notin Bad BY <1>2, <3>4
    <3>6. Good(s \ {x}) BY <3>3, <3>4, <3>5
    <3>7. Good(s) BY <3>2, <3>6, OnePairSet
    <3> QED BY <2>1, <3>7
  <2> QED BY <2>3, <2>4
<1>3. Bad = {}
  <2>1. Bad \in SUBSET Nat OBVIOUS
  <2> HIDE DEF Bad
  <2> QED BY <1>2, <2>1, NatLeast
<1> SUFFICES ASSUME NEW s \in SUBSET S, ~ Good(s) PROVE FALSE OBVIOUS
<1>4. Cardinality(s) \in Bad BY <1>1
<1> QED BY <1>3, <1>4

\* There is such a function.
LEMMA SumExists ==
  ASSUME NEW S, IsFiniteSet(S), NEW A, \A i \in S : IsFiniteSet(A[i]), NEW g,
         \A i \in S : g[i] = Cardinality(A[i])
  PROVE  \E f : Sums(f, g, S)
<1> DEFINE f == [s \in SUBSET S |-> Cardinality(Pairs(A, s))]
<1>1. \A s \in SUBSET S : IsFiniteSet(Pairs(A, s))
  <2>1. UNION {A[i] : i \in S} = UNION {A[i] : i \in S} /\ IsFiniteSet(UNION {A[i] : i \in S})
    <3> DEFINE T == {A[i] : i \in S}
               h == [i \in S |-> A[i]]
    <3>1. h \in Surjection(S, T) BY DEF Surjection
    <3>2. \A t \in T : IsFiniteSet(t) OBVIOUS
    <3> HIDE DEF T, h
    <3>3. IsFiniteSet(T) BY <3>1, FS_Surjection
    <3>4. IsFiniteSet(UNION T) BY <3>2, <3>3, FS_UNION
    <3> QED BY <3>4 DEF T
  <2> DEFINE U == UNION {A[i] : i \in S}
  <2>2. IsFiniteSet(S \X U) BY <2>1, FS_Product
  <2>3. ASSUME NEW s \in SUBSET S PROVE Pairs(A, s) \in SUBSET (S \X U)
    <3>1. \A p \in Pairs(A, s) : p = <<p[1], p[2]>> /\ p[1] \in S /\ p[2] \in A[p[1]]
      BY PairsAre
    <3> QED BY <3>1
  <2> HIDE DEF U
  <2> QED BY <2>2, <2>3, FS_Subset
<1>2. ASSUME NEW s \in SUBSET S
      PROVE  f[s] = IF s = {} THEN 0
                    ELSE g[CHOOSE x \in s : TRUE] + f[s \ {CHOOSE x \in s : TRUE}]
  <2>1. CASE s = {}
    <3>1. Pairs(A, s) = {} BY <2>1, PairsAre
    <3> QED BY <2>1, <3>1, FS_EmptySet
  <2>2. CASE s # {}
    <3>1. PICK x \in s : x = CHOOSE y \in s : TRUE BY <2>2
    <3>2. IsFiniteSet(A[x]) /\ g[x] = Cardinality(A[x]) /\ s \ {x} \in SUBSET S BY <3>1
    <3>3. f[s] = g[x] + f[s \ {x}] BY <1>1, <3>2, OnePairSet
    <3> QED BY <2>2, <3>1, <3>3
  <2> QED BY <2>1, <2>2
<1>3. f = [s \in SUBSET S |-> f[s]] OBVIOUS
<1> HIDE DEF f
<1>4. [s \in SUBSET S |-> f[s]]
        = [s \in SUBSET S |-> IF s = {} THEN 0
             ELSE g[CHOOSE x \in s : TRUE] + f[s \ {CHOOSE x \in s : TRUE}]]
  BY <1>2
<1>5. Sums(f, g, S) BY <1>3, <1>4 DEF Sums
<1> QED BY <1>5

\* The length of sequences of at most one member, joined.
LEMMA FlattenLength ==
  ASSUME NEW M, NEW seqs \in Seq(Seq(M)),
         \A i \in DOMAIN seqs : seqs[i] = <<>> \/ \E x \in M : seqs[i] = <<x>>
  PROVE  Len(FlattenSeq(seqs)) = Cardinality({i \in DOMAIN seqs : seqs[i] # <<>>})
<1> DEFINE n == Len(seqs)
           Full(k) == {i \in 1 .. k : seqs[i] # <<>>}
<1>0. n \in Nat /\ DOMAIN seqs = 1 .. n OBVIOUS
<1>1. CASE n = 0
  <2>1. FlattenSeq(seqs) = <<>> /\ seqs = <<>> BY <1>1 DEF FlattenSeq
  <2>2. {i \in DOMAIN seqs : seqs[i] # <<>>} = {} BY <2>1
  <2>3. Len(<<>>) = 0 OBVIOUS
  <2> QED BY <2>1, <2>2, <2>3, FS_EmptySet
<1>2. CASE n # 0
  <2> DEFINE h == CHOOSE f : f = [i \in 1 .. n |-> IF i = 1 THEN seqs[i] ELSE f[i-1] \o seqs[i]]
  <2>0. n \in Nat \ {0} BY <1>0, <1>2
  <2>1. FlattenSeq(seqs) = h[n] BY <1>2 DEF FlattenSeq
  <2>2. h = [i \in 1 .. n |-> IF i = 1 THEN seqs[i] ELSE h[i-1] \o seqs[i]]
    <3>1. \E f : f = [i \in 1 .. n |-> IF i = 1 THEN seqs[i] ELSE f[i-1] \o seqs[i]]
      BY <1>0, FlattenExists DEF Flattens
    <3> QED BY <3>1
  <2> HIDE DEF h
  <2>3. \A k \in 1 .. n : h[k] = IF k = 1 THEN seqs[k] ELSE h[k-1] \o seqs[k] BY <2>2
  <2>4. \A k \in 1 .. n : seqs[k] \in Seq(M) /\ (seqs[k] = <<>> \/ \E x \in M : seqs[k] = <<x>>)
    BY <1>0
  <2>5. \A k \in 0 .. n : IsFiniteSet(Full(k))
    <3> SUFFICES ASSUME NEW k \in 0 .. n PROVE IsFiniteSet(Full(k)) OBVIOUS
    <3>1. IsFiniteSet(1 .. k) BY <1>0, FS_Interval
    <3> QED BY <3>1, FS_Subset
  <2>6. Cardinality(Full(0)) = 0
    <3>1. Full(0) = {} OBVIOUS
    <3> QED BY <3>1, FS_EmptySet
  <2>7. ASSUME NEW k \in 1 .. n PROVE Cardinality(Full(k)) = Cardinality(Full(k - 1)) + Len(seqs[k])
    <3>1. k - 1 \in 0 .. n /\ k \notin Full(k - 1) BY <1>0
    <3>2. IsFiniteSet(Full(k - 1)) /\ Cardinality(Full(k - 1)) \in Nat
      BY <2>5, <3>1, FS_CardinalityType
    <3>3. CASE seqs[k] = <<>>
      <4>1. Full(k) = Full(k - 1) BY <1>0, <3>3
      <4>2. Len(seqs[k]) = 0 BY <3>3
      <4> HIDE DEF Full
      <4> QED BY <3>2, <4>1, <4>2
    <3>4. ASSUME NEW x \in M, seqs[k] = <<x>> PROVE Cardinality(Full(k)) = Cardinality(Full(k - 1)) + Len(seqs[k])
      <4>1. Len(seqs[k]) = 1 /\ seqs[k] # <<>> BY <3>4
      <4>2. Full(k) = Full(k - 1) \cup {k} BY <1>0, <4>1
      <4>3. Cardinality(Full(k - 1) \cup {k}) = Cardinality(Full(k - 1)) + 1
        BY <3>1, <3>2, FS_AddElement
      <4> QED BY <4>1, <4>2, <4>3
    <3> QED BY <2>4, <3>3, <3>4
  <2> DEFINE Counted(k) == h[k] \in Seq(M) /\ Len(h[k]) = Cardinality(Full(k))
             Bad == {k \in 1 .. n : ~ Counted(k)}
  <2>8. ASSUME NEW k \in 1 .. n, k = 1 \/ Counted(k - 1) PROVE Counted(k)
    <3>1. CASE k = 1
      <4>1. h[k] = seqs[k] BY <2>3, <3>1
      <4>2. Cardinality(Full(k)) = Cardinality(Full(k - 1)) + Len(seqs[k]) BY <2>7
      <4>3. seqs[k] \in Seq(M) /\ Len(seqs[k]) \in Nat BY <2>4
      <4>4. k - 1 = 0 BY <3>1
      <4> HIDE DEF Full
      <4>5. Cardinality(Full(k)) = Len(seqs[k]) BY <2>6, <4>2, <4>3, <4>4
      <4> QED BY <4>1, <4>3, <4>5 DEF Counted
    <3>2. CASE k # 1
      <4>1. h[k] = h[k-1] \o seqs[k] BY <2>3, <3>2
      <4>2. h[k-1] \in Seq(M) /\ Len(h[k-1]) = Cardinality(Full(k-1)) BY <2>8, <3>2
      <4>3. seqs[k] \in Seq(M) BY <2>4
      <4>4. ASSUME NEW s \in Seq(M), NEW t \in Seq(M)
            PROVE  s \o t \in Seq(M) /\ Len(s \o t) = Len(s) + Len(t)
        OBVIOUS
      <4>5. h[k] \in Seq(M) /\ Len(h[k]) = Len(h[k-1]) + Len(seqs[k]) BY <4>1, <4>2, <4>3, <4>4
      <4>6. Cardinality(Full(k)) = Cardinality(Full(k - 1)) + Len(seqs[k]) BY <2>7
      <4> HIDE DEF Full
      <4> QED BY <4>2, <4>5, <4>6 DEF Counted
    <3> QED BY <3>1, <3>2
  <2> HIDE DEF Counted
  <2>9. ASSUME NEW k \in Bad, \A m \in Bad : k <= m PROVE FALSE
    <3>1. k \in 1 .. n /\ ~ Counted(k) BY <2>9
    <3>2. k = 1 \/ (k - 1 \in 1 .. n /\ k - 1 \notin Bad) BY <2>9, <3>1, <1>0
    <3> QED BY <2>8, <3>1, <3>2
  <2>10. Bad = {}
    <3>1. Bad \in SUBSET Nat BY <1>0
    <3> HIDE DEF Bad
    <3> QED BY <2>9, <3>1, NatLeast
  <2>11. Counted(n)
    <3>1. n \in 1 .. n BY <2>0
    <3> HIDE DEF n
    <3> QED BY <2>10, <3>1
  <2>12. Len(h[n]) = Cardinality(Full(n)) BY <2>11 DEF Counted
  <2> HIDE DEF h
  <2> QED BY <1>0, <2>1, <2>12
<1> QED BY <1>1, <1>2

-----------------------------------------------------------------------------
(* The summary.                                                            *)

RunIn(suites, D)  == {j \in D : ~ suites[j].na}
IdleIn(suites, D) == {j \in D : suites[j].na}
OfType(exclusions, type) == {x \in exclusions : x.type = type}
Alone(exclusions)   == {x \in exclusions : x.suite = NoSuite}
InSuite(exclusions) == {x \in exclusions : x.suite # NoSuite}
SumOfMembers(specs, S) == MapThenSumSet(LAMBDA i : Len(specs[i].members), S)
SumOfCases(suites, S)  == MapThenSumSet(LAMBDA i : Len(suites[i].cases), S)

LEMMA SummaryIs ==
  ASSUME NEW specs, NEW suites, NEW exclusions, NEW D, DOMAIN suites = D
  PROVE  LET n == Summary(specs, suites, exclusions)
         IN /\ n.source_suites = Len(specs)
            /\ n.source_cases = SumOfMembers(specs, DOMAIN specs)
            /\ n.executable_suites = Cardinality(RunIn(suites, D))
            /\ n.executable_cases = SumOfCases(suites, RunIn(suites, D))
            /\ n.na_suites = Cardinality(OfType(exclusions, "suite"))
            /\ n.na_cases = Cardinality(Alone(OfType(exclusions, "case")))
            /\ n.na_suite_cases = Cardinality(InSuite(OfType(exclusions, "case")))
BY DEF Summary, RunIn, OfType, Alone, InSuite, SumOfMembers, SumOfCases

\* A suite has as many cases that run as occurrences that keep a node.
LEMMA CasesAreCounted ==
  ASSUME NEW layout, LayoutStands(layout), NEW defs, NEW rules, NEW target,
         NEW s, SpecStands(layout, s), s.virtual \/ s.suite \in ToSet(layout.suites)
  PROVE  Len(BuildSuite(layout, defs, rules, target, s).cases)
           = Cardinality(Running(Results(layout, defs, rules, target, s)))
<1> DEFINE results == Results(layout, defs, rules, target, s)
           live == Running(results)
           seqs == [i \in DOMAIN s.members |-> IF i \in live THEN <<results[i].case>> ELSE <<>>]
           M    == {results[i].case : i \in live}
<1>1. BuildSuite(layout, defs, rules, target, s).cases = FlattenSeq(seqs)
  BY DEF BuildSuite, BuildLiveSuite, SuiteOf, Results, Running
<1>2. live \subseteq DOMAIN s.members BY DEF Results, Running, Wanted
<1>3. DOMAIN s.members = 1 .. Len(s.members) /\ Len(s.members) \in Nat
  BY DomainIsRange DEF SpecStands
<1> HIDE DEF results, live
<1>4. \A i \in live : results[i].case \in M OBVIOUS
<1> HIDE DEF M
<1>5. \A i \in DOMAIN s.members :
        (IF i \in live THEN <<results[i].case>> ELSE <<>>) \in Seq(M)
  BY <1>4
<1>6. /\ seqs \in Seq(Seq(M)) /\ DOMAIN seqs = DOMAIN s.members
      /\ \A i \in DOMAIN s.members : seqs[i] = IF i \in live THEN <<results[i].case>> ELSE <<>>
  BY <1>3, <1>5
<1> HIDE DEF seqs
<1>7. \A i \in DOMAIN seqs : seqs[i] = <<>> \/ \E x \in M : seqs[i] = <<x>> BY <1>4, <1>6
<1>8. {i \in DOMAIN seqs : seqs[i] # <<>>} = live
  <2>1. \A x : <<x>> # <<>> OBVIOUS
  <2> QED BY <1>2, <1>6, <2>1
<1>9. Len(FlattenSeq(seqs)) = Cardinality(live) BY <1>6, <1>7, <1>8, FlattenLength
<1> QED BY <1>1, <1>9 DEF live, results

\* The live cases of a suite that do not run, and the exclusion of each.
Lost(layout, results, s) ==
  {p \in DOMAIN s.members \ Running(results) : s.members[p].case \in DOMAIN layout.flow}

LostAs(results, s, p) ==
  Exclusion("case", s.suite, s.members[p], p, NoKey,
            IF p \in DOMAIN results THEN "empty" ELSE "direct")

LEMMA RunsOrIsEmpty ==
  ASSUME NEW layout, LayoutStands(layout), NEW defs, NEW rules, NEW target, NEW s,
         NEW p \in DOMAIN Results(layout, defs, rules, target, s)
  PROVE  p \notin Running(Results(layout, defs, rules, target, s))
           <=> KeptSteps(layout, rules, target, s.members[p]) = <<>>
<1> DEFINE results == Results(layout, defs, rules, target, s)
           m     == s.members[p]
           kept  == KeptSteps(layout, rules, target, m)
           vs    == CaseVariables(defs, rules, target, s.suite, m)
<1>1. /\ m.case \in DOMAIN layout.flow
      /\ results[p] = ResolveCase(layout, defs, rules, target, s.suite, m, p)
  BY ResultsAre
<1>2. results[p].case.flow = Snapshot(kept, vs, Places(kept)) BY <1>1, CaseIs
<1>3. IsSequence(kept) BY <1>1, KeptStepsAre
<1>4. p \notin Running(results) <=> Snapshot(kept, vs, Places(kept)) = <<>> BY <1>2 DEF Running
<1> HIDE DEF kept, vs, results
<1>5. DOMAIN Snapshot(kept, vs, Places(kept)) = DOMAIN kept BY DEF Snapshot
<1>6. IsSequence(Snapshot(kept, vs, Places(kept))) BY <1>3, SnapshotIsSequence
<1>7. ASSUME NEW q, IsSequence(q) PROVE q = <<>> <=> DOMAIN q = {}
  BY <1>7 DEF IsSequence
<1>8. Snapshot(kept, vs, Places(kept)) = <<>> <=> kept = <<>> BY <1>3, <1>5, <1>6, <1>7
<1> QED BY <1>4, <1>8 DEF kept, results

LEMMA CaseAndSuiteExclusions ==
  ASSUME NEW layout, LayoutStands(layout), NEW defs, NEW rules, NEW target,
         NEW s, SpecStands(layout, s), s.virtual \/ s.suite \in ToSet(layout.suites)
  PROVE  LET suite   == BuildSuite(layout, defs, rules, target, s)
             results == Results(layout, defs, rules, target, s)
         IN \A x : /\ x \in suite.exclusions /\ x.type = "case"
                     <=> \E p \in Lost(layout, results, s) : x = LostAs(results, s, p)
                   /\ x \in suite.exclusions /\ x.type = "suite"
                     <=> /\ Running(results) = {} /\ ~ s.virtual
                         /\ x = Exclusion("suite", s.suite, NoOccurrence, 0, NoKey, "empty")
<1> DEFINE suite   == BuildSuite(layout, defs, rules, target, s)
           results == Results(layout, defs, rules, target, s)
           hooks   == KeptHooks(rules, s.suite, AllHooks(layout, s))
           bound   == SuiteVariables(defs, target, s.suite)
           Direct(x) == \E i \in DOMAIN s.members \ DOMAIN results :
                          /\ s.members[i].case \in DOMAIN layout.flow
                          /\ x = Exclusion("case", s.suite, s.members[i], i, NoKey, "direct")
           Within(x) == \E i \in DOMAIN results : x \in results[i].exclusions
           Whole(x)  == /\ Running(results) = {} /\ ~ s.virtual
                        /\ x = Exclusion("suite", s.suite, NoOccurrence, 0, NoKey, "empty")
           Empty(x)  == \E i \in DOMAIN results \ Running(results) :
                          x = Exclusion("case", s.suite, s.members[i], i, NoKey, "empty")
<1>1. SuiteStands(layout, s, suite, results, hooks, bound) BY SuiteIs
<1>2. /\ DOMAIN results \subseteq DOMAIN s.members
      /\ \A i \in DOMAIN results : s.members[i].case \in DOMAIN layout.flow
  BY ResultsAre
<1>3. Running(results) \subseteq DOMAIN results BY DEF Running
    \* Of the exclusions of one case, that of the case itself.
<1>4. ASSUME NEW x, NEW i \in DOMAIN results
      PROVE  /\ x \in results[i].exclusions /\ x.type # "case" => x.type \in {"action", "assertion"}
             /\ x \in results[i].exclusions /\ x.type = "case" <=>
                  /\ i \notin Running(results)
                  /\ x = Exclusion("case", s.suite, s.members[i], i, NoKey, "empty")
  <2> DEFINE m == s.members[i]
             steps == SelectSteps(layout.flow[m.case], target)
             kept == KeptSteps(layout, rules, target, m)
  <2>1. results[i] = ResolveCase(layout, defs, rules, target, s.suite, m, i) BY ResultsAre
  <2>2. x \in results[i].exclusions <=>
          \/ \E q \in DOMAIN steps :
               /\ NodeSkipped(rules, m, steps[q])
               /\ x = Exclusion(steps[q].kind, s.suite, m, i, steps[q].key, "direct")
          \/ kept = <<>> /\ x = Exclusion("case", s.suite, m, i, NoKey, "empty")
    <3> DEFINE made == ResolveCase(layout, defs, rules, target, s.suite, m, i).exclusions
               Skipped == \E q \in DOMAIN steps :
                            /\ NodeSkipped(rules, m, steps[q])
                            /\ x = Exclusion(steps[q].kind, s.suite, m, i, steps[q].key, "direct")
               Emptied == kept = <<>> /\ x = Exclusion("case", s.suite, m, i, NoKey, "empty")
    <3>1. x \in made => Skipped \/ Emptied BY CaseExclusions
    <3>2. Skipped => x \in made BY CaseExclusions
    <3>3. Emptied => x \in made BY CaseExclusions
    <3>4. results[i].exclusions = made BY <2>1
    <3> HIDE DEF results, made
    <3> QED BY <3>1, <3>2, <3>3, <3>4
  <2>3. ASSUME NEW q \in DOMAIN steps PROVE steps[q].kind \in {"action", "assertion"}
    <3>1. m.case \in DOMAIN layout.flow BY <1>2
    <3>2. ToSet(steps) \subseteq ToSet(layout.flow[m.case]) BY <3>1, KeptStepsAre
    <3>3. steps[q] \in ToSet(layout.flow[m.case]) BY <3>2 DEF ToSet
    <3> QED BY <3>1, <3>3 DEF LayoutStands, ToSet
  <2>4. i \notin Running(results) <=> kept = <<>> BY RunsOrIsEmpty
  <2> HIDE DEF steps, kept, results, m
  <2>5. \A q \in DOMAIN steps :
          x = Exclusion(steps[q].kind, s.suite, m, i, steps[q].key, "direct") =>
            x.type \in {"action", "assertion"}
    BY <2>3, ExclusionIs
  <2>6. Exclusion("case", s.suite, m, i, NoKey, "empty").type = "case" BY ExclusionIs
  <2> QED BY <2>2, <2>4, <2>5, <2>6 DEF m
<1> HIDE DEF suite, results, hooks, bound
<1>5. \A x : x \in suite.exclusions <=>
         \/ \E n \in ToSet(AllHooks(layout, s)) \ ToSet(hooks) :
              x = Exclusion("suite_step", s.suite, NoOccurrence, 0, n.key, "direct")
         \/ Direct(x) \/ Within(x) \/ Whole(x)
  BY <1>1 DEF SuiteStands
<1> SUFFICES ASSUME NEW x
             PROVE  /\ x \in suite.exclusions /\ x.type = "case"
                         <=> \E p \in Lost(layout, results, s) : x = LostAs(results, s, p)
                    /\ x \in suite.exclusions /\ x.type = "suite" <=> Whole(x)
  BY DEF suite, results
<1>6. /\ \A n : x = Exclusion("suite_step", s.suite, NoOccurrence, 0, n.key, "direct")
                  => x.type = "suite_step"
      /\ Direct(x) => x.type = "case"
      /\ Whole(x) => x.type = "suite"
      /\ Empty(x) => x.type = "case"
  BY ExclusionIs
<1>7. /\ Within(x) /\ x.type = "case" <=> Empty(x)
      /\ Within(x) => x.type \in {"case", "action", "assertion"}
  BY <1>3, <1>4
<1>8. Direct(x) \/ Empty(x) <=> \E p \in Lost(layout, results, s) : x = LostAs(results, s, p)
  BY <1>2, <1>3 DEF Lost, LostAs
<1> HIDE DEF Direct, Within, Whole, Empty
<1>9. /\ x \in suite.exclusions /\ x.type = "case" <=> Direct(x) \/ Empty(x)
      /\ x \in suite.exclusions /\ x.type = "suite" <=> Whole(x)
  BY <1>5, <1>6, <1>7
<1> QED BY <1>8, <1>9

\* No suite is in the target twice.
LEMMA OnlyInjective ==
  ASSUME NEW s, IsSequence(s), IsInjective(s), NEW I
  PROVE  IsInjective(Only(s, I))
<1> DEFINE M == ToSet(s)
           seqs == [i \in DOMAIN s |-> IF i \in I THEN <<s[i]>> ELSE <<>>]
           kept == DOMAIN s \cap I
           only == Only(s, I)
<1>1. s \in Seq(M) /\ DOMAIN s = 1 .. Len(s) /\ Len(s) \in Nat BY DEF IsSequence
<1>2. \A i \in DOMAIN s : s[i] \in M BY DEF ToSet
<1> HIDE DEF M
<1>3. \A i \in DOMAIN s : (IF i \in I THEN <<s[i]>> ELSE <<>>) \in Seq(M) BY <1>2
<1>4. /\ seqs \in Seq(Seq(M)) /\ DOMAIN seqs = DOMAIN s
      /\ \A i \in DOMAIN s : seqs[i] = IF i \in I THEN <<s[i]>> ELSE <<>>
  BY <1>1, <1>3
<1>5. only = FlattenSeq(seqs) BY DEF Only
<1> HIDE DEF seqs
<1>6. \A i \in DOMAIN seqs : seqs[i] = <<>> \/ \E x \in M : seqs[i] = <<x>> BY <1>2, <1>4
<1>7. {i \in DOMAIN seqs : seqs[i] # <<>>} = kept
  <2>1. \A x : <<x>> # <<>> OBVIOUS
  <2> QED BY <1>4, <2>1
<1>8. Len(only) = Cardinality(kept) BY <1>4, <1>5, <1>6, <1>7, FlattenLength
<1>9. IsSequence(only) /\ ToSet(only) = {s[i] : i \in kept} BY OnlyMembers
<1> DEFINE T == ToSet(only)
           f == [i \in kept |-> s[i]]
<1>10. IsFiniteSet(kept)
  <2>1. IsFiniteSet(1 .. Len(s)) BY <1>1, FS_Interval
  <2> QED BY <1>1, <2>1, FS_Subset
<1>11. f \in Bijection(kept, T)
  <2>1. \A i, j \in kept : s[i] = s[j] => i = j BY DEF IsInjective
  <2>2. f \in [kept -> T] /\ \A t \in T : \E i \in kept : f[i] = t BY <1>9
  <2>3. \A i, j \in DOMAIN f : f[i] = f[j] => i = j BY <2>1
  <2> HIDE DEF f, T, kept
  <2> QED BY <2>2, <2>3 DEF Bijection, Injection, Surjection, IsInjective
<1> HIDE DEF f, kept, only
<1>12. IsFiniteSet(T) /\ Cardinality(T) = Len(only)
  <2>1. ExistsBijection(kept, T) BY <1>11 DEF ExistsBijection
  <2> HIDE DEF T
  <2> QED BY <1>8, <1>10, <2>1, FS_Bijection
<1>13. only \in Surjection(1 .. Len(only), T)
  <2>1. only \in [1 .. Len(only) -> T] /\ DOMAIN only = 1 .. Len(only) BY <1>9 DEF IsSequence
  <2>2. \A t \in T : \E i \in 1 .. Len(only) : only[i] = t BY <2>1 DEF ToSet
  <2> HIDE DEF T
  <2> QED BY <2>1, <2>2 DEF Surjection
<1>14. IsFiniteSet(1 .. Len(only)) /\ Cardinality(1 .. Len(only)) = Len(only)
  <2>1. Len(only) \in Nat BY <1>9, DomainIsRange
  <2>2. ASSUME NEW n \in Nat PROVE IsFiniteSet(1 .. n) /\ Cardinality(1 .. n) = n
    BY FS_Interval
  <2> QED BY <2>1, <2>2
<1> HIDE DEF T
<1>15. only \in Injection(1 .. Len(only), T)
  BY <1>12, <1>13, <1>14, FS_SurjSameCardinalityImpliesInj
<1> QED BY <1>15 DEF Injection, only

\* No suite is in the target twice, and a lone case has no other suite beside it.
LEMMA SuitesDiffer ==
  ASSUME NEW layout, LayoutStands(layout), NEW rules, NEW target, TargetStands(layout, target)
  PROVE  LET specs == Specs(layout, rules, target)
         IN /\ \A i, j \in DOMAIN specs : specs[i].suite = specs[j].suite => i = j
            /\ \A j \in DOMAIN specs : specs[j].virtual => DOMAIN specs = {j}
<1> DEFINE specs == Specs(layout, rules, target)
           Goal  == /\ \A i, j \in DOMAIN specs : specs[i].suite = specs[j].suite => i = j
                    /\ \A j \in DOMAIN specs : specs[j].virtual => DOMAIN specs = {j}
<1> SUFFICES Goal OBVIOUS
<1>1. ASSUME NEW s, specs = <<s>> PROVE Goal
  <2>1. DOMAIN specs = {1} BY <1>1
  <2> HIDE DEF specs
  <2> QED BY <2>1
<1>2. ASSUME specs = <<>> PROVE Goal
  <2>1. DOMAIN specs = {} BY <1>2
  <2> HIDE DEF specs
  <2> QED BY <2>1
<1>3. ASSUME NEW ids, IsSequence(ids), IsInjective(ids), NEW I,
             specs = WholeSuites(layout, Only(ids, I))
      PROVE  Goal
  <2> DEFINE kept == Only(ids, I)
  <2>1. IsInjective(kept) BY <1>3, OnlyInjective
  <2> HIDE DEF kept, specs
  <2>2. specs = WholeSuites(layout, kept) BY <1>3 DEF kept
  <2>3. /\ DOMAIN specs = DOMAIN kept
        /\ \A i \in DOMAIN kept : specs[i].suite = kept[i] /\ specs[i].virtual = FALSE
    BY <2>2 DEF WholeSuites
  <2> QED BY <2>1, <2>3 DEF IsInjective
<1>4. CASE target.scope = "case"
  <2> DEFINE alone == [id |-> NoMember, case |-> target.case, overrides |-> {}]
             s == [suite |-> NoSuite, virtual |-> TRUE, members |-> <<alone>>]
  <2>1. specs = <<s>> BY <1>4 DEF Specs
  <2> HIDE DEF Goal, specs, s
  <2> QED BY <1>1, <2>1
<1>5. CASE target.scope = "context"
  <2>1. CASE target.suite \in rules.suites
    <3>1. specs = <<>> BY <1>5, <2>1 DEF Specs
    <3> HIDE DEF Goal, specs
    <3> QED BY <1>2, <3>1
  <2>2. CASE target.suite \notin rules.suites
    <3> DEFINE s == [suite |-> target.suite, virtual |-> FALSE,
                     members |-> ContextMembers(layout, target)]
    <3>1. specs = <<s>> BY <1>5, <2>2 DEF Specs
    <3> HIDE DEF Goal, specs, s
    <3> QED BY <1>1, <3>1
  <2> QED BY <2>1, <2>2
<1>6. CASE target.scope = "suites"
  <2> DEFINE I == {i \in DOMAIN target.suites : target.suites[i] \notin rules.suites \cup {}}
             ids == Only(target.suites, I)
  <2>1. specs = WholeSuites(layout, ids) BY <1>6 DEF Specs
  <2>2. IsSequence(target.suites) /\ IsInjective(target.suites) BY <1>6 DEF TargetStands
  <2> HIDE DEF I, specs, Goal
  <2> QED BY <1>3, <2>1, <2>2
<1>7. CASE target.scope = "all"
  <2> DEFINE I == {i \in DOMAIN layout.suites :
                     layout.suites[i] \notin rules.suites \cup target.excluded}
             ids == Only(layout.suites, I)
  <2>1. specs = WholeSuites(layout, ids) BY <1>7 DEF Specs
  <2>2. IsSequence(layout.suites) /\ IsInjective(layout.suites) BY DEF LayoutStands
  <2> HIDE DEF I, specs, Goal
  <2> QED BY <1>3, <2>1, <2>2
<1>8. Goal BY <1>4, <1>5, <1>6, <1>7 DEF TargetStands
<1> QED BY <1>8

\* A finite set of pairs, when there are finitely many of each.
LEMMA PairsAreFinite ==
  ASSUME NEW S, IsFiniteSet(S), NEW A, \A i \in S : IsFiniteSet(A[i])
  PROVE  IsFiniteSet(Pairs(A, S)) /\ Cardinality(Pairs(A, S)) \in Nat
<1> DEFINE g == [i \in S |-> Cardinality(A[i])]
<1>1. \A i \in S : g[i] = Cardinality(A[i]) OBVIOUS
<1> HIDE DEF g
<1>2. PICK f : Sums(f, g, S) BY <1>1, SumExists
<1>3. \A s \in SUBSET S : IsFiniteSet(Pairs(A, s)) BY <1>1, <1>2, SumCounts
<1>4. IsFiniteSet(Pairs(A, S)) BY <1>3
<1> QED BY <1>4, FS_CardinalityType

\* Pairs are counted apart when the sets are.
LEMMA PairsAddUp ==
  ASSUME NEW S, IsFiniteSet(S), NEW A, NEW B, NEW C, NEW D,
         \A i \in S : /\ A[i] = B[i] \cup C[i] \cup D[i] /\ IsFiniteSet(A[i])
                      /\ B[i] \cap C[i] = {} /\ B[i] \cap D[i] = {} /\ C[i] \cap D[i] = {}
  PROVE  Cardinality(Pairs(A, S))
           = Cardinality(Pairs(B, S)) + Cardinality(Pairs(C, S)) + Cardinality(Pairs(D, S))
<1>1. \A i \in S : IsFiniteSet(B[i]) /\ IsFiniteSet(C[i]) /\ IsFiniteSet(D[i])
  <2> SUFFICES ASSUME NEW i \in S PROVE IsFiniteSet(B[i]) /\ IsFiniteSet(C[i]) /\ IsFiniteSet(D[i])
    OBVIOUS
  <2>1. B[i] \in SUBSET A[i] /\ C[i] \in SUBSET A[i] /\ D[i] \in SUBSET A[i] OBVIOUS
  <2> QED BY <2>1, FS_Subset
<1> DEFINE b == Pairs(B, S)
           c == Pairs(C, S)
           d == Pairs(D, S)
<1>2. /\ IsFiniteSet(b) /\ Cardinality(b) \in Nat /\ IsFiniteSet(c) /\ Cardinality(c) \in Nat
      /\ IsFiniteSet(d) /\ Cardinality(d) \in Nat
  BY <1>1, PairsAreFinite
<1>3. /\ \A p \in b : p[1] \in S /\ p[2] \in B[p[1]]
      /\ \A p \in c : p[1] \in S /\ p[2] \in C[p[1]]
      /\ \A p \in d : p[1] \in S /\ p[2] \in D[p[1]]
  BY PairsAre
<1>4. Pairs(A, S) = (b \cup c) \cup d
  <2>1. ASSUME NEW p \in Pairs(A, S) PROVE p \in (b \cup c) \cup d
    <3>1. p = <<p[1], p[2]>> /\ p[1] \in S /\ p[2] \in A[p[1]] BY PairsAre
    <3>2. p[2] \in B[p[1]] \/ p[2] \in C[p[1]] \/ p[2] \in D[p[1]] BY <3>1
    <3> QED BY <3>1, <3>2, PairsAre
  <2>2. ASSUME NEW p \in (b \cup c) \cup d PROVE p \in Pairs(A, S)
    <3>1. p = <<p[1], p[2]>> BY PairsAre
    <3>2. p[1] \in S /\ p[2] \in A[p[1]] BY <1>3
    <3> QED BY <3>1, <3>2, PairsAre
  <2> HIDE DEF b, c, d
  <2> QED BY <2>1, <2>2
<1>5. b \cap c = {} /\ (b \cup c) \cap d = {}
  <2> HIDE DEF b, c, d
  <2> QED BY <1>3
<1> HIDE DEF b, c, d
<1>6. /\ IsFiniteSet(b \cup c)
      /\ Cardinality(b \cup c) = Cardinality(b) + Cardinality(c) - Cardinality(b \cap c)
  BY <1>2, FS_Union
<1>7. Cardinality((b \cup c) \cup d)
        = Cardinality(b \cup c) + Cardinality(d) - Cardinality((b \cup c) \cap d)
  BY <1>2, <1>6, FS_Union
<1>8. Cardinality(b \cap c) = 0 /\ Cardinality((b \cup c) \cap d) = 0
  BY <1>5, FS_EmptySet, Zenon
<1>9. Cardinality((b \cup c) \cup d) = Cardinality(b) + Cardinality(c) + Cardinality(d)
  BY <1>2, <1>6, <1>7, <1>8
<1> QED BY <1>4, <1>9 DEF b, c, d

\* Two sets have as many members when one names the other's.
LEMMA SameCount ==
  ASSUME NEW S, IsFiniteSet(S), NEW T, NEW f, DOMAIN f = S,
         f = [x \in S |-> f[x]], \A x, y \in S : f[x] = f[y] => x = y,
         \A t : t \in T <=> \E x \in S : t = f[x]
  PROVE  IsFiniteSet(T) /\ Cardinality(T) = Cardinality(S)
<1>1. f \in [S -> T] OBVIOUS
<1>2. f \in Bijection(S, T) BY <1>1 DEF Bijection, Injection, Surjection, IsInjective
<1>3. ExistsBijection(S, T) BY <1>2 DEF ExistsBijection
<1> QED BY <1>3, FS_Bijection

-----------------------------------------------------------------------------
(* The members of a target's suites: those that run, those a rule leaves   *)
(* out, and those that are deleted.                                        *)

Resolved(e, j) ==
  Results(LayoutFor(e), VarsFor(e), RulesFor(e), TargetFor(e), SpecsFor(e)[j])

MembersOf(e) == [j \in DOMAIN SpecsFor(e) |-> DOMAIN SpecsFor(e)[j].members]

LiveOf(e) ==
  [j \in DOMAIN SpecsFor(e) |->
     IF Gone(e, SpecsFor(e)[j]) THEN {} ELSE Running(Resolved(e, j))]

LostOf(e) ==
  [j \in DOMAIN SpecsFor(e) |->
     IF Gone(e, SpecsFor(e)[j]) THEN {} ELSE Lost(LayoutFor(e), Resolved(e, j), SpecsFor(e)[j])]

DeadOf(e) ==
  [j \in DOMAIN SpecsFor(e) |->
     {p \in DOMAIN SpecsFor(e)[j].members :
        Gone(e, SpecsFor(e)[j])
          \/ SpecsFor(e)[j].members[p].case \notin DOMAIN LayoutFor(e).flow}]

SuiteOut(e, j) ==
  Exclusion("suite", SpecsFor(e)[j].suite, NoOccurrence, 0, NoKey,
            IF Gone(e, SpecsFor(e)[j]) THEN "direct" ELSE "empty")

LEMMA MembersAreCounted ==
  ASSUME NEW e \in Contents
  PROVE  /\ IsFiniteSet(DOMAIN SpecsFor(e)) /\ Cardinality(DOMAIN SpecsFor(e)) = Len(SpecsFor(e))
         /\ \A j \in DOMAIN SpecsFor(e) :
              /\ IsFiniteSet(MembersOf(e)[j])
              /\ Cardinality(MembersOf(e)[j]) = Len(SpecsFor(e)[j].members)
              /\ MembersOf(e)[j] = LiveOf(e)[j] \cup LostOf(e)[j] \cup DeadOf(e)[j]
              /\ LiveOf(e)[j] \cap LostOf(e)[j] = {} /\ LiveOf(e)[j] \cap DeadOf(e)[j] = {}
              /\ LostOf(e)[j] \cap DeadOf(e)[j] = {}
<1>1. IsSequence(SpecsFor(e)) /\ \A j \in DOMAIN SpecsFor(e) : IsSequence(SpecsFor(e)[j].members)
  BY InputsOf DEF SpecStands
<1>2. ASSUME NEW q, IsSequence(q) PROVE IsFiniteSet(DOMAIN q) /\ Cardinality(DOMAIN q) = Len(q)
  <2>1. Len(q) \in Nat /\ DOMAIN q = 1 .. Len(q) BY <1>2, DomainIsRange
  <2>2. ASSUME NEW n \in Nat PROVE IsFiniteSet(1 .. n) /\ Cardinality(1 .. n) = n
    BY FS_Interval
  <2> QED BY <2>1, <2>2
<1>3. ASSUME NEW j \in DOMAIN SpecsFor(e)
      PROVE  /\ MembersOf(e)[j] = LiveOf(e)[j] \cup LostOf(e)[j] \cup DeadOf(e)[j]
             /\ LiveOf(e)[j] \cap LostOf(e)[j] = {} /\ LiveOf(e)[j] \cap DeadOf(e)[j] = {}
             /\ LostOf(e)[j] \cap DeadOf(e)[j] = {}
  <2> DEFINE s == SpecsFor(e)[j]
             gone == Gone(e, s)
             live == Running(Resolved(e, j))
             flow == LayoutFor(e).flow
  <2>1. /\ MembersOf(e)[j] = DOMAIN s.members
        /\ LiveOf(e)[j] = IF gone THEN {} ELSE live
        /\ LostOf(e)[j] = IF gone THEN {}
                          ELSE {p \in DOMAIN s.members \ live : s.members[p].case \in DOMAIN flow}
        /\ DeadOf(e)[j] = {p \in DOMAIN s.members : gone \/ s.members[p].case \notin DOMAIN flow}
    BY DEF MembersOf, LiveOf, LostOf, DeadOf, Lost
  <2>2. live \subseteq DOMAIN s.members /\ \A p \in live : s.members[p].case \in DOMAIN flow
    BY DEF Running, Resolved, Results, Wanted
  <2> HIDE DEF s, gone, live, flow
  <2> QED BY <2>1, <2>2
<1>4. \A j \in DOMAIN SpecsFor(e) : MembersOf(e)[j] = DOMAIN SpecsFor(e)[j].members
  BY DEF MembersOf
<1> QED BY <1>1, <1>2, <1>3, <1>4

LEMMA SpecsDiffer ==
  ASSUME NEW e \in Contents
  PROVE  /\ \A i, j \in DOMAIN SpecsFor(e) : SpecsFor(e)[i].suite = SpecsFor(e)[j].suite => i = j
         /\ \A j \in DOMAIN SpecsFor(e) : SpecsFor(e)[j].virtual => DOMAIN SpecsFor(e) = {j}
<1> DEFINE layout == LayoutFor(e)
           target == TargetFor(e)
           specs  == Specs(layout, RulesFor(e), target)
<1>1. LayoutStands(layout) /\ TargetStands(layout, target)
  <2>1. e.layout \in Assets /\ e.target \in Targets BY DEF Contents
  <2> QED BY <2>1, InputsStand DEF LayoutFor, TargetFor
<1>2. /\ \A i, j \in DOMAIN specs : specs[i].suite = specs[j].suite => i = j
      /\ \A j \in DOMAIN specs : specs[j].virtual => DOMAIN specs = {j}
  BY <1>1, SuitesDiffer
<1>3. SpecsFor(e) = specs BY DEF SpecsFor
<1> HIDE DEF specs
<1> QED BY <1>2, <1>3

\* What a suite of an executed target counts, and leaves out.
LEMMA SuiteContent ==
  ASSUME NEW e \in Executed, NEW j \in DOMAIN SpecsFor(e)
  PROVE  LET suite == Content(e).suites[j]
         IN /\ suite.na <=> LiveOf(e)[j] = {}
            /\ Len(suite.cases) = Cardinality(LiveOf(e)[j])
            /\ \A x : /\ x \in suite.exclusions /\ x.type = "case" <=>
                           \E p \in LostOf(e)[j] : x = LostAs(Resolved(e, j), SpecsFor(e)[j], p)
                      /\ x \in suite.exclusions /\ x.type = "suite" <=>
                           suite.na /\ x = SuiteOut(e, j)
<1> DEFINE layout == LayoutFor(e)
           defs   == VarsFor(e)
           rules  == RulesFor(e)
           target == TargetFor(e)
           s      == SpecsFor(e)[j]
           suite  == BuildSuite(layout, defs, rules, target, s)
           results == Results(layout, defs, rules, target, s)
           Goal(live, lost, out) ==
             /\ suite.na <=> live = {}
             /\ Len(suite.cases) = Cardinality(live)
             /\ \A x : /\ x \in suite.exclusions /\ x.type = "case"
                            <=> \E p \in lost : x = LostAs(results, s, p)
                       /\ x \in suite.exclusions /\ x.type = "suite" <=> suite.na /\ x = out
<1>1. /\ Content(e).suites[j] = suite /\ Resolved(e, j) = results
      /\ LayoutStands(layout) /\ SpecStands(layout, s)
  BY ExecutedIs, InputsOf DEF Executed, Build, Resolved
<1>2. CASE Gone(e, s)
  <2> DEFINE out == Exclusion("suite", s.suite, NoOccurrence, 0, NoKey, "direct")
  <2>1. suite.na = TRUE /\ suite.cases = <<>> /\ suite.exclusions = {out}
    <3>1. ~ s.virtual /\ s.suite \notin ToSet(layout.suites) BY <1>2 DEF Gone
    <3> HIDE DEF s, layout
    <3> QED BY <3>1 DEF BuildSuite
  <2>2. LiveOf(e)[j] = {} /\ LostOf(e)[j] = {} /\ SuiteOut(e, j) = out
    BY <1>2 DEF LiveOf, LostOf, SuiteOut
  <2>3. out.type = "suite" BY ExclusionIs
  <2>4. Len(<<>>) = 0 /\ Cardinality({}) = 0 BY FS_EmptySet
  <2> HIDE DEF suite, out, results
  <2>5. Goal({}, {}, out) BY <2>1, <2>3, <2>4
  <2> HIDE DEF Goal
  <2>6. Goal(LiveOf(e)[j], LostOf(e)[j], SuiteOut(e, j)) BY <2>2, <2>5
  <2> QED BY <1>1, <2>6 DEF Goal
<1>3. CASE ~ Gone(e, s)
  <2> DEFINE live == Running(results)
             lost == Lost(layout, results, s)
             out  == Exclusion("suite", s.suite, NoOccurrence, 0, NoKey, "empty")
  <2>1. s.virtual \/ s.suite \in ToSet(layout.suites) BY <1>3 DEF Gone
  <2>2. LiveOf(e)[j] = live /\ LostOf(e)[j] = lost /\ SuiteOut(e, j) = out
    BY <1>1, <1>3 DEF LiveOf, LostOf, SuiteOut
  <2>3. Len(suite.cases) = Cardinality(live) BY <1>1, <2>1, CasesAreCounted
  <2>4. suite.na = (live = {})
    <3> DEFINE hooks == KeptHooks(rules, s.suite, AllHooks(layout, s))
               bound == SuiteVariables(defs, target, s.suite)
    <3>1. SuiteStands(layout, s, suite, results, hooks, bound) BY <1>1, <2>1, SuiteIs
    <3> HIDE DEF suite, results, hooks, bound
    <3> QED BY <3>1 DEF SuiteStands
  <2>5. \A x : /\ x \in suite.exclusions /\ x.type = "case"
                    <=> \E p \in lost : x = LostAs(results, s, p)
               /\ x \in suite.exclusions /\ x.type = "suite" <=> live = {} /\ ~ s.virtual /\ x = out
    BY <1>1, <2>1, CaseAndSuiteExclusions
    \* A lone case is not left out: nothing else would run.
  <2>6. live = {} => ~ s.virtual
    <3> SUFFICES ASSUME live = {}, s.virtual PROVE FALSE OBVIOUS
    <3>1. e \in Contents BY DEF Executed
    <3>3. DOMAIN SpecsFor(e) = {j} BY <3>1, SpecsDiffer
    <3>4. PICK i \in DOMAIN SpecsFor(e) : ~ Content(e).suites[i].na BY ExecutedIs
    <3>5. i = j BY <3>3, <3>4
    <3> QED BY <1>1, <2>4, <3>4, <3>5
  <2> HIDE DEF suite, live, lost, out, results, s
  <2>7. Goal(live, lost, out) BY <2>3, <2>4, <2>5, <2>6
  <2> HIDE DEF Goal
  <2>8. Goal(LiveOf(e)[j], LostOf(e)[j], SuiteOut(e, j)) BY <2>2, <2>7
  <2> QED BY <1>1, <2>8 DEF Goal, s
<1> QED BY <1>2, <1>3

\* One exclusion for each suite that does not run.
LEMMA SuitesOut ==
  ASSUME NEW e \in Executed
  PROVE  Cardinality(OfType(Content(e).exclusions, "suite"))
           = Cardinality(IdleIn(Content(e).suites, DOMAIN SpecsFor(e)))
<1> DEFINE D == DOMAIN SpecsFor(e)
           suites == Content(e).suites
           na == {j \in D : suites[j].na}
           outs == {x \in Content(e).exclusions : x.type = "suite"}
           f == [j \in na |-> SuiteOut(e, j)]
<1>1. e \in Contents BY DEF Executed
<1>2. IsFiniteSet(na)
  <2>1. IsFiniteSet(D) BY <1>1, MembersAreCounted
  <2> QED BY <2>1, FS_Subset
<1>3. \A i, j \in D : SpecsFor(e)[i].suite = SpecsFor(e)[j].suite => i = j
  BY <1>1, SpecsDiffer
<1>4. \A j \in D : SuiteOut(e, j).suite = SpecsFor(e)[j].suite BY ExclusionIs DEF SuiteOut
<1>5. \A i, j \in na : f[i] = f[j] => i = j BY <1>3, <1>4
<1>6. \A x : x \in outs <=> \E j \in na : x = f[j]
  <2>1. \A x : x \in Content(e).exclusions <=> \E j \in D : x \in suites[j].exclusions
    BY ExecutedIs
  <2>2. \A j \in D : \A x : x \in suites[j].exclusions /\ x.type = "suite"
                              <=> suites[j].na /\ x = SuiteOut(e, j)
    BY SuiteContent
  <2>3. \A x : x \in outs <=> \E j \in D : x \in suites[j].exclusions /\ x.type = "suite"
    BY <2>1
  <2>4. \A x : x \in outs <=> \E j \in D : suites[j].na /\ x = SuiteOut(e, j)
    BY <2>2, <2>3
  <2>5. \A x : x \in outs <=> \E j \in na : x = SuiteOut(e, j)
    <3> HIDE DEF outs
    <3> QED BY <2>4
  <2>6. \A j \in na : f[j] = SuiteOut(e, j) OBVIOUS
  <2> HIDE DEF outs, na, f
  <2> QED BY <2>5, <2>6
<1>7. DOMAIN f = na /\ f = [x \in na |-> f[x]] OBVIOUS
<1> HIDE DEF f, na, outs
<1>8. Cardinality(outs) = Cardinality(na) BY <1>2, <1>5, <1>6, <1>7, SameCount
<1> QED BY <1>8 DEF na, outs, OfType, IdleIn

\* One exclusion for each live case that does not run.
LEMMA CasesOut ==
  ASSUME NEW e \in Executed
  PROVE  LET outs == OfType(Content(e).exclusions, "case")
         IN /\ IsFiniteSet(outs)
            /\ Cardinality(outs) = Cardinality(Pairs(LostOf(e), DOMAIN SpecsFor(e)))
<1> DEFINE D == DOMAIN SpecsFor(e)
           suites == Content(e).suites
           lost == Pairs(LostOf(e), D)
           outs == {x \in Content(e).exclusions : x.type = "case"}
           Out(j, p) == LostAs(Resolved(e, j), SpecsFor(e)[j], p)
           f == [q \in lost |-> Out(q[1], q[2])]
<1>1. e \in Contents BY DEF Executed
<1>2. IsFiniteSet(lost)
  <2>1. IsFiniteSet(D) BY <1>1, MembersAreCounted
  <2>2. \A j \in D : IsFiniteSet(LostOf(e)[j])
    <3> SUFFICES ASSUME NEW j \in D PROVE IsFiniteSet(LostOf(e)[j]) OBVIOUS
    <3>1. IsFiniteSet(MembersOf(e)[j]) /\ LostOf(e)[j] \in SUBSET MembersOf(e)[j]
      BY <1>1, MembersAreCounted
    <3> QED BY <3>1, FS_Subset
  <2> QED BY <2>1, <2>2, PairsAreFinite
<1>3. \A i, j \in D : SpecsFor(e)[i].suite = SpecsFor(e)[j].suite => i = j
  BY <1>1, SpecsDiffer
<1>4. \A j, p : Out(j, p).suite = SpecsFor(e)[j].suite /\ Out(j, p).pos = p
  BY ExclusionIs DEF LostAs
<1>5. \A q, r \in lost : f[q] = f[r] => q = r
  <2> SUFFICES ASSUME NEW q \in lost, NEW r \in lost, f[q] = f[r] PROVE q = r OBVIOUS
  <2>1. q = <<q[1], q[2]>> /\ r = <<r[1], r[2]>> /\ q[1] \in D /\ r[1] \in D BY PairsAre
  <2>2. Out(q[1], q[2]) = Out(r[1], r[2]) OBVIOUS
  <2> HIDE DEF Out, lost, f
  <2>3. q[2] = r[2] /\ q[1] = r[1] BY <1>3, <1>4, <2>1, <2>2
  <2> QED BY <2>1, <2>3
<1>6. \A x : x \in outs <=> \E q \in lost : x = f[q]
  <2>1. \A x : x \in Content(e).exclusions <=> \E j \in D : x \in suites[j].exclusions
    BY ExecutedIs
  <2>2. \A j \in D : \A x : x \in suites[j].exclusions /\ x.type = "case"
                              <=> \E p \in LostOf(e)[j] : x = Out(j, p)
    BY SuiteContent
  <2>3. \A x : x \in outs <=> \E j \in D : x \in suites[j].exclusions /\ x.type = "case"
    BY <2>1
  <2>4. \A x : x \in outs <=> \E j \in D : \E p \in LostOf(e)[j] : x = Out(j, p)
    BY <2>2, <2>3
  <2>5. \A q \in lost : f[q] = Out(q[1], q[2]) OBVIOUS
  <2>6. \A q \in lost : q[1] \in D /\ q[2] \in LostOf(e)[q[1]] BY PairsAre
  <2>7. \A j \in D : \A p \in LostOf(e)[j] : <<j, p>> \in lost /\ <<j, p>>[1] = j /\ <<j, p>>[2] = p
    BY PairsAre
  <2> HIDE DEF outs, lost, f, Out
  <2>8. ASSUME NEW x \in outs PROVE \E q \in lost : x = f[q]
    <3>1. PICK j \in D : \E p \in LostOf(e)[j] : x = Out(j, p) BY <2>4
    <3>2. PICK p \in LostOf(e)[j] : x = Out(j, p) BY <3>1
    <3>3. <<j, p>> \in lost /\ f[<<j, p>>] = Out(j, p) BY <2>5, <2>7
    <3> QED BY <3>2, <3>3
  <2>9. ASSUME NEW q \in lost PROVE f[q] \in outs BY <2>4, <2>5, <2>6
  <2> QED BY <2>8, <2>9
<1>7. DOMAIN f = lost /\ f = [x \in lost |-> f[x]] OBVIOUS
<1> HIDE DEF f, lost, outs
<1>8. IsFiniteSet(outs) /\ Cardinality(outs) = Cardinality(lost)
  BY <1>2, <1>5, <1>6, <1>7, SameCount
<1> QED BY <1>8 DEF lost, outs, OfType

-----------------------------------------------------------------------------
(* The sums of the summary, as counts of pairs.                            *)

LEMMA MembersSum ==
  ASSUME NEW specs, NEW S, IsFiniteSet(S), NEW A,
         \A i \in S : IsFiniteSet(A[i]) /\ Len(specs[i].members) = Cardinality(A[i])
  PROVE  SumOfMembers(specs, S) = Cardinality(Pairs(A, S))
<1> DEFINE g == [i \in S |-> Len(specs[i].members)]
           step(f) == [s \in SUBSET S |->
                         IF s = {} THEN 0
                         ELSE LET x == CHOOSE x \in s : TRUE
                              IN Len(specs[x].members) + f[s \ {x}]]
           sum == CHOOSE f : f = step(f)
<1>1. SumOfMembers(specs, S) = sum[S]
  BY DEF SumOfMembers, MapThenSumSet, MapThenFoldSet
<1>2. \A f : Sums(f, g, S) <=> f = step(f) BY DEF Sums
<1>3. \A i \in S : g[i] = Cardinality(A[i]) OBVIOUS
<1> HIDE DEF g, step
<1>4. \E f : f = step(f) BY <1>2, <1>3, SumExists
<1>5. sum = step(sum) BY <1>4
<1> HIDE DEF sum
<1>6. Sums(sum, g, S) BY <1>2, <1>5
<1>7. sum[S] = Cardinality(Pairs(A, S)) BY <1>3, <1>6, SumCounts
<1> QED BY <1>1, <1>7

LEMMA CasesSum ==
  ASSUME NEW suites, NEW S, IsFiniteSet(S), NEW A,
         \A i \in S : IsFiniteSet(A[i]) /\ Len(suites[i].cases) = Cardinality(A[i])
  PROVE  SumOfCases(suites, S) = Cardinality(Pairs(A, S))
<1> DEFINE g == [i \in S |-> Len(suites[i].cases)]
           step(f) == [s \in SUBSET S |->
                         IF s = {} THEN 0
                         ELSE LET x == CHOOSE x \in s : TRUE
                              IN Len(suites[x].cases) + f[s \ {x}]]
           sum == CHOOSE f : f = step(f)
<1>1. SumOfCases(suites, S) = sum[S]
  BY DEF SumOfCases, MapThenSumSet, MapThenFoldSet
<1>2. \A f : Sums(f, g, S) <=> f = step(f) BY DEF Sums
<1>3. \A i \in S : g[i] = Cardinality(A[i]) OBVIOUS
<1> HIDE DEF g, step
<1>4. \E f : f = step(f) BY <1>2, <1>3, SumExists
<1>5. sum = step(sum) BY <1>4
<1> HIDE DEF sum
<1>6. Sums(sum, g, S) BY <1>2, <1>5
<1>7. sum[S] = Cardinality(Pairs(A, S)) BY <1>3, <1>6, SumCounts
<1> QED BY <1>1, <1>7

LEMMA DeadSum ==
  ASSUME NEW e \in Contents
  PROVE  LET specs == SpecsFor(e)
             Dead(i) == {p \in DOMAIN specs[i].members :
                           Gone(e, specs[i])
                             \/ specs[i].members[p].case \notin DOMAIN LayoutFor(e).flow}
         IN MapThenSumSet(LAMBDA i : Cardinality(Dead(i)), DOMAIN specs)
              = Cardinality(Pairs(DeadOf(e), DOMAIN specs))
<1> DEFINE specs == SpecsFor(e)
           S == DOMAIN specs
           Dead(i) == {p \in DOMAIN specs[i].members :
                         Gone(e, specs[i])
                           \/ specs[i].members[p].case \notin DOMAIN LayoutFor(e).flow}
           A == DeadOf(e)
           step(f) == [s \in SUBSET S |->
                         IF s = {} THEN 0
                         ELSE LET x == CHOOSE x \in s : TRUE
                              IN Cardinality(Dead(x)) + f[s \ {x}]]
           sum == CHOOSE f : f = step(f)
           g == [i \in S |-> Cardinality(Dead(i))]
<1>1. MapThenSumSet(LAMBDA i : Cardinality(Dead(i)), S) = sum[S]
  BY DEF MapThenSumSet, MapThenFoldSet
<1>2. \A f : Sums(f, g, S) <=> f = step(f)
  <2> HIDE DEF Dead, S
  <2> QED BY DEF Sums
<1>3. \A i \in S : g[i] = Cardinality(A[i]) BY DEF DeadOf
<1>4. IsFiniteSet(S) /\ \A i \in S : IsFiniteSet(A[i])
  <2>1. IsFiniteSet(S) BY MembersAreCounted
  <2>2. ASSUME NEW i \in S PROVE IsFiniteSet(A[i])
    <3>1. IsFiniteSet(MembersOf(e)[i]) /\ A[i] \in SUBSET MembersOf(e)[i] BY MembersAreCounted
    <3> QED BY <3>1, FS_Subset
  <2> QED BY <2>1, <2>2
<1> HIDE DEF g, step, A
<1>5. \E f : f = step(f) BY <1>2, <1>3, <1>4, SumExists
<1>6. sum = step(sum) BY <1>5
<1> HIDE DEF sum
<1>7. Sums(sum, g, S) BY <1>2, <1>6
<1>8. sum[S] = Cardinality(Pairs(A, S)) BY <1>3, <1>4, <1>7, SumCounts
<1> QED BY <1>1, <1>8 DEF A

\* The summary of a target that runs adds up.
LEMMA ExecutedAreAddingUp == Executed \subseteq AddingUpContents
<1> SUFFICES ASSUME NEW e \in Executed PROVE AddsUp(e) BY DEF AddingUpContents
<1> DEFINE specs  == SpecsFor(e)
           suites == Content(e).suites
           left == Content(e).exclusions
           n    == Content(e).summary
           D    == DOMAIN specs
           runs == RunIn(suites, D)
           idle == IdleIn(suites, D)
<1>1. e \in Contents BY DEF Executed
<1>2. /\ n = Summary(specs, suites, left) /\ DOMAIN suites = D
  BY ExecutedIs
<1>3. /\ n.source_suites = Len(specs)
      /\ n.source_cases = SumOfMembers(specs, D)
      /\ n.executable_suites = Cardinality(runs)
      /\ n.executable_cases = SumOfCases(suites, runs)
      /\ n.na_suites = Cardinality(OfType(left, "suite"))
      /\ n.na_cases = Cardinality(Alone(OfType(left, "case")))
      /\ n.na_suite_cases = Cardinality(InSuite(OfType(left, "case")))
  <2> HIDE DEF n, suites, specs, left
  <2> QED BY <1>2, SummaryIs
<1>4. IsFiniteSet(D) /\ Cardinality(D) = Len(specs) BY <1>1, MembersAreCounted
<1>5. n.source_suites = n.executable_suites + n.na_suites
  <2>1. IsFiniteSet(runs) /\ IsFiniteSet(idle) BY <1>4, FS_Subset DEF RunIn, IdleIn
  <2>2. Cardinality(runs) \in Nat /\ Cardinality(idle) \in Nat BY <2>1, FS_CardinalityType
  <2>3. Cardinality(runs \cup idle)
          = Cardinality(runs) + Cardinality(idle) - Cardinality(runs \cap idle)
    BY <2>1, FS_Union
  <2>4. D = runs \cup idle /\ runs \cap idle = {} BY DEF RunIn, IdleIn
  <2>5. Cardinality(runs \cap idle) = 0 BY <2>4, FS_EmptySet, Zenon
  <2>6. Cardinality(OfType(left, "suite")) = Cardinality(idle) BY SuitesOut
  <2>7. Cardinality(D) = Cardinality(runs \cup idle) BY <2>4, Zenon
  <2> HIDE DEF runs, idle, D, left, specs, n
  <2> QED BY <1>3, <1>4, <2>2, <2>3, <2>5, <2>6, <2>7
<1> DEFINE all  == Pairs(MembersOf(e), D)
           live == Pairs(LiveOf(e), D)
           lost == Pairs(LostOf(e), D)
           dead == Pairs(DeadOf(e), D)
<1>6. n.source_cases = Cardinality(all)
  <2>1. \A j \in D : IsFiniteSet(MembersOf(e)[j]) /\ Len(specs[j].members) = Cardinality(MembersOf(e)[j])
    BY <1>1, MembersAreCounted
  <2> HIDE DEF n, specs, D
  <2> QED BY <1>3, <1>4, <2>1, MembersSum
<1>7. \A j \in D : IsFiniteSet(LiveOf(e)[j])
  <2> SUFFICES ASSUME NEW j \in D PROVE IsFiniteSet(LiveOf(e)[j]) OBVIOUS
  <2>1. IsFiniteSet(MembersOf(e)[j]) /\ LiveOf(e)[j] \in SUBSET MembersOf(e)[j]
    BY <1>1, MembersAreCounted
  <2> QED BY <2>1, FS_Subset
<1>8. n.executable_cases = Cardinality(live)
  <2>1. \A j \in D : /\ suites[j].na <=> LiveOf(e)[j] = {}
                     /\ Len(suites[j].cases) = Cardinality(LiveOf(e)[j])
    BY SuiteContent
  <2>2. runs \in SUBSET D /\ IsFiniteSet(runs) BY <1>4, FS_Subset DEF RunIn
  <2>3. \A j \in runs : IsFiniteSet(LiveOf(e)[j]) /\ Len(suites[j].cases) = Cardinality(LiveOf(e)[j])
    BY <1>7, <2>1 DEF RunIn
  <2>4. SumOfCases(suites, runs) = Cardinality(Pairs(LiveOf(e), runs))
    <3> HIDE DEF suites, runs
    <3> QED BY <2>2, <2>3, CasesSum
  <2>5. Pairs(LiveOf(e), runs) = live
    <3>1. ASSUME NEW q \in live PROVE q \in Pairs(LiveOf(e), runs)
      <4>1. q = <<q[1], q[2]>> /\ q[1] \in D /\ q[2] \in LiveOf(e)[q[1]] BY PairsAre
      <4>2. q[1] \in runs BY <2>1, <4>1 DEF RunIn
      <4> HIDE DEF runs
      <4> QED BY <4>1, <4>2, PairsAre
    <3>2. ASSUME NEW q \in Pairs(LiveOf(e), runs) PROVE q \in live
      <4>1. q = <<q[1], q[2]>> /\ q[1] \in runs /\ q[2] \in LiveOf(e)[q[1]] BY PairsAre
      <4>2. q[1] \in D BY <4>1 DEF RunIn
      <4> QED BY <4>1, <4>2, PairsAre
    <3> HIDE DEF live, runs
    <3> QED BY <3>1, <3>2
  <2> HIDE DEF n, live, runs
  <2> QED BY <1>3, <2>4, <2>5
<1>9. n.na_cases + n.na_suite_cases = Cardinality(lost) /\ n.na_cases \in Nat /\ n.na_suite_cases \in Nat
  <2> DEFINE o == OfType(left, "case")
             a == Alone(o)
             b == InSuite(o)
  <2>1. IsFiniteSet(o) /\ Cardinality(o) = Cardinality(lost) BY CasesOut
  <2> HIDE DEF o, lost
  <2>2. IsFiniteSet(a) /\ IsFiniteSet(b) BY <2>1, FS_Subset DEF Alone, InSuite
  <2>3. Cardinality(a) \in Nat /\ Cardinality(b) \in Nat BY <2>2, FS_CardinalityType
  <2>4. Cardinality(a \cup b) = Cardinality(a) + Cardinality(b) - Cardinality(a \cap b)
    BY <2>2, FS_Union
  <2>5. o = a \cup b /\ a \cap b = {} BY DEF Alone, InSuite
  <2>6. Cardinality(a \cap b) = 0 BY <2>5, FS_EmptySet, Zenon
  <2>7. Cardinality(o) = Cardinality(a \cup b) BY <2>5, Zenon
  <2>8. n.na_cases = Cardinality(a) /\ n.na_suite_cases = Cardinality(b) BY <1>3 DEF o
  <2> HIDE DEF a, b, n
  <2> QED BY <2>1, <2>3, <2>4, <2>6, <2>7, <2>8
<1>10. Cardinality(all) = Cardinality(live) + Cardinality(lost) + Cardinality(dead)
  <2>1. \A j \in D : /\ MembersOf(e)[j] = LiveOf(e)[j] \cup LostOf(e)[j] \cup DeadOf(e)[j]
                     /\ IsFiniteSet(MembersOf(e)[j])
                     /\ LiveOf(e)[j] \cap LostOf(e)[j] = {} /\ LiveOf(e)[j] \cap DeadOf(e)[j] = {}
                     /\ LostOf(e)[j] \cap DeadOf(e)[j] = {}
    BY <1>1, MembersAreCounted
  <2> HIDE DEF D
  <2> QED BY <1>4, <2>1, PairsAddUp
<1>11. Cardinality(live) \in Nat /\ Cardinality(dead) \in Nat
  <2>1. \A j \in D : IsFiniteSet(DeadOf(e)[j])
    <3> SUFFICES ASSUME NEW j \in D PROVE IsFiniteSet(DeadOf(e)[j]) OBVIOUS
    <3>1. IsFiniteSet(MembersOf(e)[j]) /\ DeadOf(e)[j] \in SUBSET MembersOf(e)[j]
      BY <1>1, MembersAreCounted
    <3> QED BY <3>1, FS_Subset
  <2> HIDE DEF D
  <2> QED BY <1>4, <1>7, <2>1, PairsAreFinite
<1> DEFINE Dead(i) == {p \in DOMAIN specs[i].members :
                         Gone(e, specs[i])
                           \/ specs[i].members[p].case \notin DOMAIN LayoutFor(e).flow}
<1>12. MapThenSumSet(LAMBDA i : Cardinality(Dead(i)), D) = Cardinality(dead)
  BY <1>1, DeadSum
<1>13. n.source_cases = n.executable_cases + n.na_cases + n.na_suite_cases + Cardinality(dead)
  <2> HIDE DEF n, all, live, lost, dead
  <2> QED BY <1>6, <1>8, <1>9, <1>10, <1>11
<1> QED BY <1>5, <1>12, <1>13 DEF AddsUp

-----------------------------------------------------------------------------
(* The resolver in the intake.                                             *)

\* What was read for a target is complete, and the target resolves.
Made(reads, target) ==
  ContentOf(reads, target) \in Contents /\ Resolves(Outcome(reads, target))

Gathered(q) ==
  /\ q.pc \in {"configured", "laid out"} => q.reads.config \in Configs
  /\ q.pc = "laid out" => q.reads.layout \in Assets
  /\ q.pc \in {"resolved", "project locked", "profile locked"} => Made(q.reads, q.target)

RequestsGather  == \A r \in Requests : Gathered(req[r])
TokensMade      == \A i \in DOMAIN tokens : Made(tokens[i].reads, tokens[i].target)
ExecutionsMade  == \A i \in DOMAIN executions : Made(executions[i].reads, executions[i].target)

MInv == RequestsGather /\ TokensMade /\ ExecutionsMade

LEMMA MadeAreExecuted ==
  ASSUME NEW reads, NEW target, Made(reads, target)
  PROVE  ContentOf(reads, target) \in Executed
<1> DEFINE e == ContentOf(reads, target)
<1>1. e \in Contents /\ Resolves(Resolution[e]) BY DEF Made, Outcome
<1> HIDE DEF e
<1>2. ResolvesTo(Outcomes[e]) BY <1>1, ResolverIsWired
<1>3. Content(e).outcome = "resolved" BY <1>2 DEF ResolvesTo, Content
<1> QED BY <1>1, <1>3 DEF Executed, e

\* One request moves to a state that is as complete.
LEMMA GatheringStep ==
  ASSUME IInv, RequestsGather, NEW r \in Requests, NEW q, req' = [req EXCEPT ![r] = q],
         Gathered(q)
  PROVE  RequestsGather'
<1> SUFFICES ASSUME NEW s \in Requests PROVE Gathered(req[s])' BY DEF RequestsGather
<1>1. req'[s] = IF s = r THEN q ELSE req[s] BY DEF IInv
<1>2. Gathered(req'[s]) BY <1>1 DEF RequestsGather
<1> QED BY <1>2 DEF Gathered

LEMMA IdleGathered == Gathered(Idle)
BY DEF Gathered, Idle

\* The steps of a request: what it has read grows until the target resolves.
LEMMA RequestGathers ==
  ASSUME IInv, MInv, NEW r \in Requests, RequestStep(r) PROVE RequestsGather'
<1>1. RequestsGather /\ Gathered(req[r]) /\ req[r] \in Request /\ Stands(req[r])
  BY DEF MInv, RequestsGather, IInv, RequestsStand
<1>2. CASE EndRequest(r)
  BY <1>1, <1>2, IdleGathered, GatheringStep DEF EndRequest
<1>3. ASSUME NEW kind \in {"preview", "fresh"}, NEW t \in Targets, Begin(r, kind, t)
      PROVE  RequestsGather'
  <2> DEFINE p == [Idle EXCEPT !.pc = "checked", !.kind = kind, !.target = t,
                               !.revs = CurrentRevs]
  <2>1. p.pc = "checked" BY DEF Idle
  <2>2. req' = [req EXCEPT ![r] = p] BY <1>3 DEF Begin
  <2> HIDE DEF p
  <2>3. Gathered(p) BY <2>1 DEF Gathered
  <2> QED BY <1>1, <2>2, <2>3, GatheringStep
<1>4. ASSUME LoadConfig(r) PROVE RequestsGather'
  <2> DEFINE loaded == IF req[r].revs \in DOMAIN cache THEN cache[req[r].revs] ELSE config
             p == [req[r] EXCEPT !.pc = "configured", !.reads.config = loaded]
  <2>1. loaded \in Configs BY DEF IInv, Cached, Committed
  <2>2. req' = [req EXCEPT ![r] = p]
    <3>1. req' = [req EXCEPT ![r].pc = "configured", ![r].reads.config = loaded]
      BY <1>4 DEF LoadConfig
    <3> HIDE DEF loaded
    <3> QED BY <3>1 DEF IInv
  <2>3. p.pc = "configured" /\ p.reads.config = loaded BY <1>1 DEF Request, Reads
  <2> HIDE DEF p, loaded
  <2>4. Gathered(p) BY <2>1, <2>3 DEF Gathered
  <2> QED BY <1>1, <2>2, <2>4, GatheringStep
<1>5. ASSUME LoadLayout(r) PROVE RequestsGather'
  <2> DEFINE p == [req[r] EXCEPT !.pc = "laid out", !.reads.layout = assets]
  <2>1. req[r].pc = "configured" BY <1>5 DEF LoadLayout, At
  <2>2. req[r].reads.config \in Configs BY <1>1, <2>1 DEF Gathered
  <2>3. req' = [req EXCEPT ![r] = p] BY <1>5 DEF LoadLayout, IInv
  <2>4. p.pc = "laid out" /\ p.reads.layout = assets /\ p.reads.config = req[r].reads.config
    BY <1>1 DEF Request, Reads
  <2>5. assets \in Assets BY DEF IInv, Committed
  <2> HIDE DEF p
  <2>6. Gathered(p) BY <2>2, <2>4, <2>5 DEF Gathered
  <2> QED BY <1>1, <2>3, <2>6, GatheringStep
<1>6. ASSUME LoadVariables(r), ~ EndRequest(r) PROVE RequestsGather'
  <2> DEFINE reads == [req[r].reads EXCEPT !.vars = assets]
             p == [req[r] EXCEPT !.pc = "resolved", !.reads = reads]
  <2>1. req[r].pc = "laid out" BY <1>6 DEF LoadVariables, At
  <2>2. req[r].reads.config \in Configs /\ req[r].reads.layout \in Assets /\ req[r].target \in Targets
    BY <1>1, <2>1 DEF Gathered, Stands, Early
  <2>3. Resolves(Outcome(reads, req[r].target)) /\ req' = [req EXCEPT ![r] = p]
    <3>1. /\ Resolves(Outcome(reads, req[r].target))
          /\ req' = [req EXCEPT ![r].pc = "resolved", ![r].reads = reads]
      BY <1>6 DEF LoadVariables
    <3> HIDE DEF reads
    <3> QED BY <3>1 DEF IInv
  <2>4. reads.layout = req[r].reads.layout /\ reads.config = req[r].reads.config /\ reads.vars = assets
    BY <1>1 DEF Request, Reads
  <2>5. p.pc = "resolved" /\ p.reads = reads /\ p.target = req[r].target BY <1>1 DEF Request
  <2>6. assets \in Assets BY DEF IInv, Committed
  <2> HIDE DEF p, reads
  <2>7. ContentOf(reads, req[r].target) \in Contents BY <2>2, <2>4, <2>6 DEF ContentOf, Contents
  <2>8. Gathered(p) BY <2>3, <2>5, <2>7 DEF Gathered, Made
  <2> QED BY <1>1, <2>3, <2>8, GatheringStep
<1>7. ASSUME NEW i \in TokenIds, PeekToken(r, i) PROVE RequestsGather'
  <2> DEFINE p == [Idle EXCEPT !.pc = "peeked", !.kind = "token", !.token = i,
                               !.consumed = tokens[i].consumed]
  <2>1. p.pc = "peeked" BY DEF Idle
  <2>2. req' = [req EXCEPT ![r] = p] BY <1>7 DEF PeekToken
  <2> HIDE DEF p
  <2>3. Gathered(p) BY <2>1 DEF Gathered
  <2> QED BY <1>1, <2>2, <2>3, GatheringStep
<1>8. ASSUME LockToken(r), ~ EndRequest(r) PROVE RequestsGather'
  <2> DEFINE i == req[r].token
             p == [req[r] EXCEPT !.pc = "resolved", !.target = tokens[i].target,
                            !.revs = tokens[i].revs, !.reads = tokens[i].reads]
  <2>1. i \in DOMAIN tokens /\ req' = [req EXCEPT ![r] = p]
    BY <1>8 DEF LockToken, IInv
  <2>2. p.pc = "resolved" /\ p.reads = tokens[i].reads /\ p.target = tokens[i].target
    BY <1>1 DEF Request
  <2>3. Made(tokens[i].reads, tokens[i].target) BY <2>1 DEF MInv, TokensMade
  <2> HIDE DEF p, i
  <2>4. Gathered(p) BY <2>2, <2>3 DEF Gathered
  <2> QED BY <1>1, <2>1, <2>4, GatheringStep
<1>9. ASSUME NEW pc \in {"project locked", "profile locked"}, Goto(r, pc),
             req[r].pc \in {"resolved", "project locked"}
      PROVE  RequestsGather'
  <2> DEFINE p == [req[r] EXCEPT !.pc = pc]
  <2>1. req' = [req EXCEPT ![r] = p] BY <1>9 DEF Goto, IInv
  <2>2. p.pc = pc /\ p.reads = req[r].reads /\ p.target = req[r].target BY <1>1 DEF Request
  <2>3. Made(req[r].reads, req[r].target) BY <1>1, <1>9 DEF Gathered
  <2> HIDE DEF p
  <2>4. Gathered(p) BY <2>2, <2>3 DEF Gathered
  <2> QED BY <1>1, <2>1, <2>4, GatheringStep
<1>10. ASSUME LockProject(r), ~ EndRequest(r) PROVE RequestsGather'
  <2>1. req[r].pc = "resolved" /\ Goto(r, "project locked") BY <1>10 DEF LockProject, At
  <2> QED BY <1>9, <2>1
<1>11. ASSUME LockProfile(r), ~ EndRequest(r) PROVE RequestsGather'
  <2>1. req[r].pc = "project locked" /\ Goto(r, "profile locked") BY <1>11 DEF LockProfile, At
  <2> QED BY <1>9, <2>1
<1> QED
  BY <1>2, <1>3, <1>4, <1>5, <1>6, <1>7, <1>8, <1>10, <1>11
     DEF RequestStep, AnswerPreview, SavePrepare, CommitExecution, AbortCreation

\* A token keeps what its preview resolved; the execution made of it keeps it too.
LEMMA TokensStayMade ==
  ASSUME IInv, MInv, Next PROVE TokensMade'
<1> SUFFICES ASSUME NEW i \in DOMAIN tokens'
             PROVE  Made(tokens'[i].reads, tokens'[i].target)
  BY DEF TokensMade, Made
<1>1. \A k \in DOMAIN tokens : Made(tokens[k].reads, tokens[k].target) /\ tokens[k] \in Token
  BY DEF MInv, TokensMade, IInv, Prepared
<1>2. CASE tokens' = tokens BY <1>1, <1>2
<1>3. ASSUME NEW r \in Requests, SavePrepare(r)
      PROVE  Made(tokens'[i].reads, tokens'[i].target)
  <2> DEFINE kept == {k \in DOMAIN tokens : ~ tokens[k].expired}
             new  == [target |-> req[r].target, revs |-> req[r].revs, reads |-> req[r].reads,
                      consumed |-> FALSE, expired |-> FALSE]
  <2>1. PICK n \in TokenIds \ DOMAIN tokens :
          tokens' = [k \in kept \cup {n} |-> IF k = n THEN new ELSE tokens[k]]
    BY <1>3 DEF SavePrepare
  <2>2. Made(new.reads, new.target)
    BY <1>3 DEF SavePrepare, At, MInv, RequestsGather, Gathered
  <2>3. kept \subseteq DOMAIN tokens OBVIOUS
  <2> HIDE DEF kept, new
  <2>4. tokens'[i] = new \/ (i \in DOMAIN tokens /\ tokens'[i] = tokens[i]) BY <2>1, <2>3
  <2> QED BY <1>1, <2>2, <2>4
<1>4. ASSUME NEW k \in TokenIds, Expire(k) PROVE Made(tokens'[i].reads, tokens'[i].target)
  <2>1. i \in DOMAIN tokens /\ tokens' = [tokens EXCEPT ![k].expired = TRUE]
    BY <1>4 DEF Expire
  <2>2. tokens'[i].reads = tokens[i].reads /\ tokens'[i].target = tokens[i].target
    BY <1>1, <2>1 DEF Token
  <2> QED BY <1>1, <2>1, <2>2
<1>5. ASSUME NEW r \in Requests, CommitExecution(r), tokens' # tokens
      PROVE  Made(tokens'[i].reads, tokens'[i].target)
  <2>1. tokens' = [k \in DOMAIN tokens |->
                     IF k = req[r].token THEN [tokens[k] EXCEPT !.consumed = TRUE] ELSE tokens[k]]
    BY <1>5 DEF CommitExecution
  <2>2. i \in DOMAIN tokens BY <2>1
  <2>3. tokens'[i] = tokens[i] \/ tokens'[i] = [tokens[i] EXCEPT !.consumed = TRUE]
    BY <2>1, <2>2
  <2>4. tokens'[i].reads = tokens[i].reads /\ tokens'[i].target = tokens[i].target
    BY <1>1, <2>2, <2>3 DEF Token
  <2> QED BY <1>1, <2>2, <2>4
<1>6. \/ tokens' = tokens
      \/ \E r \in Requests : SavePrepare(r) \/ CommitExecution(r)
      \/ \E k \in TokenIds : Expire(k)
  BY DEF Next, RequestStep, Begin, LoadConfig, LoadLayout, LoadVariables, AnswerPreview,
         PeekToken, LockToken, LockProject, LockProfile, AbortCreation, Evict, Retry,
         EditAssets, EditProfile, CommitProfile, AbortEditor, DisableRelease
<1> QED BY <1>2, <1>3, <1>4, <1>5, <1>6

LEMMA ExecutionsStayMade ==
  ASSUME IInv, MInv, Next PROVE ExecutionsMade'
<1>1. /\ executions \in Seq(Execution)
      /\ \A k \in DOMAIN executions : Made(executions[k].reads, executions[k].target)
  BY DEF IInv, MInv, ExecutionsMade
<1>2. ASSUME NEW e, executions' = Append(executions, e), Made(e.reads, e.target)
      PROVE  ExecutionsMade'
  <2> SUFFICES ASSUME NEW i \in DOMAIN executions'
               PROVE  Made(executions'[i].reads, executions'[i].target)
    BY DEF ExecutionsMade, Made
  <2>1. /\ DOMAIN executions = 1 .. Len(executions) /\ Len(executions) \in Nat
        /\ DOMAIN executions' = 1 .. Len(executions) + 1
    BY <1>1, <1>2
  <2>2. CASE i \in DOMAIN executions
    <3>1. executions'[i] = executions[i] BY <1>1, <1>2, <2>1, <2>2
    <3> QED BY <1>1, <2>2, <3>1
  <2>3. CASE i \notin DOMAIN executions
    <3>1. i = Len(executions) + 1 BY <2>1, <2>3
    <3>2. executions'[i] = e BY <1>1, <1>2, <3>1
    <3> QED BY <1>2, <3>2
  <2> QED BY <2>2, <2>3
<1>3. ASSUME NEW r \in Requests, CommitExecution(r), executions' # executions
      PROVE  ExecutionsMade'
  <2> DEFINE e == [target |-> req[r].target, reads |-> req[r].reads,
                   token |-> req[r].token, retryOf |-> 0]
  <2>1. executions' = Append(executions, e) BY <1>3 DEF CommitExecution, NewExecution
  <2>2. Made(e.reads, e.target)
    BY <1>3 DEF CommitExecution, At, MInv, RequestsGather, Gathered
  <2> HIDE DEF e
  <2> QED BY <1>2, <2>1, <2>2
<1>4. ASSUME NEW k \in DOMAIN executions, Retry(k) PROVE ExecutionsMade'
  <2> DEFINE e == [executions[k] EXCEPT !.token = 0, !.retryOf = k]
  <2>1. executions' = Append(executions, e) BY <1>4 DEF Retry, NewExecution
  <2>2. executions[k] \in Execution BY <1>1
  <2>3. e.reads = executions[k].reads /\ e.target = executions[k].target
    BY <2>2 DEF Execution
  <2> HIDE DEF e
  <2>4. Made(e.reads, e.target) BY <1>1, <2>3
  <2> QED BY <1>2, <2>1, <2>4
<1>5. CASE executions' = executions BY <1>1, <1>5 DEF ExecutionsMade, Made
<1>6. Next => [Next]_vars OBVIOUS
<1> QED BY <1>3, <1>4, <1>5, <1>6, Makers

LEMMA InitMInv == Init => MInv
BY IdleGathered DEF Init, MInv, RequestsGather, TokensMade, ExecutionsMade

LEMMA StepMInv == IInv /\ MInv /\ [Next]_vars => MInv'
<1> SUFFICES ASSUME IInv, MInv, [Next]_vars PROVE MInv' OBVIOUS
<1>1. CASE Next
  <2>1. RequestsGather'
    <3>1. CASE \E r \in Requests : RequestStep(r) BY <3>1, RequestGathers
    <3>2. CASE req' = req BY <3>2 DEF MInv, RequestsGather, Gathered
    <3> QED
      BY <1>1, <3>1, <3>2 DEF Next, Evict, Expire, Retry, EditAssets, EditProfile, CommitProfile,
                             AbortEditor, DisableRelease
  <2> QED BY <1>1, <2>1, TokensStayMade, ExecutionsStayMade DEF MInv
<1>2. CASE UNCHANGED vars
  BY <1>2 DEF vars, MInv, RequestsGather, Gathered, TokensMade, ExecutionsMade, Made
<1> QED BY <1>1, <1>2

\* Whatever an execution was made of, an earlier one, a token or a resolution
\* of its own request, that resolved: no execution is empty or an error.
THEOREM ExecutionsResolve == Spec => []MInv
BY InitIInv, StepIInv, InitMInv, StepMInv, PTL DEF Spec

LEMMA NewAreExecuted ==
  ASSUME IInv, MInv, [Next]_vars, NEW contents, Executed \subseteq contents
  PROVE  NewContentIn(contents)
<1> SUFFICES ASSUME NEW i \in DOMAIN executions'
             PROVE  ContentOf(executions'[i].reads, executions'[i].target) \in contents
  BY DEF NewContentIn
<1>1. Made(executions'[i].reads, executions'[i].target) BY StepMInv DEF MInv, ExecutionsMade, Made
<1> QED BY <1>1, MadeAreExecuted

\* A name that an execution made from a profile leaves to the run is set by a
\* node of its own snapshot: an earlier one for a text (render_text), one of any
\* place for a locator, which element_snapshot renders with the names of all
\* nodes (NothingUndefined).
THEOREM NothingRunsUndefined == Spec => NothingUndefined
<1>1. IInv /\ MInv /\ [Next]_vars => [NewContentIn(BoundContents)]_vars
  BY NewAreExecuted, ExecutedAreBound
<1> QED BY <1>1, ReadsStand, ExecutionsResolve, PTL DEF Spec, NothingUndefined

\* A value comes from the scope the page of the profile shows for it
\* (PageShowsWhatRuns): merge_variables and definitions_for_case agree.
THEOREM PageAgrees == Spec => PageShowsWhatRuns
<1>1. IInv /\ MInv /\ [Next]_vars => [NewContentIn(ShownContents)]_vars
  BY NewAreExecuted, ExecutedAreShown
<1> QED BY <1>1, ReadsStand, ExecutionsResolve, PTL DEF Spec, PageShowsWhatRuns

\* The rows of every execution made from a profile pass the test of a retry
\* (RetryIsPossible): materialize numbers what it writes as clone_snapshot
\* expects to find it.
THEOREM EveryExecutionRetries == Spec => RetryIsPossible
<1>1. IInv /\ MInv /\ [Next]_vars => [NewContentIn(ReadyContents)]_vars
  BY NewAreExecuted, ExecutedAreReady
<1> QED BY <1>1, ReadsStand, ExecutionsResolve, PTL DEF Spec, RetryIsPossible

\* Every node of the target runs, or has an exclusion by a rule for its own
\* occurrence, never both and never neither (EveryNodeAccounted).
THEOREM NodesAreAccounted == Spec => EveryNodeAccounted
<1>1. IInv /\ MInv /\ [Next]_vars => [NewContentIn(AccountedContents)]_vars
  BY NewAreExecuted, ExecutedAreAccounted
<1> QED BY <1>1, ReadsStand, ExecutionsResolve, PTL DEF Spec, EveryNodeAccounted

\* The numbers of the summary of every execution made from a profile add up
\* (SummaryAddsUp): each suite and each case of its target is counted as one
\* that runs or one that is left out, once, but for what is deleted.
THEOREM SummariesAddUp == Spec => SummaryAddsUp
<1>1. IInv /\ MInv /\ [Next]_vars => [NewContentIn(AddingUpContents)]_vars
  BY NewAreExecuted, ExecutedAreAddingUp
<1> QED BY <1>1, ReadsStand, ExecutionsResolve, PTL DEF Spec, SummaryAddsUp

=============================================================================
