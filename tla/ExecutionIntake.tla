-------------------------- MODULE ExecutionIntake --------------------------
(***************************************************************************)
(* How an execution of a profile comes to exist: the preview that resolves *)
(* a target and may save a prepare token, the creation from a token or     *)
(* afresh, and the retry of a settled execution, while other users edit    *)
(* the project's assets and the profile (api/executions.py,                *)
(* services/execution_service.py, execution_prepare.py, profile_resolver.  *)
(* resolve, profile_service.py and asset_service.py).                      *)
(*                                                                         *)
(* A resolution reads the database in several statements, each of which    *)
(* sees what is committed by then (READ COMMITTED).  Two revision numbers  *)
(* say whether what was read still stands: the project's moves with every  *)
(* change of its assets, the profile's with every change of the profile.   *)
(* What a resolution makes of its four inputs is the function Resolution;  *)
(* an execution stores its outcome, kept here as the inputs it was made of.*)
(***************************************************************************)
EXTENDS Naturals, Sequences, FiniteSets

CONSTANTS Requests,        \* request handlers of the backend
          Assets,          \* what the assets of the project can be
          Configs,         \* what the rules of the profile can be
          AssetEdits,      \* pairs, what an edit can make of the assets
          ConfigEdits,     \* and of the rules
          Targets,         \* what a user can ask to run
          Nothing,         \* not read, no target, no editor, nobody
          Resolution,      \* of a content: layout, variables, rules and target
          Resolves(_),     \* the outcome is neither empty nor an error
          SnapshotReady(_),\* its rows pass the test of a retry
          MaxRequests, MaxEdits, MaxTokens, MaxRetries, MaxTargets  \* bounds

ASSUME NothingIsNew ==
  Nothing \notin Requests \cup Assets \cup Configs \cup Targets

ASSUME EditsStayInside ==
  AssetEdits \subseteq Assets \X Assets /\ ConfigEdits \subseteq Configs \X Configs

ASSUME BoundsAreNumbers ==
  {MaxRequests, MaxEdits, MaxTokens, MaxRetries, MaxTargets} \subseteq Nat

Editor == <<"editor">>

ASSUME EditorIsNew == Editor \notin Requests \cup {Nothing}

Revs   == [asset : Nat, config : Nat]

VARIABLES
  assets, assetRev,      \* committed assets, projects.test_asset_revision
  config, configRev,     \* committed profile rules, app_profiles.revision
  released,              \* the release is active
  cache,                 \* _LRUCache: rules by revisions
  editing,               \* the rules an editor has written, not committed
  projectLock, profileLock,  \* row locks
  req,                   \* the request handlers
  begun,                 \* how many requests there have been
  tokens,                \* execution_prepares
  executions             \* executions

vars == <<assets, assetRev, config, configRev, released, cache, editing,
          projectLock, profileLock, req, begun, tokens, executions>>
edits == <<assets, assetRev, config, configRev, released, editing>>
locks == <<projectLock, profileLock>>

TokenIds == 1 .. MaxTokens
Reads    == [layout : Assets \cup {Nothing}, vars : Assets \cup {Nothing},
             config : Configs \cup {Nothing}]
Unread   == [layout |-> Nothing, vars |-> Nothing, config |-> Nothing]
NoRevs   == [asset |-> 0, config |-> 0]

Idle == [pc |-> "idle", kind |-> "preview", target |-> Nothing, revs |-> NoRevs,
         reads |-> Unread, token |-> 0, consumed |-> FALSE]

ContentOf(reads, target) ==
  [layout |-> reads.layout, vars |-> reads.vars, config |-> reads.config, target |-> target]
Outcome(reads, target) == Resolution[ContentOf(reads, target)]

Current == [layout |-> assets, vars |-> assets, config |-> config]
CurrentRevs == [asset |-> assetRev, config |-> configRev]

Init ==
  /\ assets \in Assets /\ config \in Configs
  /\ assetRev = 1 /\ configRev = 1
  /\ released = TRUE
  /\ cache = [r \in {} |-> Nothing]
  /\ editing = Nothing
  /\ projectLock = Nothing /\ profileLock = Nothing
  /\ req = [r \in Requests |-> Idle] /\ begun = 0
  /\ tokens = [i \in {} |-> Nothing]
  /\ executions = <<>>

At(r, pc) == req[r].pc = pc
Goto(r, pc) == req' = [req EXCEPT ![r].pc = pc]
EndRequest(r) == req' = [req EXCEPT ![r] = Idle]

----------------------------------------------------------------------------
(* Resolution (resolve), for a preview and for a creation without a token. *)

\* Bound: how many requests there are.
StartRequest(r) == At(r, "idle") /\ begun < MaxRequests /\ begun' = begun + 1

\* Bound: how many different targets are under way or stored.
TargetsInUse ==
  ({req[r].target : r \in Requests} \cup {tokens[i].target : i \in DOMAIN tokens}
     \cup {executions[i].target : i \in DOMAIN executions}) \ {Nothing}

\* The request begins on the revisions resolve compares with the rows: a
\* preview those of the rows it has just loaded, a creation those its client
\* sends, which are the current ones or it is refused.
Begin(r, kind, t) ==
  /\ StartRequest(r)
  /\ Cardinality(TargetsInUse \cup {t}) <= MaxTargets
  /\ released
  /\ req' = [req EXCEPT ![r] = [Idle EXCEPT !.pc = "checked", !.kind = kind,
                                            !.target = t, !.revs = CurrentRevs]]
  /\ UNCHANGED <<edits, locks, cache, tokens, executions>>

\* The profile's rules, from the cache or loaded and put there.
LoadConfig(r) ==
  /\ At(r, "checked")
  /\ LET revs == req[r].revs
         loaded == IF revs \in DOMAIN cache THEN cache[revs] ELSE config
     IN /\ req' = [req EXCEPT ![r].pc = "configured", ![r].reads.config = loaded]
        /\ cache' = [k \in DOMAIN cache \cup {revs} |->
                       IF k = revs THEN loaded ELSE cache[k]]
  /\ UNCHANGED <<edits, begun, locks, tokens, executions>>

\* An entry is dropped when it is the oldest of a full cache, or too old.
Evict(revs) ==
  /\ revs \in DOMAIN cache
  /\ cache' = [k \in DOMAIN cache \ {revs} |-> cache[k]]
  /\ UNCHANGED <<edits, begun, locks, req, tokens, executions>>

\* Suites, members and cases.
LoadLayout(r) ==
  /\ At(r, "configured")
  /\ req' = [req EXCEPT ![r].pc = "laid out", ![r].reads.layout = assets]
  /\ UNCHANGED <<edits, begun, locks, cache, tokens, executions>>

\* Variables and elements; then everything is put together in memory.
LoadVariables(r) ==
  /\ At(r, "laid out")
  /\ LET reads == [req[r].reads EXCEPT !.vars = assets]
     IN IF Resolves(Outcome(reads, req[r].target))
        THEN req' = [req EXCEPT ![r].pc = "resolved", ![r].reads = reads]
        ELSE EndRequest(r)
  /\ UNCHANGED <<edits, begun, locks, cache, tokens, executions>>

----------------------------------------------------------------------------
(* Prepare tokens.                                                         *)

TokenLocked(i) == \E r \in Requests : req[r].token = i /\ req[r].pc \notin {"idle", "peeked"}

\* The answer of a preview that names no device.
AnswerPreview(r) ==
  /\ At(r, "resolved") /\ req[r].kind = "preview"
  /\ EndRequest(r)
  /\ UNCHANGED <<edits, begun, locks, cache, tokens, executions>>

\* create_prepare: the same transaction clears out expired tokens.  A row
\* that refers to the project waits for a creation that has locked it.
SavePrepare(r) ==
  /\ At(r, "resolved") /\ req[r].kind = "preview"
  /\ projectLock = Nothing
  /\ LET kept == {i \in DOMAIN tokens : ~ tokens[i].expired}
     IN /\ \A i \in DOMAIN tokens \ kept : ~ TokenLocked(i)
        /\ \E i \in TokenIds \ DOMAIN tokens :
             tokens' = [k \in kept \cup {i} |->
                          IF k = i
                          THEN [target |-> req[r].target, revs |-> req[r].revs,
                                reads |-> req[r].reads,
                                consumed |-> FALSE, expired |-> FALSE]
                          ELSE tokens[k]]
  /\ EndRequest(r)
  /\ UNCHANGED <<edits, begun, locks, cache, executions>>

Expire(i) ==
  /\ i \in DOMAIN tokens /\ ~ tokens[i].expired
  /\ tokens' = [tokens EXCEPT ![i].expired = TRUE]
  /\ UNCHANGED <<edits, begun, locks, cache, req, executions>>

\* The endpoint reads the token to learn its project, and keeps the object.
PeekToken(r, i) ==
  /\ StartRequest(r) /\ i \in DOMAIN tokens
  /\ req' = [req EXCEPT ![r] = [Idle EXCEPT !.pc = "peeked", !.kind = "token",
                                  !.token = i, !.consumed = tokens[i].consumed]]
  /\ UNCHANGED <<edits, locks, cache, tokens, executions>>

\* lock_for_create waits for the row's lock and returns the object the
\* session already holds, with the consumed_at it was peeked with.
LockToken(r) ==
  /\ At(r, "peeked")
  /\ ~ TokenLocked(req[r].token)
  /\ LET i == req[r].token
     IN IF i \in DOMAIN tokens /\ ~ req[r].consumed /\ ~ tokens[i].expired
        THEN req' = [req EXCEPT ![r].pc = "resolved", ![r].target = tokens[i].target,
                                ![r].revs = tokens[i].revs, ![r].reads = tokens[i].reads]
        ELSE EndRequest(r)
  /\ UNCHANGED <<edits, begun, locks, cache, tokens, executions>>

----------------------------------------------------------------------------
(* Creation (_create_execution_with_profile).                              *)

\* _lock_and_verify_resolution_revisions takes the project row first,
LockProject(r) ==
  /\ At(r, "resolved") /\ req[r].kind # "preview"
  /\ projectLock = Nothing
  /\ IF req[r].revs.asset = assetRev
     THEN Goto(r, "project locked") /\ projectLock' = r
     ELSE EndRequest(r) /\ UNCHANGED projectLock
  /\ UNCHANGED <<edits, begun, profileLock, cache, tokens, executions>>

LockProfileUncompared(r) ==  \* mutant: does not compare its revision
  /\ At(r, "project locked")
  /\ profileLock = Nothing
  /\ Goto(r, "profile locked") /\ profileLock' = r
  /\ UNCHANGED <<edits, begun, projectLock, cache, tokens, executions>>

\* then the profile row.
LockProfile(r) ==
  /\ At(r, "project locked")
  /\ profileLock = Nothing
  /\ IF req[r].revs.config = configRev
     THEN Goto(r, "profile locked") /\ profileLock' = r /\ UNCHANGED projectLock
     ELSE EndRequest(r) /\ projectLock' = Nothing /\ UNCHANGED profileLock
  /\ UNCHANGED <<edits, begun, cache, tokens, executions>>

NewExecution(e) == executions' = Append(executions, e)

\* The release is verified; execution, snapshot, queue row and consumed_at
\* are one commit.
CommitExecution(r) ==
  /\ At(r, "profile locked")
  /\ IF released
     THEN /\ NewExecution([target |-> req[r].target, reads |-> req[r].reads,
                           token |-> req[r].token, retryOf |-> 0])
          /\ tokens' = [i \in DOMAIN tokens |->
                          IF i = req[r].token
                          THEN [tokens[i] EXCEPT !.consumed = TRUE] ELSE tokens[i]]
     ELSE UNCHANGED <<executions, tokens>>
  /\ projectLock' = Nothing /\ profileLock' = Nothing
  /\ EndRequest(r)
  /\ UNCHANGED <<edits, begun, cache>>

\* retry_execution copies the rows of a settled execution and reads neither
\* assets nor profile.  When it settles is ExecutionLifecycle's: here any
\* execution may have.
Retry(i) ==
  /\ i \in DOMAIN executions
  /\ Cardinality({j \in DOMAIN executions : executions[j].retryOf # 0}) < MaxRetries
  /\ projectLock = Nothing
  /\ SnapshotReady(Outcome(executions[i].reads, executions[i].target))
  /\ NewExecution([executions[i] EXCEPT !.token = 0, !.retryOf = i])
  /\ UNCHANGED <<edits, begun, locks, cache, req, tokens>>

----------------------------------------------------------------------------
(* The editors.                                                            *)

\* Bound: how often assets, profile and release change.
MayEdit == released /\ assetRev + configRev < 2 + MaxEdits

\* commit_asset_change: the change and the new revision are one commit, and
\* the revision waits for a creation that has locked the project row.
EditAssets(a) ==
  /\ MayEdit /\ <<assets, a>> \in AssetEdits
  /\ projectLock = Nothing
  /\ assets' = a /\ assetRev' = assetRev + 1
  /\ UNCHANGED <<begun, config, configRev, released, editing, cache, locks, req, tokens, executions>>

\* bump_profile_revision takes the profile row; the rules are written,
EditProfile(c) ==
  /\ MayEdit /\ <<config, c>> \in ConfigEdits
  /\ profileLock = Nothing
  /\ profileLock' = Editor /\ editing' = c
  /\ UNCHANGED <<begun, assets, assetRev, config, configRev, released, projectLock,
                 cache, req, tokens, executions>>

\* and write_audit, whose row refers to the project, waits for a creation
\* that has locked the project row; then both are committed.
CommitProfile ==
  /\ profileLock = Editor
  /\ projectLock = Nothing
  /\ config' = editing /\ configRev' = configRev + 1 /\ editing' = Nothing
  /\ profileLock' = Nothing
  /\ UNCHANGED <<begun, assets, assetRev, released, projectLock, cache, req, tokens, executions>>

\* A creation takes project, then profile; an editor profile, then project.
\* When both wait for each other the database ends one of the two.
Deadlocked == profileLock = Editor /\ \E r \in Requests : At(r, "project locked")

AbortEditor ==
  /\ Deadlocked
  /\ editing' = Nothing /\ profileLock' = Nothing
  /\ UNCHANGED <<begun, assets, assetRev, config, configRev, released, projectLock,
                 cache, req, tokens, executions>>

AbortCreation(r) ==
  /\ Deadlocked /\ At(r, "project locked")
  /\ EndRequest(r) /\ projectLock' = Nothing
  /\ UNCHANGED <<edits, begun, profileLock, cache, tokens, executions>>

\* A release is taken out of use without moving a revision.
DisableRelease ==
  /\ MayEdit /\ released' = FALSE
  /\ UNCHANGED <<begun, assets, assetRev, config, configRev, editing, locks, cache,
                 req, tokens, executions>>

----------------------------------------------------------------------------
RequestStep(r) ==
  \/ \E kind \in {"preview", "fresh"}, t \in Targets : Begin(r, kind, t)
  \/ LoadConfig(r)
  \/ LoadLayout(r)
  \/ LoadVariables(r)
  \/ AnswerPreview(r)
  \/ SavePrepare(r)
  \/ \E i \in TokenIds : PeekToken(r, i)
  \/ LockToken(r)
  \/ LockProject(r)
  \/ LockProfile(r)
  \/ CommitExecution(r)
  \/ AbortCreation(r)

Next ==
  \/ \E r \in Requests : RequestStep(r)
  \/ \E revs \in DOMAIN cache : Evict(revs)
  \/ \E i \in TokenIds : Expire(i)
  \/ \E i \in DOMAIN executions : Retry(i)
  \/ \E a \in Assets : EditAssets(a)
  \/ \E c \in Configs : EditProfile(c)
  \/ CommitProfile
  \/ AbortEditor
  \/ DisableRelease

Spec == Init /\ [][Next]_vars

----------------------------------------------------------------------------
Request == [pc : {"idle", "checked", "configured", "laid out", "resolved",
                  "peeked", "project locked", "profile locked"},
            kind : {"preview", "fresh", "token"}, target : Targets \cup {Nothing},
            revs : Revs, reads : Reads, token : Nat, consumed : BOOLEAN]
Token == [target : Targets, revs : Revs, reads : Reads,
          consumed : BOOLEAN, expired : BOOLEAN]
Execution == [target : Targets, reads : Reads, token : Nat, retryOf : Nat]

\* Every variable has its type; a lock is held by the request or the editor
\* that is between taking it and its commit, and nobody else.
TypeOK ==
  /\ assets \in Assets /\ config \in Configs
  /\ assetRev \in Nat /\ configRev \in Nat
  /\ released \in BOOLEAN
  /\ DOMAIN cache \subseteq Revs /\ \A k \in DOMAIN cache : cache[k] \in Configs
  /\ editing \in Configs \cup {Nothing}
  /\ req \in [Requests -> Request] /\ begun \in Nat
  /\ DOMAIN tokens \subseteq TokenIds /\ \A i \in DOMAIN tokens : tokens[i] \in Token
  /\ executions \in Seq(Execution)
  /\ projectLock \in Requests \cup {Nothing}
  /\ profileLock \in Requests \cup {Nothing, Editor}
  /\ \A r \in Requests :
       /\ projectLock = r <=> req[r].pc \in {"project locked", "profile locked"}
       /\ profileLock = r <=> req[r].pc = "profile locked"

Created(i) == i \in DOMAIN executions' \ DOMAIN executions

\* An execution that is not a retry runs what the assets and the profile are
\* at its commit, however long ago it was previewed, whatever the cache
\* holds and whoever edits meanwhile (_lock_and_verify_resolution_revisions).
SnapshotIsCurrent ==
  [][\A i \in DOMAIN executions' :
       Created(i) /\ executions'[i].retryOf = 0
         => Outcome(executions'[i].reads, executions'[i].target)
              = Outcome(Current, executions'[i].target)]_vars

\* A prepare token gives one execution ("token 只能消费一次").
OneExecutionPerToken ==
  \A i, j \in DOMAIN executions :
    executions[i].token = executions[j].token /\ executions[i].token # 0 => i = j

=============================================================================
