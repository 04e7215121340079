------------------------------ MODULE Accounts ------------------------------
(***************************************************************************)
(* Users, API keys and webhook endpoints: how a request is authenticated   *)
(* (auth.py) and the handlers that create, replace and withdraw keys and   *)
(* endpoints (routes_v1.py), over the tables users, api_keys and           *)
(* webhook_endpoints.  Every statement is a transaction of its own.        *)
(*                                                                         *)
(* authenticate runs its statements in threads, so those of several        *)
(* requests interleave.  The handlers that change keys and endpoints call  *)
(* db.query without an await: from their first statement to their answer   *)
(* they keep the event loop of their server.  Servers are the processes    *)
(* that answer requests, one by railway.json, two while a deployment       *)
(* replaces one by the other.                                              *)
(***************************************************************************)
EXTENDS Naturals, FiniteSets

CONSTANTS
  Users,        \* Clerk identities
  Servers,      \* processes that serve the API
  Requests,
  NoOne,        \* no user, no request, no key
  ServerOf,     \* the server that answers each request
  MaxKeys,      \* how many keys are ever made, a bound of the model
  PrefixOf,     \* the first characters of each key, which need not differ
  WebhookMax,   \* settings.webhook_max_per_user
  MaxFaults     \* how many statements fail, a bound of the model

Keys == 1..MaxKeys

ASSUME AccountsAssumption ==
  /\ NoOne \notin Users \cup Requests \cup Nat
  /\ Users \cap Nat = {}
  /\ IsFiniteSet(Servers) /\ Servers # {}
  /\ ServerOf \in [Requests -> Servers]
  /\ MaxKeys \in Nat
  /\ DOMAIN PrefixOf = Keys
  /\ WebhookMax \in Nat
  /\ MaxFaults \in Nat

VARIABLES
  users,     \* users.is_active by clerk_id, "none" without a row
  owner,     \* api_keys.user_id, NoOne for a key that is not made yet
  revoked,   \* keys whose revoked_at is set
  hooks,     \* how many enabled webhook endpoints each user has
  loop,      \* the request that keeps the event loop of each server
  pc,        \* where each request is
  op,        \* what it asks for
  cred,      \* what it presents: the session of a user, or a key
  acts,      \* AuthContext.user_id
  made,      \* the key it has made
  shown,     \* keys that were returned to their user
  dead,      \* requests that began with a revoked key or a disabled user
  faults     \* failures so far

tables  == <<users, owner, revoked, hooks>>
request == <<op, cred, acts, made>>
ghosts  == <<shown, dead, faults>>
vars    == <<tables, loop, pc, request, ghosts>>

ClerkOnly  == {"create", "regenerate", "hook"}       \* _require_clerk
Manage     == {"revoke", "unhook"}                   \* scopes no key has
Operations == ClerkOnly \cup Manage \cup {"read"}

InHandler  == {"count", "retire", "insert", "audit"}
Authorized == InHandler \cup {"authorized", "ok"}
Over       == {"ok", "denied", "clash", "error"}
PCs == {"new", "session", "unknown", "token", "matched"} \cup Authorized \cup Over

TypeOK ==
  /\ users \in [Users -> {"none", "active", "disabled"}]
  /\ owner \in [Keys -> Users \cup {NoOne}]
  /\ revoked \in SUBSET Keys
  /\ hooks \in [Users -> Nat]
  /\ loop \in [Servers -> Requests \cup {NoOne}]
  /\ pc \in [Requests -> PCs]
  /\ op \in [Requests -> Operations]
  /\ cred \in [Requests -> Users \cup Keys \cup {NoOne}]
  /\ acts \in [Requests -> Users \cup {NoOne}]
  /\ made \in [Requests -> Keys \cup {NoOne}]
  /\ shown \in SUBSET Keys
  /\ dead \in SUBSET Requests
  /\ faults \in 0..MaxFaults

Init ==
  /\ users = [u \in Users |-> "none"]
  /\ owner = [k \in Keys |-> NoOne]
  /\ revoked = {}
  /\ hooks = [u \in Users |-> 0]
  /\ loop = [s \in Servers |-> NoOne]
  /\ pc = [r \in Requests |-> "new"]
  /\ op = [r \in Requests |-> "read"]
  /\ cred = [r \in Requests |-> NoOne]
  /\ acts = [r \in Requests |-> NoOne]
  /\ made = [r \in Requests |-> NoOne]
  /\ shown = {}
  /\ dead = {}
  /\ faults = 0

-----------------------------------------------------------------------------
(* What the statements select. *)

Active(k) == owner[k] # NoOne /\ k \notin revoked

ActiveKeys(u) == {k \in Keys : owner[k] = u /\ k \notin revoked}

\* Variant: SELECT * FROM api_keys WHERE prefix = ... and nothing else.
AnyWithPrefix(token) ==
  {k \in Keys : owner[k] # NoOne /\ PrefixOf[k] = PrefixOf[token]}

\* SELECT * FROM api_keys WHERE prefix = ... AND revoked_at IS NULL.
Candidates(token) == {k \in Keys : Active(k) /\ PrefixOf[k] = PrefixOf[token]}

\* Variant: the first row is taken without comparing its hash.
FirstRow(token) == Candidates(token)

\* The candidates whose hash is that of the token.
Matches(token) == {k \in Candidates(token) : k = token}

\* SELECT * FROM users WHERE id = ... AND is_active.
IsActive(u) == users[u] = "active"

\* Variant: migration 005 without its index.
AlwaysUnique(u) == TRUE

\* uniq_active_api_key_per_user lets a key of u in.
UniqueIndexAllows(u) == ActiveKeys(u) = {}

\* Variant: revoke_key that looks for the id only.
RevocableByAnyone(u, k) == Active(k)

\* UPDATE api_keys ... WHERE id = k AND user_id = u AND revoked_at IS NULL.
Revocable(u, k) == k \in ActiveKeys(u)

\* disable_webhook finds an enabled endpoint of u.
HasHook(u) == hooks[u] > 0

\* The least key that is not made yet.
Fresh(k) == owner[k] = NoOne /\ \A l \in Keys : l < k => owner[l] # NoOne

-----------------------------------------------------------------------------
(* Control. *)

\* Variant: the handlers run their statements in threads, as authenticate does.
Yields(s) == TRUE

\* A step that needs the event loop of s waits while a handler keeps it.
LoopFree(s) == loop[s] = NoOne

Goto(r, label) == pc' = [pc EXCEPT ![r] = label]

\* The handler of r answers, or raises, and gives the event loop back.
Answer(r, label) ==
  /\ Goto(r, label)
  /\ loop' = [s \in Servers |-> IF loop[s] = r THEN NoOne ELSE loop[s]]

FaultHappens == faults < MaxFaults /\ faults' = faults + 1

-----------------------------------------------------------------------------
(* A request arrives. *)

\* With the session of a user.
Arrive(r) ==
  /\ pc[r] = "new"
  /\ \E o \in Operations, u \in Users :
       /\ op' = [op EXCEPT ![r] = o]
       /\ cred' = [cred EXCEPT ![r] = u]
       /\ dead' = IF users[u] = "disabled" THEN dead \cup {r} ELSE dead
  /\ Goto(r, "session")
  /\ UNCHANGED <<tables, loop, acts, made, shown, faults>>

\* With a key its user was shown.  _require_clerk refuses keys at once.
ArriveWithKey(r) ==
  /\ pc[r] = "new"
  /\ \E o \in Operations, k \in shown :
       /\ op' = [op EXCEPT ![r] = o]
       /\ cred' = [cred EXCEPT ![r] = k]
       /\ dead' = IF k \in revoked \/ users[owner[k]] = "disabled"
                  THEN dead \cup {r} ELSE dead
       /\ Goto(r, IF o \in ClerkOnly THEN "denied" ELSE "token")
  /\ UNCHANGED <<tables, loop, acts, made, shown, faults>>

-----------------------------------------------------------------------------
(* authenticate, in threads. *)

\* _ensure_clerk_user: SELECT * FROM users WHERE clerk_id = ...
FindUser(r) ==
  /\ pc[r] = "session"
  /\ LET u == cred[r] IN
     CASE users[u] = "none"     -> Goto(r, "unknown") /\ UNCHANGED acts
       [] users[u] = "disabled" -> Goto(r, "denied") /\ UNCHANGED acts
       [] users[u] = "active"   -> Goto(r, "authorized") /\ acts' = [acts EXCEPT ![r] = u]
  /\ UNCHANGED <<tables, loop, op, cred, made, ghosts>>

\* ... INSERT ... ON CONFLICT (clerk_id) DO UPDATE ... RETURNING *.
AddUser(r) ==
  /\ pc[r] = "unknown"
  /\ LET u == cred[r] IN
     IF users[u] = "disabled"
     THEN Goto(r, "denied") /\ UNCHANGED <<users, acts>>
     ELSE /\ users' = [users EXCEPT ![u] = "active"]
          /\ acts' = [acts EXCEPT ![r] = u]
          /\ Goto(r, "authorized")
  /\ UNCHANGED <<owner, revoked, hooks, loop, op, cred, made, ghosts>>

\* _auth_api_key: the rows with the prefix of the token, compared with it.
FindKey(r) ==
  /\ pc[r] = "token"
  /\ IF Matches(cred[r]) = {}
     THEN Goto(r, "denied") /\ UNCHANGED acts
     ELSE \E k \in Matches(cred[r]) :
            acts' = [acts EXCEPT ![r] = owner[k]] /\ Goto(r, "matched")
  /\ UNCHANGED <<tables, loop, op, cred, made, ghosts>>

\* ... and the user of the row that matched.  last_used_at is left out.
CheckOwner(r) ==
  /\ pc[r] = "matched"
  /\ Goto(r, IF IsActive(acts[r]) THEN "authorized" ELSE "denied")
  /\ UNCHANGED <<tables, loop, request, ghosts>>

-----------------------------------------------------------------------------
(* create_key, regenerate_key and create_webhook, on the event loop. *)

FirstStep(o) == IF o = "regenerate" THEN "retire" ELSE "count"

\* The handler looks its user up.  A user that was disabled since sends it
\* through authenticate once more.
Enter(r) ==
  /\ pc[r] = "authorized"
  /\ op[r] \in ClerkOnly
  /\ LoopFree(ServerOf[r])
  /\ IF IsActive(acts[r])
     THEN /\ loop' = [loop EXCEPT ![ServerOf[r]] = r]
          /\ Goto(r, FirstStep(op[r]))
     ELSE Goto(r, "session") /\ UNCHANGED loop
  /\ UNCHANGED <<tables, request, ghosts>>

\* 409 key_exists.
CountKeys(r) ==
  /\ pc[r] = "count"
  /\ op[r] = "create"
  /\ IF ActiveKeys(acts[r]) # {}
     THEN Answer(r, "denied")
     ELSE Goto(r, "insert") /\ UNCHANGED loop
  /\ UNCHANGED <<tables, request, ghosts>>

\* 409 webhook_limit, or 422 for a host that safe_webhook_url rejects.
CountHooks(r) ==
  /\ pc[r] = "count"
  /\ op[r] = "hook"
  /\ \/ Answer(r, "denied")
     \/ hooks[acts[r]] < WebhookMax /\ Goto(r, "insert") /\ UNCHANGED loop
  /\ UNCHANGED <<tables, request, ghosts>>

\* UPDATE api_keys SET revoked_at ... WHERE user_id = ... AND revoked_at IS NULL.
Retire(r) ==
  /\ pc[r] = "retire"
  /\ revoked' = revoked \cup ActiveKeys(acts[r])
  /\ Goto(r, "insert")
  /\ UNCHANGED <<users, owner, hooks, loop, request, ghosts>>

\* INSERT INTO api_keys.  A statement that took effect and is sent again meets
\* its own row: the key is there, the request ends in a unique violation.
InsertKey(r) ==
  /\ pc[r] = "insert"
  /\ op[r] \in {"create", "regenerate"}
  /\ \/ /\ ~UniqueIndexAllows(acts[r])
        /\ Answer(r, "clash")
        /\ UNCHANGED <<owner, made, faults>>
     \/ /\ UniqueIndexAllows(acts[r])
        /\ \E k \in Keys :
             /\ Fresh(k)
             /\ owner' = [owner EXCEPT ![k] = acts[r]]
             /\ \/ /\ made' = [made EXCEPT ![r] = k]
                   /\ Goto(r, "audit")
                   /\ UNCHANGED <<loop, faults>>
                \/ FaultHappens /\ Answer(r, "clash") /\ UNCHANGED made
  /\ UNCHANGED <<users, revoked, hooks, op, cred, acts, shown, dead>>

\* INSERT INTO webhook_endpoints, once, or twice if it is sent again.
InsertHook(r) ==
  /\ pc[r] = "insert"
  /\ op[r] = "hook"
  /\ \/ hooks' = [hooks EXCEPT ![acts[r]] = @ + 1] /\ UNCHANGED faults
     \/ hooks' = [hooks EXCEPT ![acts[r]] = @ + 2] /\ FaultHappens
  /\ Goto(r, "audit")
  /\ UNCHANGED <<users, owner, revoked, loop, request, shown, dead>>

\* INSERT INTO audit_log, and the answer, with the key if one was made.
Audit(r) ==
  /\ pc[r] = "audit"
  /\ Answer(r, "ok")
  /\ shown' = shown \cup ({made[r]} \ {NoOne})
  /\ UNCHANGED <<tables, request, dead, faults>>

-----------------------------------------------------------------------------
(* The handlers behind guard: one statement, and the audit. *)

\* require_scope: new keys have "humanize" and "jobs:read" only.
HasScope(r) == cred[r] \in Users \/ op[r] \notin Manage

Ready(r, o) ==
  /\ pc[r] = "authorized"
  /\ op[r] = o
  /\ LoopFree(ServerOf[r])

\* 429 by guard, 403, or 404 for an id that does not exist, is somebody else's
\* or is gone.
Refuse(r) ==
  /\ \E o \in Manage \cup {"read"} : Ready(r, o)
  /\ Goto(r, "denied")
  /\ UNCHANGED <<tables, loop, request, ghosts>>

Read(r) ==
  /\ Ready(r, "read")
  /\ Goto(r, "ok")
  /\ UNCHANGED <<tables, loop, request, ghosts>>

\* revoke_key.
Revoke(r) ==
  /\ Ready(r, "revoke")
  /\ HasScope(r)
  /\ \E k \in Keys : Revocable(acts[r], k) /\ revoked' = revoked \cup {k}
  /\ loop' = [loop EXCEPT ![ServerOf[r]] = r]
  /\ Goto(r, "audit")
  /\ UNCHANGED <<users, owner, hooks, request, ghosts>>

\* disable_webhook.
Unhook(r) ==
  /\ Ready(r, "unhook")
  /\ HasScope(r)
  /\ HasHook(acts[r])
  /\ hooks' = [hooks EXCEPT ![acts[r]] = @ - 1]
  /\ loop' = [loop EXCEPT ![ServerOf[r]] = r]
  /\ Goto(r, "audit")
  /\ UNCHANGED <<users, owner, revoked, request, ghosts>>

-----------------------------------------------------------------------------
\* A statement fails, after its one retry: the request ends in an error and
\* what it has done so far stays.
Fail(r) ==
  /\ pc[r] \notin Over \cup {"new"}
  /\ FaultHappens
  /\ Answer(r, "error")
  /\ UNCHANGED <<tables, request, shown, dead>>

\* Somebody sets is_active to false; no code of the repository does.
Disable(u) ==
  /\ users[u] = "active"
  /\ users' = [users EXCEPT ![u] = "disabled"]
  /\ UNCHANGED <<owner, revoked, hooks, loop, pc, request, ghosts>>

Authenticate(r) == FindUser(r) \/ AddUser(r) \/ FindKey(r) \/ CheckOwner(r)

Handle(r) ==
  \/ Enter(r) \/ CountKeys(r) \/ CountHooks(r) \/ Retire(r)
  \/ InsertKey(r) \/ InsertHook(r) \/ Audit(r)
  \/ Refuse(r) \/ Read(r) \/ Revoke(r) \/ Unhook(r)

Next ==
  \/ \E r \in Requests :
       Arrive(r) \/ ArriveWithKey(r) \/ Authenticate(r) \/ Handle(r) \/ Fail(r)
  \/ \E u \in Users : Disable(u)

Spec == Init /\ [][Next]_vars

-----------------------------------------------------------------------------
(* Properties. *)

\* Each account has at most one active key, whatever create_key and
\* regenerate_key do at the same time on several servers.
AtMostOneActiveKey == \A u \in Users : \A k, l \in ActiveKeys(u) : k = l

\* A request that begins after its key was revoked or replaced, or its user
\* disabled, is not let in, by key or by session, although the lookup of the
\* key, that of its user and the handler are apart.
WithdrawnRefused == \A r \in dead : pc[r] \notin Authorized

\* A request acts for the user who owns what it presented, even if keys of
\* several users begin with the same characters.
ActsForOwner ==
  \A r \in Requests : pc[r] \in Authorized =>
    acts[r] = IF cred[r] \in Keys THEN owner[cred[r]] ELSE cred[r]

\* Keys are made and revoked by the session of their own user only.
KeysChangedByOwner ==
  [][\A k \in Keys : owner'[k] # owner[k] \/ (k \in revoked' /\ k \notin revoked) =>
       \E r \in Requests : pc'[r] # pc[r] /\ cred[r] = owner'[k]]_vars

\* The count and the INSERT of a webhook are apart, but on one event loop: the
\* limit is exceeded by at most one endpoint per further server, and one per
\* INSERT that was sent twice.
WebhookLimit ==
  \A u \in Users : hooks[u] <= WebhookMax + (Cardinality(Servers) - 1) + faults
=============================================================================
