--------------------------- MODULE AccountsProofs ---------------------------
(***************************************************************************)
(* Proofs about Accounts: one active key per user, no admission of revoked *)
(* keys and disabled users, every request acts for the owner of what it    *)
(* presented, and the bound of the webhook limit, for any number of users, *)
(* servers, requests and keys.                                             *)
(***************************************************************************)
EXTENDS Accounts, FiniteSetTheorems, TLAPS

\* What the steps of Handle and Authenticate are, one by one.
LEMMA StepCases ==
  ASSUME [Next]_vars
  PROVE  \/ \E r \in Requests : Arrive(r) \/ ArriveWithKey(r)
         \/ \E r \in Requests : FindUser(r) \/ AddUser(r) \/ FindKey(r) \/ CheckOwner(r)
         \/ \E r \in Requests : Enter(r) \/ CountKeys(r) \/ CountHooks(r) \/ Retire(r)
         \/ \E r \in Requests : InsertKey(r) \/ InsertHook(r) \/ Audit(r)
         \/ \E r \in Requests : Refuse(r) \/ Read(r) \/ Revoke(r) \/ Unhook(r)
         \/ \E r \in Requests : Fail(r)
         \/ \E u \in Users : Disable(u)
         \/ UNCHANGED vars
BY DEF Next, Authenticate, Handle

\* The user of a request that got past its lookup, or began with a session.
Known(r) == pc[r] \in Authorized \cup {"matched"} => acts[r] \in Users

Presented(r) ==
  /\ pc[r] \in {"session", "unknown"} => cred[r] \in Users
  /\ pc[r] \in {"token", "matched"} => cred[r] \in Keys /\ op[r] \notin ClerkOnly
  /\ pc[r] \in Authorized /\ op[r] \in ClerkOnly => cred[r] \in Users

KnownInv == \A r \in Requests : Known(r) /\ Presented(r)

\* The places of a request the actions name.
LEMMA Labels ==
  /\ {"new", "session", "unknown", "token", "matched", "authorized"} \subseteq PCs
  /\ {"count", "retire", "insert", "audit", "ok", "denied", "clash", "error"} \subseteq PCs
BY DEF PCs, Authorized, InHandler, Over

\* The three answers of the lookup of a Clerk user.
LEMMA UserFound ==
  ASSUME TypeOK, KnownInv, NEW r \in Requests, FindUser(r)
  PROVE  /\ pc[r] = "session" /\ cred[r] \in Users
         /\ UNCHANGED <<users, owner, revoked, hooks, loop, op, cred, made, shown, dead, faults>>
         /\ \/ /\ pc' = [pc EXCEPT ![r] = "unknown"] /\ UNCHANGED acts
               /\ users[cred[r]] = "none"
            \/ pc' = [pc EXCEPT ![r] = "denied"] /\ UNCHANGED acts
            \/ /\ pc' = [pc EXCEPT ![r] = "authorized"] /\ acts' = [acts EXCEPT ![r] = cred[r]]
               /\ users[cred[r]] = "active"
<1>1. pc[r] = "session" /\ cred[r] \in Users
  BY DEF FindUser, KnownInv, Presented
<1>2. QED
  BY <1>1 DEF FindUser, TypeOK, tables, ghosts, Goto

\* Every step keeps the types.
LEMMA TypeStep ==
  ASSUME TypeOK, KnownInv, [Next]_vars
  PROVE  TypeOK'
<1> USE AccountsAssumption DEF TypeOK, tables, request, ghosts, Goto
<1>1. ASSUME NEW r \in Requests, Arrive(r) \/ ArriveWithKey(r)
      PROVE  TypeOK'
  <2>1. CASE Arrive(r)
    BY <2>1, Labels DEF Arrive
  <2>2. CASE ArriveWithKey(r)
    BY <2>2, Labels DEF ArriveWithKey
  <2>3. QED
    BY <1>1, <2>1, <2>2
<1>2. ASSUME NEW r \in Requests, FindUser(r) \/ AddUser(r) \/ FindKey(r) \/ CheckOwner(r)
      PROVE  TypeOK'
  <2>1. CASE FindUser(r)
    BY <2>1, UserFound, Labels
  <2>2. CASE AddUser(r)
    BY <2>2, Labels DEF AddUser, KnownInv, Presented
  <2>3. CASE FindKey(r)
    BY <2>3, Labels DEF FindKey, Matches, Candidates, Active
  <2>4. CASE CheckOwner(r)
    BY <2>4, Labels DEF CheckOwner
  <2>5. QED
    BY <1>2, <2>1, <2>2, <2>3, <2>4
<1>3. ASSUME NEW r \in Requests, Enter(r) \/ CountKeys(r) \/ CountHooks(r) \/ Retire(r)
      PROVE  TypeOK'
  <2>1. CASE Enter(r)
    <3>1. FirstStep(op[r]) \in PCs
      BY Labels DEF FirstStep
    <3>2. CASE IsActive(acts[r])
      BY <2>1, <3>1, <3>2 DEF Enter
    <3>3. CASE ~IsActive(acts[r])
      BY <2>1, <3>3, Labels DEF Enter
    <3>4. QED
      BY <3>2, <3>3
  <2>2. CASE CountKeys(r)
    BY <2>2, Labels DEF CountKeys, Answer
  <2>3. CASE CountHooks(r)
    BY <2>3, Labels DEF CountHooks, Answer
  <2>4. CASE Retire(r)
    BY <2>4, Labels DEF Retire, ActiveKeys
  <2>5. QED
    BY <1>3, <2>1, <2>2, <2>3, <2>4
<1>4. ASSUME NEW r \in Requests, InsertKey(r) \/ InsertHook(r) \/ Audit(r)
      PROVE  TypeOK'
  <2>1. CASE InsertKey(r)
    <3>1. acts[r] \in Users
      BY <2>1 DEF InsertKey, KnownInv, Known, Authorized, InHandler
    <3>2. CASE ~UniqueIndexAllows(acts[r])
      BY <2>1, <3>2, Labels DEF InsertKey, Answer
    <3>3. CASE UniqueIndexAllows(acts[r])
      <4>1. PICK k \in Keys :
              /\ owner' = [owner EXCEPT ![k] = acts[r]]
              /\ \/ /\ made' = [made EXCEPT ![r] = k]
                    /\ Goto(r, "audit")
                    /\ UNCHANGED <<loop, faults>>
                 \/ FaultHappens /\ Answer(r, "clash") /\ UNCHANGED made
        BY <2>1, <3>3 DEF InsertKey
      <4>2. UNCHANGED <<users, revoked, hooks, op, cred, acts, shown, dead>>
        BY <2>1 DEF InsertKey
      <4>3. owner' \in [Keys -> Users \cup {NoOne}]
        BY <3>1, <4>1
      <4>4. CASE UNCHANGED faults /\ made' = [made EXCEPT ![r] = k] /\ Goto(r, "audit") /\ UNCHANGED loop
        BY <4>2, <4>3, <4>4, Labels
      <4>5. CASE FaultHappens /\ Answer(r, "clash") /\ UNCHANGED made
        BY <4>2, <4>3, <4>5, Labels DEF Answer, FaultHappens
      <4>6. QED
        BY <4>1, <4>4, <4>5
    <3>4. QED
      BY <3>2, <3>3
  <2>2. CASE InsertHook(r)
    <3>1. acts[r] \in Users
      BY <2>2 DEF InsertHook, KnownInv, Known, Authorized, InHandler
    <3>2. hooks' \in [Users -> Nat] /\ faults' \in 0..MaxFaults
      BY <2>2, <3>1 DEF InsertHook, FaultHappens
    <3>3. QED
      BY <2>2, <3>2, Labels DEF InsertHook
  <2>3. CASE Audit(r)
    BY <2>3, Labels DEF Audit, Answer
  <2>4. QED
    BY <1>4, <2>1, <2>2, <2>3
<1>5. ASSUME NEW r \in Requests, Refuse(r) \/ Read(r) \/ Revoke(r) \/ Unhook(r)
      PROVE  TypeOK'
  <2>1. CASE Refuse(r)
    BY <2>1, Labels DEF Refuse
  <2>2. CASE Read(r)
    BY <2>2, Labels DEF Read, Ready
  <2>3. CASE Revoke(r)
    BY <2>3, Labels DEF Revoke, Ready, Revocable, ActiveKeys
  <2>4. CASE Unhook(r)
    BY <2>4, Labels DEF Unhook, Ready, HasHook, KnownInv, Known, Authorized
  <2>5. QED
    BY <1>5, <2>1, <2>2, <2>3, <2>4
<1>6. ASSUME NEW r \in Requests, Fail(r)
      PROVE  TypeOK'
  BY <1>6, Labels DEF Fail, Answer, FaultHappens
<1>7. ASSUME NEW u \in Users, Disable(u)
      PROVE  TypeOK'
  BY <1>7 DEF Disable
<1>8. CASE UNCHANGED vars
  BY <1>8 DEF vars
<1>9. QED
  BY <1>1, <1>2, <1>3, <1>4, <1>5, <1>6, <1>7, <1>8, StepCases

\* A key is matched only with a token that is a key; no key has a session.
LEMMA KnownStep ==
  ASSUME TypeOK, KnownInv, [Next]_vars
  PROVE  KnownInv'
<1> USE AccountsAssumption DEF TypeOK, KnownInv, Known, Presented, PCs, Authorized, InHandler, Over,
        tables, request, ghosts, Goto
<1>1. ASSUME NEW r \in Requests, Arrive(r) \/ ArriveWithKey(r)
      PROVE  KnownInv'
  <2>1. CASE Arrive(r)
    BY <2>1 DEF Arrive, ClerkOnly
  <2>2. CASE ArriveWithKey(r)
    BY <2>2 DEF ArriveWithKey
  <2>3. QED
    BY <1>1, <2>1, <2>2
<1>2. ASSUME NEW r \in Requests, FindUser(r) \/ AddUser(r) \/ FindKey(r) \/ CheckOwner(r)
      PROVE  KnownInv'
  <2>1. CASE FindUser(r)
    BY <2>1, UserFound
  <2>2. CASE AddUser(r)
    BY <2>2 DEF AddUser
  <2>3. CASE FindKey(r)
    BY <2>3 DEF FindKey, Matches, Candidates, Active, Keys
  <2>4. CASE CheckOwner(r)
    <3>1. /\ pc[r] = "matched"
          /\ \/ pc' = [pc EXCEPT ![r] = "denied"]
             \/ pc' = [pc EXCEPT ![r] = "authorized"]
          /\ UNCHANGED <<op, cred, acts>>
      BY <2>4 DEF CheckOwner
    <3>2. QED
      BY <3>1
  <2>5. QED
    BY <1>2, <2>1, <2>2, <2>3, <2>4
<1>3. ASSUME NEW r \in Requests, Enter(r) \/ CountKeys(r) \/ CountHooks(r) \/ Retire(r)
      PROVE  KnownInv'
  <2>1. CASE Enter(r)
    <3>1. /\ pc[r] = "authorized" /\ op[r] \in ClerkOnly
          /\ \/ pc' = [pc EXCEPT ![r] = "session"]
             \/ pc' = [pc EXCEPT ![r] = "retire"]
             \/ pc' = [pc EXCEPT ![r] = "count"]
          /\ UNCHANGED <<op, cred, acts>>
      BY <2>1 DEF Enter, FirstStep
    <3>2. QED
      BY <3>1
  <2>2. CASE CountKeys(r)
    BY <2>2 DEF CountKeys, Answer
  <2>3. CASE CountHooks(r)
    BY <2>3 DEF CountHooks, Answer
  <2>4. CASE Retire(r)
    BY <2>4 DEF Retire
  <2>5. QED
    BY <1>3, <2>1, <2>2, <2>3, <2>4
<1>4. ASSUME NEW r \in Requests, InsertKey(r) \/ InsertHook(r) \/ Audit(r)
      PROVE  KnownInv'
  <2>1. CASE InsertKey(r)
    BY <2>1 DEF InsertKey, Answer
  <2>2. CASE InsertHook(r)
    BY <2>2 DEF InsertHook
  <2>3. CASE Audit(r)
    BY <2>3 DEF Audit, Answer
  <2>4. QED
    BY <1>4, <2>1, <2>2, <2>3
<1>5. ASSUME NEW r \in Requests, Refuse(r) \/ Read(r) \/ Revoke(r) \/ Unhook(r)
      PROVE  KnownInv'
  <2>1. CASE Refuse(r)
    BY <2>1 DEF Refuse, Ready, Manage
  <2>2. CASE Read(r)
    BY <2>2 DEF Read, Ready
  <2>3. CASE Revoke(r)
    BY <2>3 DEF Revoke, Ready
  <2>4. CASE Unhook(r)
    BY <2>4 DEF Unhook, Ready
  <2>5. QED
    BY <1>5, <2>1, <2>2, <2>3, <2>4
<1>6. ASSUME NEW r \in Requests, Fail(r)
      PROVE  KnownInv'
  BY <1>6 DEF Fail, Answer
<1>7. ASSUME NEW u \in Users, Disable(u)
      PROVE  KnownInv'
  BY <1>7 DEF Disable
<1>8. CASE UNCHANGED vars
  BY <1>8 DEF vars
<1>9. QED
  BY <1>1, <1>2, <1>3, <1>4, <1>5, <1>6, <1>7, <1>8, StepCases

\* Every variable keeps its type.
THEOREM TypeCorrect == Spec => []TypeOK
<1>1. Init => TypeOK /\ KnownInv
  BY AccountsAssumption DEF Init, TypeOK, KnownInv, Known, Presented, Operations, PCs, Authorized, InHandler, Over
<1>2. TypeOK /\ KnownInv /\ [Next]_vars => (TypeOK /\ KnownInv)'
  BY TypeStep, KnownStep
<1>3. QED
  BY <1>1, <1>2, PTL DEF Spec
-----------------------------------------------------------------------------
\* What INSERT INTO api_keys changes.
LEMMA KeyInserted ==
  ASSUME TypeOK, KnownInv, NEW r \in Requests, InsertKey(r)
  PROVE  /\ acts[r] \in Users /\ cred[r] \in Users
         /\ op[r] \in {"create", "regenerate"} /\ pc[r] = "insert"
         /\ pc' \in {[pc EXCEPT ![r] = "audit"], [pc EXCEPT ![r] = "clash"]}
         /\ UNCHANGED <<users, revoked, hooks, op, cred, acts, shown, dead>>
         /\ \/ UNCHANGED <<owner, made>>
            \/ /\ UniqueIndexAllows(acts[r])
               /\ \E k \in Keys :
                    /\ owner[k] = NoOne
                    /\ owner' = [owner EXCEPT ![k] = acts[r]]
                    /\ made' \in {made, [made EXCEPT ![r] = k]}
<1>1. acts[r] \in Users /\ cred[r] \in Users
  BY DEF InsertKey, KnownInv, Known, Presented, Authorized, InHandler, ClerkOnly
<1>2. QED
  BY <1>1 DEF InsertKey, Answer, Goto, Fresh

\* A key that anybody was shown, made or presents is in the table.
Owned(k) == k \in Keys => owner[k] # NoOne

KeysOwned ==
  /\ \A k \in shown : Owned(k)
  /\ \A r \in Requests : Owned(made[r]) /\ Owned(cred[r])

\* Keys that were made stay made, and only such keys are shown or presented.
LEMMA OwnedStep ==
  ASSUME TypeOK, KnownInv, KeysOwned, [Next]_vars
  PROVE  KeysOwned'
<1> USE AccountsAssumption DEF TypeOK, KeysOwned, Owned, tables, request, ghosts, Goto
<1>1. ASSUME NEW r \in Requests, Arrive(r) \/ ArriveWithKey(r)
      PROVE  KeysOwned'
  <2>1. CASE Arrive(r)
    BY <2>1 DEF Arrive, Keys
  <2>2. CASE ArriveWithKey(r)
    BY <2>2 DEF ArriveWithKey
  <2>3. QED
    BY <1>1, <2>1, <2>2
<1>2. ASSUME NEW r \in Requests, FindUser(r) \/ AddUser(r) \/ FindKey(r) \/ CheckOwner(r)
      PROVE  KeysOwned'
  <2>1. CASE FindUser(r)
    BY <2>1 DEF FindUser
  <2>2. CASE AddUser(r)
    BY <2>2 DEF AddUser
  <2>3. CASE FindKey(r)
    BY <2>3 DEF FindKey
  <2>4. CASE CheckOwner(r)
    BY <2>4 DEF CheckOwner
  <2>5. QED
    BY <1>2, <2>1, <2>2, <2>3, <2>4
<1>3. ASSUME NEW r \in Requests, Enter(r) \/ CountKeys(r) \/ CountHooks(r) \/ Retire(r)
      PROVE  KeysOwned'
  <2>1. CASE Enter(r)
    BY <2>1 DEF Enter
  <2>2. CASE CountKeys(r)
    BY <2>2 DEF CountKeys, Answer
  <2>3. CASE CountHooks(r)
    BY <2>3 DEF CountHooks, Answer
  <2>4. CASE Retire(r)
    BY <2>4 DEF Retire
  <2>5. QED
    BY <1>3, <2>1, <2>2, <2>3, <2>4
<1>4. ASSUME NEW r \in Requests, InsertKey(r) \/ InsertHook(r) \/ Audit(r)
      PROVE  KeysOwned'
  <2>1. CASE InsertKey(r)
    BY <2>1, KeyInserted
  <2>2. CASE InsertHook(r)
    BY <2>2 DEF InsertHook
  <2>3. CASE Audit(r)
    BY <2>3 DEF Audit, Answer
  <2>4. QED
    BY <1>4, <2>1, <2>2, <2>3
<1>5. ASSUME NEW r \in Requests, Refuse(r) \/ Read(r) \/ Revoke(r) \/ Unhook(r)
      PROVE  KeysOwned'
  <2>1. CASE Refuse(r)
    BY <2>1 DEF Refuse, Ready
  <2>2. CASE Read(r)
    BY <2>2 DEF Read, Ready
  <2>3. CASE Revoke(r)
    BY <2>3 DEF Revoke, Ready
  <2>4. CASE Unhook(r)
    BY <2>4 DEF Unhook, Ready
  <2>5. QED
    BY <1>5, <2>1, <2>2, <2>3, <2>4
<1>6. ASSUME NEW r \in Requests, Fail(r)
      PROVE  KeysOwned'
  BY <1>6 DEF Fail, Answer
<1>7. ASSUME NEW u \in Users, Disable(u)
      PROVE  KeysOwned'
  BY <1>7 DEF Disable
<1>8. CASE UNCHANGED vars
  BY <1>8 DEF vars
<1>9. QED
  BY <1>1, <1>2, <1>3, <1>4, <1>5, <1>6, <1>7, <1>8, StepCases

\* A key enters the table only while its user has no active one; the other
\* statements make the sets of active keys smaller.
LEMMA OneKeyStep ==
  ASSUME TypeOK, KnownInv, AtMostOneActiveKey, [Next]_vars
  PROVE  AtMostOneActiveKey'
<1> USE AccountsAssumption DEF TypeOK, AtMostOneActiveKey, ActiveKeys, tables, request, ghosts, Goto
<1>1. ASSUME NEW r \in Requests, Arrive(r) \/ ArriveWithKey(r)
      PROVE  AtMostOneActiveKey'
  <2>1. CASE Arrive(r)
    BY <2>1 DEF Arrive, Keys
  <2>2. CASE ArriveWithKey(r)
    BY <2>2 DEF ArriveWithKey
  <2>3. QED
    BY <1>1, <2>1, <2>2
<1>2. ASSUME NEW r \in Requests, FindUser(r) \/ AddUser(r) \/ FindKey(r) \/ CheckOwner(r)
      PROVE  AtMostOneActiveKey'
  <2>1. CASE FindUser(r)
    BY <2>1 DEF FindUser
  <2>2. CASE AddUser(r)
    BY <2>2 DEF AddUser
  <2>3. CASE FindKey(r)
    BY <2>3 DEF FindKey
  <2>4. CASE CheckOwner(r)
    BY <2>4 DEF CheckOwner
  <2>5. QED
    BY <1>2, <2>1, <2>2, <2>3, <2>4
<1>3. ASSUME NEW r \in Requests, Enter(r) \/ CountKeys(r) \/ CountHooks(r) \/ Retire(r)
      PROVE  AtMostOneActiveKey'
  <2>1. CASE Enter(r)
    BY <2>1 DEF Enter
  <2>2. CASE CountKeys(r)
    BY <2>2 DEF CountKeys, Answer
  <2>3. CASE CountHooks(r)
    BY <2>3 DEF CountHooks, Answer
  <2>4. CASE Retire(r)
    BY <2>4 DEF Retire
  <2>5. QED
    BY <1>3, <2>1, <2>2, <2>3, <2>4
<1>4. ASSUME NEW r \in Requests, InsertKey(r) \/ InsertHook(r) \/ Audit(r)
      PROVE  AtMostOneActiveKey'
  <2>1. CASE InsertKey(r)
    BY <2>1, KeyInserted DEF UniqueIndexAllows
  <2>2. CASE InsertHook(r)
    BY <2>2 DEF InsertHook
  <2>3. CASE Audit(r)
    BY <2>3 DEF Audit, Answer
  <2>4. QED
    BY <1>4, <2>1, <2>2, <2>3
<1>5. ASSUME NEW r \in Requests, Refuse(r) \/ Read(r) \/ Revoke(r) \/ Unhook(r)
      PROVE  AtMostOneActiveKey'
  <2>1. CASE Refuse(r)
    BY <2>1 DEF Refuse, Ready
  <2>2. CASE Read(r)
    BY <2>2 DEF Read, Ready
  <2>3. CASE Revoke(r)
    BY <2>3 DEF Revoke, Ready
  <2>4. CASE Unhook(r)
    BY <2>4 DEF Unhook, Ready
  <2>5. QED
    BY <1>5, <2>1, <2>2, <2>3, <2>4
<1>6. ASSUME NEW r \in Requests, Fail(r)
      PROVE  AtMostOneActiveKey'
  BY <1>6 DEF Fail, Answer
<1>7. ASSUME NEW u \in Users, Disable(u)
      PROVE  AtMostOneActiveKey'
  BY <1>7 DEF Disable
<1>8. CASE UNCHANGED vars
  BY <1>8 DEF vars
<1>9. QED
  BY <1>1, <1>2, <1>3, <1>4, <1>5, <1>6, <1>7, <1>8, StepCases

\* The request acts for the owner of what it presented.
OwnerInv ==
  \A r \in Requests : pc[r] \in Authorized \cup {"matched"} =>
    acts[r] = IF cred[r] \in Keys THEN owner[cred[r]] ELSE cred[r]

\* A request acts for the owner of its credential from the moment it is matched.
LEMMA OwnerStep ==
  ASSUME TypeOK, KnownInv, KeysOwned, OwnerInv, [Next]_vars
  PROVE  OwnerInv'
<1> USE AccountsAssumption DEF TypeOK, KeysOwned, Owned, OwnerInv, tables, request, ghosts, Goto,
        Authorized, InHandler
<1>1. ASSUME NEW r \in Requests, Arrive(r) \/ ArriveWithKey(r)
      PROVE  OwnerInv'
  <2>1. CASE Arrive(r)
    BY <2>1 DEF Arrive, Keys
  <2>2. CASE ArriveWithKey(r)
    BY <2>2 DEF ArriveWithKey
  <2>3. QED
    BY <1>1, <2>1, <2>2
<1>2. ASSUME NEW r \in Requests, FindUser(r) \/ AddUser(r) \/ FindKey(r) \/ CheckOwner(r)
      PROVE  OwnerInv'
  <2>1. CASE FindUser(r)
    <3>1. cred[r] \notin Keys
      BY <2>1, UserFound DEF Keys
    <3>2. QED
      BY <2>1, <3>1, UserFound
  <2>2. CASE AddUser(r)
    BY <2>2 DEF AddUser, KnownInv, Presented, Keys
  <2>3. CASE FindKey(r)
    BY <2>3 DEF FindKey, Matches, Candidates
  <2>4. CASE CheckOwner(r)
    BY <2>4 DEF CheckOwner
  <2>5. QED
    BY <1>2, <2>1, <2>2, <2>3, <2>4
<1>3. ASSUME NEW r \in Requests, Enter(r) \/ CountKeys(r) \/ CountHooks(r) \/ Retire(r)
      PROVE  OwnerInv'
  <2>1. CASE Enter(r)
    BY <2>1 DEF Enter, FirstStep
  <2>2. CASE CountKeys(r)
    BY <2>2 DEF CountKeys, Answer
  <2>3. CASE CountHooks(r)
    BY <2>3 DEF CountHooks, Answer
  <2>4. CASE Retire(r)
    BY <2>4 DEF Retire
  <2>5. QED
    BY <1>3, <2>1, <2>2, <2>3, <2>4
<1>4. ASSUME NEW r \in Requests, InsertKey(r) \/ InsertHook(r) \/ Audit(r)
      PROVE  OwnerInv'
  <2>1. CASE InsertKey(r)
    BY <2>1, KeyInserted
  <2>2. CASE InsertHook(r)
    BY <2>2 DEF InsertHook
  <2>3. CASE Audit(r)
    BY <2>3 DEF Audit, Answer
  <2>4. QED
    BY <1>4, <2>1, <2>2, <2>3
<1>5. ASSUME NEW r \in Requests, Refuse(r) \/ Read(r) \/ Revoke(r) \/ Unhook(r)
      PROVE  OwnerInv'
  <2>1. CASE Refuse(r)
    BY <2>1 DEF Refuse, Ready
  <2>2. CASE Read(r)
    BY <2>2 DEF Read, Ready
  <2>3. CASE Revoke(r)
    BY <2>3 DEF Revoke, Ready
  <2>4. CASE Unhook(r)
    BY <2>4 DEF Unhook, Ready
  <2>5. QED
    BY <1>5, <2>1, <2>2, <2>3, <2>4
<1>6. ASSUME NEW r \in Requests, Fail(r)
      PROVE  OwnerInv'
  BY <1>6 DEF Fail, Answer
<1>7. ASSUME NEW u \in Users, Disable(u)
      PROVE  OwnerInv'
  BY <1>7 DEF Disable
<1>8. CASE UNCHANGED vars
  BY <1>8 DEF vars
<1>9. QED
  BY <1>1, <1>2, <1>3, <1>4, <1>5, <1>6, <1>7, <1>8, StepCases

\* A request that began with a dead credential is on its way to a refusal.
DeadInv ==
  \A r \in dead :
    /\ pc[r] \in {"session", "token", "matched", "denied", "clash", "error"}
    /\ pc[r] = "session" => users[cred[r]] = "disabled"
    /\ pc[r] = "token" => cred[r] \in revoked \/ users[owner[cred[r]]] = "disabled"
    /\ pc[r] = "matched" => users[acts[r]] = "disabled"

\* What a request with a dead credential looks up stays dead.
LEMMA DeadStep ==
  ASSUME TypeOK, KnownInv, KeysOwned, DeadInv, [Next]_vars
  PROVE  DeadInv'
<1> USE AccountsAssumption DEF TypeOK, DeadInv, tables, request, ghosts, Goto
<1>1. ASSUME NEW r \in Requests, Arrive(r) \/ ArriveWithKey(r)
      PROVE  DeadInv'
  <2>1. CASE Arrive(r)
    BY <2>1 DEF Arrive
  <2>2. CASE ArriveWithKey(r)
    BY <2>2 DEF ArriveWithKey, KeysOwned, Owned
  <2>3. QED
    BY <1>1, <2>1, <2>2
<1>2. ASSUME NEW r \in Requests, FindUser(r) \/ AddUser(r) \/ FindKey(r) \/ CheckOwner(r)
      PROVE  DeadInv'
  <2>1. CASE FindUser(r)
    BY <2>1, UserFound
  <2>2. CASE AddUser(r)
    BY <2>2 DEF AddUser, KnownInv, Known, Presented, KeysOwned, Owned
  <2>3. CASE FindKey(r)
    BY <2>3 DEF FindKey, Matches, Candidates, Active
  <2>4. CASE CheckOwner(r)
    BY <2>4 DEF CheckOwner, IsActive
  <2>5. QED
    BY <1>2, <2>1, <2>2, <2>3, <2>4
<1>3. ASSUME NEW r \in Requests, Enter(r) \/ CountKeys(r) \/ CountHooks(r) \/ Retire(r)
      PROVE  DeadInv'
  <2>1. CASE Enter(r)
    BY <2>1 DEF Enter, FirstStep
  <2>2. CASE CountKeys(r)
    BY <2>2 DEF CountKeys, Answer
  <2>3. CASE CountHooks(r)
    BY <2>3 DEF CountHooks, Answer
  <2>4. CASE Retire(r)
    BY <2>4 DEF Retire
  <2>5. QED
    BY <1>3, <2>1, <2>2, <2>3, <2>4
<1>4. ASSUME NEW r \in Requests, InsertKey(r) \/ InsertHook(r) \/ Audit(r)
      PROVE  DeadInv'
  <2>1. CASE InsertKey(r)
    BY <2>1, KeyInserted DEF KeysOwned, Owned, KnownInv, Presented
  <2>2. CASE InsertHook(r)
    BY <2>2 DEF InsertHook
  <2>3. CASE Audit(r)
    BY <2>3 DEF Audit, Answer
  <2>4. QED
    BY <1>4, <2>1, <2>2, <2>3
<1>5. ASSUME NEW r \in Requests, Refuse(r) \/ Read(r) \/ Revoke(r) \/ Unhook(r)
      PROVE  DeadInv'
  <2>1. CASE Refuse(r)
    BY <2>1 DEF Refuse, Ready
  <2>2. CASE Read(r)
    BY <2>2 DEF Read, Ready
  <2>3. CASE Revoke(r)
    BY <2>3 DEF Revoke, Ready
  <2>4. CASE Unhook(r)
    BY <2>4 DEF Unhook, Ready
  <2>5. QED
    BY <1>5, <2>1, <2>2, <2>3, <2>4
<1>6. ASSUME NEW r \in Requests, Fail(r)
      PROVE  DeadInv'
  BY <1>6 DEF Fail, Answer
<1>7. ASSUME NEW u \in Users, Disable(u)
      PROVE  DeadInv'
  BY <1>7 DEF Disable
<1>8. CASE UNCHANGED vars
  BY <1>8 DEF vars
<1>9. QED
  BY <1>1, <1>2, <1>3, <1>4, <1>5, <1>6, <1>7, <1>8, StepCases

\* A handler between its first statement and its answer has the loop of its
\* server, and nobody else has one.
LoopInv ==
  /\ \A r \in Requests : pc[r] \in InHandler => loop[ServerOf[r]] = r
  /\ \A s \in Servers : loop[s] \in Requests => ServerOf[loop[s]] = s /\ pc[loop[s]] \in InHandler
  /\ \A r \in Requests : pc[r] = "retire" => op[r] = "regenerate"

\* A handler between its statements keeps the event loop of its server.
LEMMA LoopStep ==
  ASSUME TypeOK, KnownInv, LoopInv, [Next]_vars
  PROVE  LoopInv'
<1> USE AccountsAssumption DEF TypeOK, LoopInv, InHandler, tables, request, ghosts, Goto
<1>1. ASSUME NEW r \in Requests, Arrive(r) \/ ArriveWithKey(r)
      PROVE  LoopInv'
  <2>1. CASE Arrive(r)
    BY <2>1 DEF Arrive
  <2>2. CASE ArriveWithKey(r)
    BY <2>2 DEF ArriveWithKey
  <2>3. QED
    BY <1>1, <2>1, <2>2
<1>2. ASSUME NEW r \in Requests, FindUser(r) \/ AddUser(r) \/ FindKey(r) \/ CheckOwner(r)
      PROVE  LoopInv'
  <2>1. CASE FindUser(r)
    BY <2>1, UserFound
  <2>2. CASE AddUser(r)
    BY <2>2 DEF AddUser
  <2>3. CASE FindKey(r)
    BY <2>3 DEF FindKey
  <2>4. CASE CheckOwner(r)
    BY <2>4 DEF CheckOwner
  <2>5. QED
    BY <1>2, <2>1, <2>2, <2>3, <2>4
<1>3. ASSUME NEW r \in Requests, Enter(r) \/ CountKeys(r) \/ CountHooks(r) \/ Retire(r)
      PROVE  LoopInv'
  <2>1. CASE Enter(r)
    BY <2>1 DEF Enter, FirstStep, LoopFree
  <2>2. CASE CountKeys(r)
    BY <2>2 DEF CountKeys, Answer
  <2>3. CASE CountHooks(r)
    BY <2>3 DEF CountHooks, Answer
  <2>4. CASE Retire(r)
    BY <2>4 DEF Retire
  <2>5. QED
    BY <1>3, <2>1, <2>2, <2>3, <2>4
<1>4. ASSUME NEW r \in Requests, InsertKey(r) \/ InsertHook(r) \/ Audit(r)
      PROVE  LoopInv'
  <2>1. CASE InsertKey(r)
    BY <2>1 DEF InsertKey, Answer
  <2>2. CASE InsertHook(r)
    BY <2>2 DEF InsertHook
  <2>3. CASE Audit(r)
    BY <2>3 DEF Audit, Answer
  <2>4. QED
    BY <1>4, <2>1, <2>2, <2>3
<1>5. ASSUME NEW r \in Requests, Refuse(r) \/ Read(r) \/ Revoke(r) \/ Unhook(r)
      PROVE  LoopInv'
  <2>1. CASE Refuse(r)
    BY <2>1 DEF Refuse, Ready
  <2>2. CASE Read(r)
    BY <2>2 DEF Read, Ready
  <2>3. CASE Revoke(r)
    BY <2>3 DEF Revoke, Ready, LoopFree
  <2>4. CASE Unhook(r)
    BY <2>4 DEF Unhook, Ready, LoopFree
  <2>5. QED
    BY <1>5, <2>1, <2>2, <2>3, <2>4
<1>6. ASSUME NEW r \in Requests, Fail(r)
      PROVE  LoopInv'
  BY <1>6 DEF Fail, Answer
<1>7. ASSUME NEW u \in Users, Disable(u)
      PROVE  LoopInv'
  BY <1>7 DEF Disable
<1>8. CASE UNCHANGED vars
  BY <1>8 DEF vars
<1>9. QED
  BY <1>1, <1>2, <1>3, <1>4, <1>5, <1>6, <1>7, <1>8, StepCases
-----------------------------------------------------------------------------
\* What holds in every reachable state.
IInv ==
  /\ TypeOK
  /\ KnownInv
  /\ KeysOwned
  /\ AtMostOneActiveKey
  /\ OwnerInv
  /\ DeadInv
  /\ LoopInv

\* All parts of the inductive invariant hold together.
THEOREM Invariance == Spec => []IInv
<1>1. Init => IInv
  BY AccountsAssumption DEF Init, IInv, TypeOK, KnownInv, Known, Presented, Operations, PCs, Authorized, InHandler, Over,
     AtMostOneActiveKey, ActiveKeys, KeysOwned, Owned, OwnerInv, DeadInv, LoopInv, Keys
<1>2. IInv /\ [Next]_vars => IInv'
  BY TypeStep, KnownStep, OwnedStep, OneKeyStep, OwnerStep, DeadStep, LoopStep DEF IInv
<1>3. QED
  BY <1>1, <1>2, PTL DEF Spec

\* Each account has at most one active key, whatever the handlers of several
\* servers do between their statements.
THEOREM OneActiveKey == Spec => []AtMostOneActiveKey
<1>1. IInv => AtMostOneActiveKey
  BY DEF IInv
<1>2. QED
  BY <1>1, Invariance, PTL

\* A request that begins with a revoked key, or for a disabled user, never
\* reaches its handler.
THEOREM DeadCredentialsRefused == Spec => []WithdrawnRefused
<1>1. IInv => WithdrawnRefused
  BY DEF IInv, DeadInv, WithdrawnRefused, Authorized, InHandler
<1>2. QED
  BY <1>1, Invariance, PTL

\* A request that reaches its handler acts for the owner of its credential.
THEOREM RightOwner == Spec => []ActsForOwner
<1>1. IInv => ActsForOwner
  BY DEF IInv, OwnerInv, ActsForOwner
<1>2. QED
  BY <1>1, Invariance, PTL

\* Statements that change api_keys are those of a session, for its own user.
LEMMA ChangeStep ==
  ASSUME IInv, [Next]_vars, NEW k \in Keys,
         owner'[k] # owner[k] \/ (k \in revoked' /\ k \notin revoked)
  PROVE  \E r \in Requests : pc'[r] # pc[r] /\ cred[r] = owner'[k]
<1> USE DEF IInv, tables, request, ghosts, Goto
<1>1. ASSUME NEW r \in Requests, InsertKey(r)
      PROVE  \E q \in Requests : pc'[q] # pc[q] /\ cred[q] = owner'[k]
  <2>1. acts[r] = cred[r] /\ cred[r] \in Users
    BY <1>1, KeyInserted, AccountsAssumption DEF OwnerInv, Authorized, InHandler, Keys
  <2>2. pc'[r] # pc[r]
    BY <1>1, KeyInserted DEF TypeOK
  <2>3. owner'[k] = acts[r]
    BY <1>1, KeyInserted DEF TypeOK
  <2>4. QED
    BY <2>1, <2>2, <2>3
<1>2. ASSUME NEW r \in Requests, Retire(r)
      PROVE  \E q \in Requests : pc'[q] # pc[q] /\ cred[q] = owner'[k]
  <2>1. acts[r] = cred[r]
    <3>1. pc[r] = "retire" /\ op[r] \in ClerkOnly
      BY <1>2 DEF Retire, LoopInv, ClerkOnly
    <3>2. cred[r] \in Users
      BY <3>1 DEF KnownInv, Presented, Authorized, InHandler
    <3>3. QED
      BY <3>1, <3>2, AccountsAssumption DEF OwnerInv, Authorized, InHandler, Keys
  <2>2. k \in ActiveKeys(acts[r]) /\ UNCHANGED owner
    BY <1>2 DEF Retire
  <2>3. pc'[r] # pc[r]
    BY <1>2 DEF Retire, TypeOK
  <2>4. QED
    BY <2>1, <2>2, <2>3 DEF ActiveKeys
<1>3. ASSUME NEW r \in Requests, Revoke(r)
      PROVE  \E q \in Requests : pc'[q] # pc[q] /\ cred[q] = owner'[k]
  <2>1. cred[r] \in Users /\ pc[r] = "authorized"
    BY <1>3 DEF Revoke, Ready, HasScope, Manage
  <2>2. acts[r] = cred[r]
    BY <2>1, AccountsAssumption DEF OwnerInv, Authorized, Keys
  <2>3. owner[k] = acts[r] /\ UNCHANGED owner
    BY <1>3 DEF Revoke, Revocable, ActiveKeys
  <2>4. pc'[r] # pc[r]
    BY <1>3, <2>1 DEF Revoke, TypeOK
  <2>5. QED
    BY <2>2, <2>3, <2>4
<1>4. ASSUME UNCHANGED <<owner, revoked>>
      PROVE  FALSE
  BY <1>4
<1>5. ASSUME NEW r \in Requests,
             \/ Arrive(r) \/ ArriveWithKey(r)
             \/ FindUser(r) \/ AddUser(r) \/ FindKey(r) \/ CheckOwner(r)
             \/ Enter(r) \/ CountKeys(r) \/ CountHooks(r) \/ InsertHook(r) \/ Audit(r)
             \/ Refuse(r) \/ Read(r) \/ Unhook(r) \/ Fail(r)
      PROVE  UNCHANGED <<owner, revoked>>
  BY <1>5 DEF Arrive, ArriveWithKey, FindUser, AddUser, FindKey, CheckOwner, Enter, CountKeys,
     CountHooks, InsertHook, Audit, Refuse, Read, Unhook, Fail
<1>6. ASSUME NEW u \in Users, Disable(u)
      PROVE  UNCHANGED <<owner, revoked>>
  BY <1>6 DEF Disable
<1>7. UNCHANGED vars => UNCHANGED <<owner, revoked>>
  BY DEF vars
<1>8. QED
  BY <1>1, <1>2, <1>3, <1>4, <1>5, <1>6, <1>7, StepCases

\* Keys are made and revoked by the session of their own user only.
THEOREM OwnersChangeKeys == Spec => KeysChangedByOwner
<1>1. IInv /\ [Next]_vars =>
        [\A k \in Keys : owner'[k] # owner[k] \/ (k \in revoked' /\ k \notin revoked) =>
           \E r \in Requests : pc'[r] # pc[r] /\ cred[r] = owner'[k]]_vars
  BY ChangeStep
<1>2. QED
  BY <1>1, Invariance, PTL DEF Spec, KeysChangedByOwner
-----------------------------------------------------------------------------
\* The servers whose handler has counted the endpoints of u and not yet added
\* one: each of them may still add to what is there.
Pending(u) ==
  {s \in Servers : /\ loop[s] \in Requests
                   /\ pc[loop[s]] = "insert" /\ op[loop[s]] = "hook" /\ acts[loop[s]] = u}

HookBound(u) ==
  hooks[u] + Cardinality(Pending(u)) <= WebhookMax + (Cardinality(Servers) - 1) + faults

HookInv == \A u \in Users : HookBound(u)

\* Pending is a finite set of servers.
LEMMA PendingFinite ==
  ASSUME NEW u \in Users
  PROVE  /\ IsFiniteSet(Pending(u)) /\ Cardinality(Pending(u)) \in Nat
         /\ IsFiniteSet(Pending(u)') /\ Cardinality(Pending(u)') \in Nat
         /\ Cardinality(Servers) \in Nat
<1>1. Pending(u) \subseteq Servers /\ Pending(u)' \subseteq Servers
  BY DEF Pending
<1>2. QED
  BY <1>1, AccountsAssumption, FS_Subset, FS_CardinalityType

\* Where nothing is added and nobody gets past the count, the bound stays.
LEMMA BoundKept ==
  ASSUME TypeOK, TypeOK', NEW u \in Users, HookBound(u),
         hooks'[u] <= hooks[u], faults' >= faults, Pending(u)' \subseteq Pending(u)
  PROVE  HookBound(u)'
<1>1. Cardinality(Pending(u)') <= Cardinality(Pending(u))
  BY PendingFinite, FS_Subset
<1>2. QED
  BY <1>1, PendingFinite, AccountsAssumption DEF HookBound, TypeOK

\* A handler that gets past the count found fewer than WebhookMax, and the
\* others that are past it are on other servers.
LEMMA BoundAfterCount ==
  ASSUME TypeOK, LoopInv, NEW r \in Requests, NEW u \in Users, HookBound(u),
         pc[r] = "count", op[r] = "hook", acts[r] \in Users, hooks[acts[r]] < WebhookMax,
         pc' = [pc EXCEPT ![r] = "insert"], UNCHANGED <<tables, request, ghosts, loop>>
  PROVE  HookBound(u)'
<1> DEFINE s == ServerOf[r]
<1>1. s \in Servers /\ loop[s] = r
  BY AccountsAssumption DEF LoopInv, InHandler
<1>2. CASE u = acts[r]
  <2>1. s \notin Pending(u)
    BY <1>1 DEF Pending
  <2>2. Pending(u)' \subseteq Pending(u) \cup {s}
    BY <1>1 DEF Pending, TypeOK, LoopInv, request
  <2>3. Pending(u) \cup {s} \subseteq Servers
    BY <1>1 DEF Pending
  <2>4. Pending(u)' \subseteq Servers
    BY <2>2, <2>3
  <2>5. Cardinality(Pending(u)') <= Cardinality(Servers)
    BY <2>4, AccountsAssumption, FS_Subset
  <2>6. hooks'[u] < WebhookMax /\ faults' \in Nat /\ hooks'[u] \in Nat
    BY <1>2 DEF TypeOK, tables, ghosts
  <2>7. QED
    BY <2>5, <2>6, PendingFinite, AccountsAssumption DEF HookBound
<1>3. CASE u # acts[r]
  <2>1. Pending(u)' \subseteq Pending(u)
    BY <1>3 DEF Pending, TypeOK, request
  <2>2. hooks'[u] = hooks[u] /\ faults' = faults
    BY DEF tables, ghosts
  <2>3. Cardinality(Pending(u)') <= Cardinality(Pending(u))
    BY <2>1, PendingFinite, FS_Subset
  <2>4. QED
    BY <2>2, <2>3, PendingFinite, AccountsAssumption DEF HookBound, TypeOK
<1>4. QED
  BY <1>2, <1>3

\* The INSERT takes its server out of Pending.
LEMMA BoundAfterInsert ==
  ASSUME TypeOK, TypeOK', LoopInv, NEW r \in Requests, NEW u \in Users, HookBound(u),
         acts[r] \in Users, InsertHook(r)
  PROVE  HookBound(u)'
<1> DEFINE s == ServerOf[r]
<1>1. /\ pc[r] = "insert" /\ op[r] = "hook" /\ pc' = [pc EXCEPT ![r] = "audit"]
      /\ UNCHANGED <<loop, request>>
  BY DEF InsertHook, Goto
<1>2. s \in Servers /\ loop[s] = r
  BY <1>1, AccountsAssumption DEF LoopInv, InHandler
<1>3. Pending(u)' \subseteq Pending(u)
  BY <1>1 DEF Pending, TypeOK, request
<1>4. CASE u = acts[r]
  <2>1. s \in Pending(u) /\ s \notin Pending(u)'
    BY <1>1, <1>2, <1>4 DEF Pending, TypeOK, request
  <2>2. Pending(u)' \subseteq Pending(u) \ {s}
    BY <1>3, <2>1
  <2>3. /\ IsFiniteSet(Pending(u) \ {s})
        /\ Cardinality(Pending(u) \ {s}) = Cardinality(Pending(u)) - 1
    BY <2>1, PendingFinite, FS_RemoveElement
  <2>4. Cardinality(Pending(u)') <= Cardinality(Pending(u)) - 1
    BY <2>2, <2>3, FS_Subset
  <2>5. \/ hooks'[u] = hooks[u] + 1 /\ faults' = faults
        \/ hooks'[u] = hooks[u] + 2 /\ faults' = faults + 1
    BY <1>4 DEF InsertHook, FaultHappens, TypeOK
  <2>6. QED
    BY <2>4, <2>5, PendingFinite, AccountsAssumption DEF HookBound, TypeOK
<1>5. CASE u # acts[r]
  <2>1. hooks'[u] = hooks[u] /\ faults' >= faults
    BY <1>5 DEF InsertHook, FaultHappens, TypeOK
  <2>2. Cardinality(Pending(u)') <= Cardinality(Pending(u))
    BY <1>3, PendingFinite, FS_Subset
  <2>3. QED
    BY <2>1, <2>2, PendingFinite, AccountsAssumption DEF HookBound, TypeOK
<1>6. QED
  BY <1>4, <1>5

\* Of all other steps.
Shrinks(u) ==
  hooks'[u] <= hooks[u] /\ faults' >= faults /\ Pending(u)' \subseteq Pending(u)

\* A request that answers is not in Pending, nor does it bring others there.
LEMMA AnswerShrinks ==
  ASSUME TypeOK, NEW r \in Requests, NEW u \in Users,
         NEW label \in {"denied", "clash", "error", "ok"},
         Answer(r, label), UNCHANGED <<op, acts>>
  PROVE  Pending(u)' \subseteq Pending(u)
<1>1. ASSUME NEW s \in Servers, s \in Pending(u)'
      PROVE  s \in Pending(u)
  <2>1. loop'[s] \in Requests /\ pc'[loop'[s]] = "insert" /\ op[loop'[s]] = "hook" /\ acts[loop'[s]] = u
    BY <1>1 DEF Pending
  <2>2. loop'[s] = loop[s] /\ loop[s] # r
    BY <1>1, <2>1, AccountsAssumption DEF Answer
  <2>3. pc'[loop[s]] = pc[loop[s]]
    BY <2>1, <2>2 DEF Answer, Goto, TypeOK
  <2>4. QED
    BY <2>1, <2>2, <2>3 DEF Pending
<1>2. QED
  BY <1>1 DEF Pending

\* Every step keeps the bound on the endpoints of a user.
LEMMA HookStep ==
  ASSUME TypeOK, TypeOK', KnownInv, LoopInv, [Next]_vars, NEW u \in Users, HookBound(u)
  PROVE  Shrinks(u) \/ HookBound(u)'
<1> USE DEF TypeOK, Shrinks, Pending, tables, request, ghosts, Goto
<1>1. ASSUME NEW r \in Requests, Arrive(r) \/ ArriveWithKey(r)
      PROVE  (Shrinks(u) \/ HookBound(u)')
  <2>1. CASE Arrive(r)
    BY <2>1 DEF Arrive
  <2>2. CASE ArriveWithKey(r)
    BY <2>2 DEF ArriveWithKey
  <2>3. QED
    BY <1>1, <2>1, <2>2
<1>2. ASSUME NEW r \in Requests, FindUser(r) \/ AddUser(r) \/ FindKey(r) \/ CheckOwner(r)
      PROVE  (Shrinks(u) \/ HookBound(u)')
  <2>1. CASE FindUser(r)
    BY <2>1, UserFound
  <2>2. CASE AddUser(r)
    BY <2>2 DEF AddUser
  <2>3. CASE FindKey(r)
    BY <2>3 DEF FindKey
  <2>4. CASE CheckOwner(r)
    BY <2>4 DEF CheckOwner
  <2>5. QED
    BY <1>2, <2>1, <2>2, <2>3, <2>4
<1>3. ASSUME NEW r \in Requests, Enter(r) \/ CountKeys(r) \/ CountHooks(r) \/ Retire(r)
      PROVE  (Shrinks(u) \/ HookBound(u)')
  <2>1. CASE Enter(r)
    BY <2>1 DEF Enter, FirstStep, LoopFree
  <2>2. CASE CountKeys(r)
    BY <2>2, AnswerShrinks DEF CountKeys
  <2>3. CASE CountHooks(r)
    <3>1. pc[r] = "count" /\ op[r] = "hook" /\ acts[r] \in Users
      BY <2>3 DEF CountHooks, KnownInv, Known, Authorized, InHandler
    <3>2. CASE Answer(r, "denied")
      BY <2>3, <3>2, AnswerShrinks DEF CountHooks
    <3>3. CASE hooks[acts[r]] < WebhookMax /\ Goto(r, "insert") /\ UNCHANGED loop
      BY <2>3, <3>1, <3>3, BoundAfterCount DEF CountHooks
    <3>4. QED
      BY <2>3, <3>2, <3>3 DEF CountHooks
  <2>4. CASE Retire(r)
    BY <2>4 DEF Retire, LoopInv
  <2>5. QED
    BY <1>3, <2>1, <2>2, <2>3, <2>4
<1>4. ASSUME NEW r \in Requests, InsertKey(r) \/ InsertHook(r) \/ Audit(r)
      PROVE  (Shrinks(u) \/ HookBound(u)')
  <2>1. CASE InsertKey(r)
    <3>1. op[r] # "hook"
      BY <2>1 DEF InsertKey
    <3>2. UNCHANGED <<hooks, op, acts>> /\ faults' >= faults
      BY <2>1 DEF InsertKey, FaultHappens
    <3>3. Answer(r, "clash") \/ (Goto(r, "audit") /\ UNCHANGED loop)
      BY <2>1 DEF InsertKey
    <3>4. Pending(u)' \subseteq Pending(u)
      BY <3>2, <3>3, AnswerShrinks
    <3>5. QED
      BY <3>2, <3>4
  <2>2. CASE InsertHook(r)
    <3>1. acts[r] \in Users
      BY <2>2 DEF InsertHook, KnownInv, Known, Authorized, InHandler
    <3>2. QED
      BY <2>2, <3>1, BoundAfterInsert
  <2>3. CASE Audit(r)
    BY <2>3, AnswerShrinks DEF Audit
  <2>4. QED
    BY <1>4, <2>1, <2>2, <2>3
<1>5. ASSUME NEW r \in Requests, Refuse(r) \/ Read(r) \/ Revoke(r) \/ Unhook(r)
      PROVE  (Shrinks(u) \/ HookBound(u)')
  <2>1. CASE Refuse(r)
    BY <2>1 DEF Refuse, Ready
  <2>2. CASE Read(r)
    BY <2>2 DEF Read, Ready
  <2>3. CASE Revoke(r)
    BY <2>3 DEF Revoke, Ready, LoopFree
  <2>4. CASE Unhook(r)
    BY <2>4 DEF Unhook, Ready, HasHook, LoopFree
  <2>5. QED
    BY <1>5, <2>1, <2>2, <2>3, <2>4
<1>6. ASSUME NEW r \in Requests, Fail(r)
      PROVE  (Shrinks(u) \/ HookBound(u)')
  BY <1>6, AnswerShrinks DEF Fail, FaultHappens
<1>7. ASSUME NEW v \in Users, Disable(v)
      PROVE  (Shrinks(u) \/ HookBound(u)')
  BY <1>7 DEF Disable
<1>8. CASE UNCHANGED vars
  BY <1>8 DEF vars
<1>9. QED
  BY <1>1, <1>2, <1>3, <1>4, <1>5, <1>6, <1>7, <1>8, StepCases

\* The number of enabled endpoints exceeds its limit by at most one for each
\* further server and one for each INSERT that was sent twice.
THEOREM WebhooksLimited == Spec => []WebhookLimit
<1> DEFINE Inv == IInv /\ HookInv
<1>1. Init => HookInv
  <2> SUFFICES ASSUME Init, NEW u \in Users
               PROVE  HookBound(u)
    BY DEF HookInv
  <2>1. Pending(u) = {}
    BY DEF Init, Pending
  <2>2. Cardinality(Pending(u)) = 0
    BY <2>1, FS_EmptySet
  <2>3. Cardinality(Servers) \in Nat /\ Cardinality(Servers) # 0
    BY AccountsAssumption, FS_CardinalityType, FS_EmptySet
  <2>4. QED
    BY <2>2, <2>3, AccountsAssumption DEF Init, HookBound
<1>2. IInv /\ IInv' /\ HookInv /\ [Next]_vars => HookInv'
  BY HookStep, BoundKept DEF IInv, HookInv, Shrinks
<1>3. IInv /\ HookInv => WebhookLimit
  BY PendingFinite, AccountsAssumption DEF IInv, TypeOK, HookInv, HookBound, WebhookLimit
<1>4. QED
  BY <1>1, <1>2, <1>3, Invariance, PTL DEF Spec
=============================================================================
