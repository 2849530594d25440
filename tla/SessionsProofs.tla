--------------------------- MODULE SessionsProofs ---------------------------
(***************************************************************************)
(* The last active admin is never lost to one request alone; sessions end, *)
(* one login keeps one session, and the limiter holds, for any accounts,   *)
(* requests, tokens and administrators at work.                            *)
(***************************************************************************)
EXTENDS Sessions, FiniteSetTheorems, TLAPS

(***************************************************************************)
(* The tables of UserAdmin: accounts never vanish, so what a request has   *)
(* loaded still is one when it commits.                                    *)
(***************************************************************************)
TargetsThere == \A u \in Users : tx[u] # None => Exists(tx[u].target)

AccountsKept == \A u \in Users : Exists(u) => account'[u] = account[u]

TablesKept == AccountsKept /\ TypeOK' /\ TargetsThere'

LEMMA NewAccountTables ==
  ASSUME TypeOK, TargetsThere, NEW target \in Users, NEW role \in UserRole,
         account[target] = None,
         account' = [account EXCEPT ![target] = [role |-> role, active |-> TRUE]],
         UNCHANGED <<tx, skewed>>
  PROVE  TablesKept
<1>1. /\ account' = [account EXCEPT ![target] = [role |-> role, active |-> TRUE]]
      /\ tx' = tx /\ skewed' = skewed
  OBVIOUS
<1>2. [role |-> role, active |-> TRUE] \in Account
  BY DEF Account
<1>3. account' \in [Users -> Account \cup {None}]
  BY <1>1, <1>2 DEF TypeOK
<1>4. AccountsKept
  BY <1>1 DEF AccountsKept, Exists, TypeOK
<1>5. ASSUME NEW u \in Users, tx'[u] # None  PROVE account'[tx'[u].target] # None
  <2>1. tx[u] \in Request /\ account[tx[u].target] # None
    BY <1>1, <1>5 DEF TypeOK, TargetsThere, Exists
  <2> QED BY <1>1, <1>4, <2>1 DEF AccountsKept, Exists, Request
<1> QED BY <1>1, <1>3, <1>4, <1>5 DEF TablesKept, TypeOK, TargetsThere, Exists

LEMMA BeginTables ==
  ASSUME TypeOK, TargetsThere, NEW actor \in Users, NEW target \in Users,
         NEW change \in Account, Exists(target), Begin(actor, target, change)
  PROVE  TablesKept
<1> DEFINE q == [target |-> target, loaded |-> account[target], change |-> change,
                 checked |-> FALSE]
<1>1. account' = account /\ tx' = [tx EXCEPT ![actor] = q] /\ skewed' = skewed
  BY DEF Begin
<1>2. q \in Request /\ q.target = target
  BY DEF TypeOK, Exists, Request
<1> HIDE DEF q
<1>3. TypeOK'
  BY <1>1, <1>2 DEF TypeOK
<1>4. \A u \in Users : tx'[u] # None => account[tx'[u].target] # None
  BY <1>1, <1>2 DEF TypeOK, TargetsThere, Exists
<1> QED BY <1>1, <1>3, <1>4 DEF TablesKept, AccountsKept, TargetsThere, Exists

LEMMA CheckTables ==
  ASSUME TypeOK, TargetsThere, NEW actor \in Users, Check(actor)
  PROVE  /\ TablesKept
         /\ tx'[actor] = [tx[actor] EXCEPT !.checked = TRUE]
         /\ \A u \in Users \ {actor} : tx'[u] = tx[u]
<1> DEFINE q == [tx[actor] EXCEPT !.checked = TRUE]
<1>1. /\ account' = account /\ tx' = [tx EXCEPT ![actor] = q] /\ skewed' = skewed
      /\ tx[actor] \in Request /\ tx[actor] # None
  BY DEF Check, TypeOK
<1>2. q \in Request /\ q.target = tx[actor].target
  BY <1>1 DEF Request
<1>3. tx'[actor] = q /\ \A u \in Users \ {actor} : tx'[u] = tx[u]
  BY <1>1 DEF TypeOK
<1> HIDE DEF q
<1>4. TypeOK'
  BY <1>1, <1>2 DEF TypeOK
<1>5. \A u \in Users : tx'[u] # None => account[tx'[u].target] # None
  BY <1>1, <1>2, <1>3 DEF TargetsThere, Exists
<1> QED BY <1>1, <1>3, <1>4, <1>5 DEF q, TablesKept, AccountsKept, TargetsThere, Exists

LEMMA RollbackTables ==
  ASSUME TypeOK, TargetsThere, NEW actor \in Users, Rollback(actor)
  PROVE  TablesKept
<1>1. account' = account /\ tx' = [tx EXCEPT ![actor] = None] /\ skewed' = skewed
  BY DEF Rollback
<1>2. TypeOK'
  BY <1>1 DEF TypeOK
<1>3. \A u \in Users : tx'[u] # None => account[tx'[u].target] # None
  BY <1>1 DEF TypeOK, TargetsThere, Exists
<1> QED BY <1>1, <1>2, <1>3 DEF TablesKept, AccountsKept, TargetsThere, Exists

\* admin_update and set_active begin a request whose change is an account.
LEMMA AdminUpdateBegins ==
  ASSUME TypeOK, NEW actor \in Users, NEW target \in Users, NEW role \in Roles,
         AdminUpdate(actor, target, role)
  PROVE  \E change \in Account : Exists(target) /\ Begin(actor, target, change)
<1>1. [account[target] EXCEPT !.role = role] \in Account
  BY RolesAssumption DEF AdminUpdate, Exists, TypeOK, Account
<1> QED BY <1>1 DEF AdminUpdate

LEMMA SetActiveBegins ==
  ASSUME TypeOK, NEW actor \in Users, NEW target \in Users, NEW active \in BOOLEAN,
         SetActive(actor, target, active)
  PROVE  \E change \in Account : Exists(target) /\ Begin(actor, target, change)
<1>1. [account[target] EXCEPT !.active = active] \in Account
  BY DEF SetActive, Exists, TypeOK, Account
<1> QED BY <1>1 DEF SetActive

\* The commit of an admin's request changes one account; unless it locks it, the account is
\* as active as it was, or more.
LEMMA AccountCommitKeeps ==
  ASSUME TypeOK, TargetsThere, NEW actor \in Users, Commit(actor)
  PROVE  /\ TypeOK'
         /\ tx[actor] \in Request
         /\ TargetsThere'
         /\ \A u \in Users : Exists(u) => Exists(u)'
         /\ \A u \in Users : Exists(u) /\ account[u].active /\ ~account'[u].active =>
              u = tx[actor].target /\ tx[actor].loaded.active /\ ~tx[actor].change.active
<1> DEFINE q == tx[actor]
           w == Written(account[q.target], q.loaded, q.change)
<1>1. /\ q \in Request /\ account[q.target] \in Account
      /\ account' = [account EXCEPT ![q.target] = w]
      /\ tx' = [tx EXCEPT ![actor] = None]
  <2>1. q # None
    BY DEF Commit
  <2>2. q \in Request
    BY <2>1 DEF TypeOK
  <2>3. account[q.target] \in Account
    BY <2>1, <2>2 DEF TypeOK, TargetsThere, Exists, Request
  <2> QED BY <2>2, <2>3 DEF Commit
<1>2. q.target \in Users /\ q.loaded \in Account /\ q.change \in Account
  BY <1>1 DEF Request
<1>3. /\ w \in Account
      /\ account[q.target].active /\ ~w.active => q.loaded.active /\ ~q.change.active
  BY <1>1, <1>2 DEF Written, Account
<1> HIDE DEF w
<1>4. TypeOK'
  <2>1. skewed' \in BOOLEAN
    BY DEF Commit
  <2> QED BY <1>1, <1>2, <1>3, <2>1 DEF TypeOK
<1>5. \A u \in Users : Exists(u) => Exists(u)'
  BY <1>1, <1>2, <1>3, NoneAssumption DEF TypeOK, Exists
<1>6. TargetsThere'
  <2>1. ASSUME NEW u \in Users, tx'[u] # None  PROVE account'[tx'[u].target] # None
    <3>1. tx'[u] = tx[u] /\ tx[u] \in Request /\ account[tx[u].target] # None
      BY <1>1, <2>1 DEF TypeOK, TargetsThere, Exists
    <3>2. tx[u].target \in Users
      BY <3>1 DEF Request
    <3> QED BY <1>5, <3>1, <3>2 DEF Exists
  <2> QED BY <2>1 DEF TargetsThere, Exists
<1>7. ASSUME NEW u \in Users, Exists(u), account[u].active, ~account'[u].active
      PROVE  u = q.target /\ q.loaded.active /\ ~q.change.active
  BY <1>1, <1>2, <1>3, <1>7 DEF TypeOK
<1> QED BY <1>1, <1>4, <1>5, <1>6, <1>7
-----------------------------------------------------------------------------
(***************************************************************************)
(* The last active admin.                                                  *)
(*                                                                         *)
(* AdminLostOnlyBySkew is not inductive: that the commit of one request    *)
(* leaves an admin depends on what its count saw.  Until two of them are   *)
(* skewed, each request that is set to take something away still has an    *)
(* active admin besides its target.                                        *)
(***************************************************************************)
NoneLost ==
  /\ ActiveAdmins # {}
  /\ \A u \in Users : Decided(u) => ActiveAdmins \ {tx[u].target} # {}

SkewIInv == TypeOK /\ TargetsThere /\ (skewed \/ NoneLost)

LEMMA InitIInv == Init => SkewIInv
<1> SUFFICES ASSUME Init  PROVE SkewIInv
  OBVIOUS
<1>1. TypeOK
  BY FirstAdminAssumption DEF Init, TypeOK, Account, UserRole
<1>2. FirstAdmin \in ActiveAdmins
  <2>1. account[FirstAdmin] = [role |-> "ADMIN", active |-> TRUE]
    BY FirstAdminAssumption DEF Init
  <2>2. [role |-> "ADMIN", active |-> TRUE] \in Account
    BY DEF Account, UserRole
  <2>3. account[FirstAdmin] # None
    BY <2>1, <2>2, NoneAssumption
  <2> QED BY <2>1, <2>3, FirstAdminAssumption DEF ActiveAdmins, IsActiveAdmin
<1>3. \A u \in Users : tx[u] = None
  BY DEF Init
<1> QED BY <1>1, <1>2, <1>3 DEF SkewIInv, NoneLost, TargetsThere, Decided

\* Nothing is lost where no admin is, and no request newly comes to be decided.
LEMMA MoreAdmins ==
  ASSUME NoneLost, ActiveAdmins \subseteq ActiveAdmins',
         NEW S \in SUBSET Users,
         \A u \in S : Decided(u)' => Decided(u) /\ tx'[u].target = tx[u].target
  PROVE  /\ ActiveAdmins' # {}
         /\ \A u \in S : Decided(u)' => ActiveAdmins' \ {tx'[u].target} # {}
BY DEF NoneLost

LEMMA SameAdmins ==
  ASSUME account' = account
  PROVE  ActiveAdmins' = ActiveAdmins
BY DEF ActiveAdmins

\* A new account takes nobody's place.
LEMMA NewAccountKeeps ==
  ASSUME SkewIInv, NEW target \in Users, NEW role \in UserRole, account[target] = None,
         account' = [account EXCEPT ![target] = [role |-> role, active |-> TRUE]],
         UNCHANGED <<tx, skewed>>
  PROVE  SkewIInv'
<1>1. TablesKept
  BY NewAccountTables DEF SkewIInv
<1>2. ActiveAdmins \subseteq ActiveAdmins'
  BY <1>1 DEF TablesKept, AccountsKept, ActiveAdmins, IsActiveAdmin, Exists
<1>3. \A u \in Users : Decided(u)' => Decided(u) /\ tx'[u].target = tx[u].target
  BY DEF Decided
<1>4. NoneLost => NoneLost'
  BY <1>2, <1>3, MoreAdmins DEF NoneLost
<1> QED BY <1>1, <1>4 DEF SkewIInv, TablesKept

\* A request that no count is asked of takes nothing away from an active admin.
LEMMA BeginKeeps ==
  ASSUME SkewIInv, NEW actor \in Users, NEW target \in Users, NEW change \in Account,
         Exists(target), Begin(actor, target, change)
  PROVE  SkewIInv'
<1> DEFINE q == [target |-> target, loaded |-> account[target], change |-> change,
                 checked |-> FALSE]
<1>1. TablesKept
  BY BeginTables DEF SkewIInv
<1>2. account' = account /\ tx' = [tx EXCEPT ![actor] = q] /\ skewed' = skewed
  BY DEF Begin
<1>3. tx'[actor] = q /\ \A u \in Users \ {actor} : tx'[u] = tx[u]
  BY <1>2 DEF SkewIInv, TypeOK
<1>4. q.target = target /\ q.loaded = account[target] /\ q.change = change /\ ~q.checked
  OBVIOUS
<1> HIDE DEF q
<1>5. \A u \in Users \ {actor} : Decided(u)' => Decided(u) /\ tx'[u].target = tx[u].target
  BY <1>3 DEF Decided
<1>6. Decided(actor)' => target \notin ActiveAdmins
  BY <1>3, <1>4 DEF Decided, TakesAway, TakesAdminOut, ActiveAdmins, IsActiveAdmin
<1>7. NoneLost => NoneLost'
  BY <1>2, <1>3, <1>4, <1>5, <1>6, MoreAdmins, SameAdmins DEF NoneLost
<1> QED BY <1>1, <1>2, <1>7 DEF SkewIInv, TablesKept

\* The count finds another active admin, or is not asked for.
LEMMA CheckKeeps ==
  ASSUME SkewIInv, NEW actor \in Users, Check(actor)
  PROVE  SkewIInv'
<1> DEFINE y == tx[actor]
<1>1. TablesKept /\ \A u \in Users \ {actor} : tx'[u] = tx[u]
  BY CheckTables DEF SkewIInv
<1>2. /\ account' = account /\ skewed' = skewed
      /\ y # None /\ y \in Request
      /\ AssertAdminRemains(y.loaded, y.target, y.change)
  BY DEF SkewIInv, TypeOK, Check
<1>3. /\ tx'[actor].target = y.target /\ tx'[actor].loaded = y.loaded
      /\ tx'[actor].change = y.change
  <2>1. tx'[actor] = [y EXCEPT !.checked = TRUE]
    BY CheckTables DEF SkewIInv
  <2> QED BY <1>2, <2>1 DEF Request
<1>4. \A u \in Users \ {actor} : Decided(u)' => Decided(u) /\ tx'[u].target = tx[u].target
  BY <1>1 DEF Decided
<1>5. CASE TakesAdminOut(y.loaded, y.change)
  <2>1. ActiveAdmins \ {y.target} # {}
    BY <1>2, <1>5 DEF AssertAdminRemains
  <2>2. NoneLost => NoneLost'
    BY <1>2, <1>3, <1>4, <2>1, MoreAdmins, SameAdmins DEF NoneLost
  <2> QED BY <1>1, <1>2, <2>2 DEF SkewIInv, TablesKept
<1>6. CASE ~TakesAdminOut(y.loaded, y.change)
  <2>1. Decided(actor)' => Decided(actor)
    BY <1>2, <1>3, <1>6 DEF Decided, TakesAway
  <2>2. NoneLost => NoneLost'
    BY <1>2, <1>3, <1>4, <2>1, MoreAdmins, SameAdmins DEF NoneLost
  <2> QED BY <1>1, <1>2, <2>2 DEF SkewIInv, TablesKept
<1> QED BY <1>5, <1>6

\* What a commit takes away, its count has left to another; where that shakes the count of
\* another request, the two are skewed.
LEMMA CommitKeeps ==
  ASSUME SkewIInv, NEW actor \in Users, Commit(actor)
  PROVE  SkewIInv'
<1> DEFINE x == tx[actor]
           row == Written(account[x.target], x.loaded, x.change)
<1>1. TypeOK' /\ TargetsThere' /\ x \in Request
  BY AccountCommitKeeps DEF SkewIInv
<1>2. /\ x # None /\ x.checked /\ x.target \in Users
      /\ account' = [account EXCEPT ![x.target] = row]
      /\ tx' = [tx EXCEPT ![actor] = None]
  BY <1>1 DEF Commit, Request
<1>3. /\ skewed => skewed'
      /\ IsActiveAdmin(account[x.target]) /\ ~IsActiveAdmin(row)
           /\ (\E u \in Users \ {actor} : Decided(u)) => skewed'
  BY DEF Commit
<1>4. tx'[actor] = None /\ \A u \in Users \ {actor} : tx'[u] = tx[u]
  BY <1>2 DEF SkewIInv, TypeOK
<1>5. /\ account'[x.target] = row
      /\ \A u \in Users \ {x.target} : account'[u] = account[u]
  BY <1>2 DEF SkewIInv, TypeOK
<1>6. row # None
  <2>1. Exists(x.target)
    BY <1>2 DEF SkewIInv, TargetsThere
  <2> QED BY <1>2, <1>5, <2>1, AccountCommitKeeps DEF SkewIInv, Exists
<1>7. \A u \in Users : Decided(u)' => u # actor /\ Decided(u) /\ tx'[u].target = tx[u].target
  BY <1>4 DEF Decided
<1>8. row.role = IF x.change.role # x.loaded.role THEN x.change.role ELSE account[x.target].role
  BY DEF Written
<1>9. row.active = IF x.change.active # x.loaded.active THEN x.change.active
                                                         ELSE account[x.target].active
  BY DEF Written
<1> HIDE DEF x, row
<1>10. ActiveAdmins \ {x.target} \subseteq ActiveAdmins'
  BY <1>5 DEF ActiveAdmins
<1>11. CASE IsActiveAdmin(account[x.target]) => IsActiveAdmin(row)
  <2>1. ActiveAdmins \subseteq ActiveAdmins'
    BY <1>2, <1>5, <1>10, <1>11 DEF ActiveAdmins
  <2>2. NoneLost => NoneLost'
    BY <1>7, <2>1, MoreAdmins DEF NoneLost
  <2> QED BY <1>1, <1>3, <2>2 DEF SkewIInv
<1>12. CASE /\ IsActiveAdmin(account[x.target]) /\ ~IsActiveAdmin(row)
            /\ \A u \in Users \ {actor} : ~Decided(u)
  <2>1. TakesAway(x)
    BY <1>1, <1>6, <1>8, <1>9, <1>12 DEF TakesAway, IsActiveAdmin, Request, Account
  <2>2. Decided(actor)
    BY <1>2, <2>1 DEF Decided, x
  <2>3. NoneLost => ActiveAdmins' # {}
    BY <1>10, <2>2 DEF NoneLost, x
  <2>4. NoneLost => NoneLost'
    BY <1>7, <1>12, <2>3 DEF NoneLost
  <2> QED BY <1>1, <1>3, <2>4 DEF SkewIInv
<1>13. CASE /\ IsActiveAdmin(account[x.target]) /\ ~IsActiveAdmin(row)
            /\ \E u \in Users \ {actor} : Decided(u)
  BY <1>1, <1>3, <1>13 DEF SkewIInv
<1> QED BY <1>11, <1>12, <1>13

LEMMA RollbackKeeps ==
  ASSUME SkewIInv, NEW actor \in Users, Rollback(actor)
  PROVE  SkewIInv'
<1>1. TablesKept
  BY RollbackTables DEF SkewIInv
<1>2. account' = account /\ tx' = [tx EXCEPT ![actor] = None] /\ skewed' = skewed
  BY DEF Rollback
<1>3. tx'[actor] = None /\ \A u \in Users \ {actor} : tx'[u] = tx[u]
  BY <1>2 DEF SkewIInv, TypeOK
<1>4. \A u \in Users : Decided(u)' => Decided(u) /\ tx'[u].target = tx[u].target
  BY <1>3 DEF Decided
<1>5. NoneLost => NoneLost'
  BY <1>2, <1>4, MoreAdmins, SameAdmins DEF NoneLost
<1> QED BY <1>1, <1>2, <1>5 DEF SkewIInv, TablesKept

\* For any number of administrators at work, and any roles.
THEOREM SkewInvariant == Spec => []SkewIInv
<1>1. ASSUME SkewIInv, [Next]_vars  PROVE SkewIInv'
  <2>1. ASSUME NEW actor \in Users, NEW target \in Users, NEW role \in Roles,
               AdminUpdate(actor, target, role)
        PROVE  SkewIInv'
    <3>1. \E change \in Account : Exists(target) /\ Begin(actor, target, change)
      BY <1>1, <2>1, AdminUpdateBegins DEF SkewIInv
    <3> QED BY <1>1, <3>1, BeginKeeps
  <2>2. ASSUME NEW actor \in Users, NEW target \in Users, NEW role \in Roles,
               CreateUser(actor, target, role)
        PROVE  SkewIInv'
    BY <1>1, <2>2, NewAccountKeeps, RolesAssumption DEF CreateUser, Exists
  <2>3. ASSUME NEW target \in Users, Register(target)  PROVE SkewIInv'
    BY <1>1, <2>3, NewAccountKeeps DEF Register, Exists, UserRole
  <2>4. CASE UNCHANGED vars
    BY <1>1, <2>4 DEF vars, SkewIInv, NoneLost, TypeOK, TargetsThere, ActiveAdmins, Decided, Exists
  <2>5. ASSUME NEW actor \in Users, NEW target \in Users, NEW active \in BOOLEAN,
               SetActive(actor, target, active)
        PROVE  SkewIInv'
    <3>1. \E change \in Account : Exists(target) /\ Begin(actor, target, change)
      BY <1>1, <2>5, SetActiveBegins DEF SkewIInv
    <3> QED BY <1>1, <3>1, BeginKeeps
  <2>6. CASE Next
    BY <1>1, <2>1, <2>2, <2>3, <2>5, <2>6, CheckKeeps, CommitKeeps, RollbackKeeps DEF Next
  <2> QED BY <1>1, <2>4, <2>6
<1> QED BY <1>1, InitIInv, PTL DEF Spec

\* Types, from the same invariant.
THEOREM UserAdminTypes == Spec => []TypeOK
<1>1. SkewIInv => TypeOK
  BY DEF SkewIInv
<1> QED BY <1>1, SkewInvariant, PTL

\* What _assert_admin_remains gives to any number of administrators at once: the last
\* active admin is lost only where two requests take one out, each past its count.
THEOREM AdminsAreLostOnlyBySkew == Spec => []AdminLostOnlyBySkew
<1>1. SkewIInv => AdminLostOnlyBySkew
  BY DEF SkewIInv, NoneLost, AdminLostOnlyBySkew
<1> QED BY <1>1, SkewInvariant, PTL

-----------------------------------------------------------------------------
(***************************************************************************)
(* Sessions.                                                               *)
(*                                                                         *)
(* Base says what the tables and the open requests are.  Beyond it, each   *)
(* property needs to know something of the requests at work: whose account *)
(* they found active (Knowing), and whose token they use (Alone).          *)
(***************************************************************************)
AtWork == [op : {"login", "refresh"}, user : Users, token : Tokens \cup {None},
           active : BOOLEAN, late : BOOLEAN]

Refreshing(x) == Busy(x) /\ request[x].op = "refresh"
LoggingIn(x)  == Busy(x) /\ request[x].op = "login"

SessionTypes ==
  /\ token \in [Tokens -> TokenRow \cup {None}]
  /\ issued \in Nat /\ expired \in Nat
  /\ request \in [Requests -> AtWork \cup {None}]
  /\ attempts \in [Owners -> Nat]

\* Accounts never vanish, so the one a token was issued to is still there.
OwnersThere == \A t \in Tokens : Present(t) => Exists(token[t].user)

Numbers ==
  /\ \A t \in Tokens : Present(t) => t <= issued /\ token[t].family <= issued
  /\ \A x \in Requests : Refreshing(x) => request[x].token \in Tokens /\ request[x].token <= issued
  /\ \A x \in Requests : LoggingIn(x) => request[x].user \in Owners

Base == deployment \in Deployments /\ TypeOK /\ SessionTypes /\ TargetsThere /\ OwnersThere /\ Numbers

allVars == <<vars, sessionVars>>

-----------------------------------------------------------------------------
\* The steps of the administration, as far as sessions are concerned.
LEMMA AdminStepKeeps ==
  ASSUME TypeOK, TargetsThere, AdminStep, deployment \in Deployments
  PROVE  TablesKept
<1>0. deployment.users \subseteq Users /\ deployment.roles \subseteq Roles
  BY DeploymentsAssumption
<1>1. ASSUME NEW actor \in Users, NEW target \in Users, NEW role \in Roles,
             CreateUser(actor, target, role)
      PROVE  TablesKept
  BY <1>1, NewAccountTables, RolesAssumption DEF CreateUser, Exists
<1>2. ASSUME NEW target \in Users, Register(target)  PROVE TablesKept
  BY <1>2, NewAccountTables DEF Register, Exists, UserRole
<1>3. ASSUME NEW actor \in Users, NEW target \in Users, NEW role \in Roles,
             AdminUpdate(actor, target, role)
      PROVE  TablesKept
  BY <1>3, AdminUpdateBegins, BeginTables
<1>4. ASSUME NEW actor \in Users, NEW target \in Users, NEW active \in BOOLEAN,
             SetActive(actor, target, active)
      PROVE  TablesKept
  BY <1>4, SetActiveBegins, BeginTables
<1>5. ASSUME NEW actor \in Users, Check(actor) \/ Rollback(actor)  PROVE TablesKept
  BY <1>5, CheckTables, RollbackTables
<1> QED BY <1>0, <1>1, <1>2, <1>3, <1>4, <1>5 DEF AdminStep
-----------------------------------------------------------------------------
(***************************************************************************)
(* Most steps add neither a token nor a request, and where they lock an    *)
(* account they end its sessions.                                          *)
(***************************************************************************)
TokensShrink ==
  \A t \in Tokens : Present(t)' =>
    /\ Present(t)
    /\ token'[t].user = token[t].user /\ token'[t].family = token[t].family
    /\ token[t].revoked => token'[t].revoked

RequestsShrink ==
  \A x \in Requests : Busy(x)' =>
    /\ Busy(x)
    /\ request'[x].op = request[x].op /\ request'[x].user = request[x].user
    /\ request'[x].token = request[x].token /\ request'[x].active = request[x].active
    /\ request[x].late => request'[x].late

Ended(u) ==
  /\ \A t \in Tokens : Present(t)' /\ token'[t].user = u => token'[t].revoked
  /\ \A x \in Requests : Busy(x)' /\ request'[x].user = u => request'[x].late

Quiet ==
  /\ TokensShrink /\ RequestsShrink
  /\ deployment' = deployment /\ issued' = issued /\ late' = late /\ shared' = shared
  /\ expired <= expired'
  /\ SessionTypes' /\ TypeOK' /\ TargetsThere'
  /\ \A u \in Users : Exists(u) =>
       Exists(u)' /\ (account[u].active => account'[u].active \/ Ended(u))

LEMMA EndSessionsEnds ==
  ASSUME SessionTypes, NEW v \in Users, EndSessions(v)
  PROVE  TokensShrink /\ RequestsShrink /\ Ended(v) /\ SessionTypes'
<1>1. ASSUME NEW t \in Tokens, token[t] # None, token[t].user = v
      PROVE  /\ token'[t] = [token[t] EXCEPT !.revoked = TRUE]
             /\ token'[t] \in TokenRow /\ token[t] \in TokenRow
  BY <1>1 DEF SessionTypes, EndSessions, RevokeAllForUser, TokensOf, Present, TokenRow
<1>2. ASSUME NEW t \in Tokens, token[t] = None \/ token[t].user # v
      PROVE  token'[t] = token[t]
  BY <1>2 DEF EndSessions, RevokeAllForUser, TokensOf, Present
<1>3. TokensShrink
  BY <1>1, <1>2 DEF TokensShrink, Present, TokenRow
<1>4. ASSUME NEW x \in Requests, request[x] # None, request[x].user = v
      PROVE  /\ request'[x] = [request[x] EXCEPT !.late = TRUE]
             /\ request'[x] \in AtWork /\ request[x] \in AtWork
  BY <1>4 DEF SessionTypes, EndSessions, AtWork
<1>5. ASSUME NEW x \in Requests, request[x] = None \/ request[x].user # v
      PROVE  request'[x] = request[x]
  BY <1>5 DEF EndSessions
<1>6. RequestsShrink
  <2>1. ASSUME NEW x \in Requests, Busy(x)'
        PROVE  /\ Busy(x)
               /\ request'[x].op = request[x].op /\ request'[x].user = request[x].user
               /\ request'[x].token = request[x].token /\ request'[x].active = request[x].active
               /\ request[x].late => request'[x].late
    <3>1. CASE request[x] # None /\ request[x].user = v
      BY <1>4, <3>1 DEF Busy, AtWork
    <3>2. CASE request[x] = None \/ request[x].user # v
      BY <1>5, <2>1, <3>2 DEF Busy
    <3> QED BY <3>1, <3>2
  <2> QED BY <2>1 DEF RequestsShrink
<1>7. Ended(v)
  <2>1. ASSUME NEW t \in Tokens, token'[t] # None, token'[t].user = v
        PROVE  token'[t].revoked
    BY <1>1, <1>2, <2>1 DEF TokenRow
  <2>2. ASSUME NEW x \in Requests, request'[x] # None, request'[x].user = v
        PROVE  request'[x].late
    BY <1>4, <1>5, <2>2 DEF AtWork
  <2> QED BY <2>1, <2>2 DEF Ended, Present, Busy
<1>8. token' \in [Tokens -> TokenRow \cup {None}]
  <2>1. \A t \in Tokens : token'[t] \in TokenRow \cup {None}
    BY <1>1, <1>2 DEF SessionTypes
  <2> QED BY <2>1 DEF EndSessions, RevokeAllForUser
<1>9. request' \in [Requests -> AtWork \cup {None}]
  <2>1. \A x \in Requests : request'[x] \in AtWork \cup {None}
    BY <1>4, <1>5 DEF SessionTypes
  <2> QED BY <2>1 DEF EndSessions
<1> QED BY <1>3, <1>6, <1>7, <1>8, <1>9 DEF SessionTypes, EndSessions

\* What leaves the accounts alone.
LEMMA AccountsUnchanged ==
  ASSUME Base, account' = account, tx' = tx, skewed' = skewed
  PROVE  /\ TypeOK' /\ TargetsThere'
         /\ \A u \in Users : Exists(u) =>
              Exists(u)' /\ (account[u].active => account'[u].active \/ Ended(u))
BY DEF Base, TypeOK, TargetsThere, Exists

\* What leaves the tokens, or the requests, alone.
LEMMA SessionsUnchanged ==
  /\ token' = token => TokensShrink
  /\ request' = request => RequestsShrink
BY DEF TokensShrink, RequestsShrink, Present, Busy

LEMMA EndingIsQuiet ==
  ASSUME Base, NEW v \in Users, EndSessions(v), UNCHANGED vars
  PROVE  Quiet
<1>1. account' = account /\ tx' = tx /\ skewed' = skewed
  BY DEF vars
<1>2. TokensShrink /\ RequestsShrink /\ SessionTypes'
  BY EndSessionsEnds DEF Base
<1>3. issued \in Nat /\ expired \in Nat
  BY DEF Base, SessionTypes
<1> QED BY <1>1, <1>2, <1>3, AccountsUnchanged DEF Quiet, EndSessions

LEMMA AdminIsQuiet ==
  ASSUME Base, AdminStep
  PROVE  Quiet
<1>1. AccountsKept /\ TypeOK' /\ TargetsThere'
  BY AdminStepKeeps DEF Base, TablesKept
<1>2. \A u \in Users : Exists(u) => Exists(u)' /\ (account[u].active => account'[u].active)
  BY <1>1 DEF AccountsKept, Exists
<1>3. UNCHANGED sessionVars
  BY DEF AdminStep
<1>4. /\ deployment' = deployment /\ token' = token /\ issued' = issued
      /\ expired' = expired /\ request' = request /\ attempts' = attempts
      /\ late' = late /\ shared' = shared
  BY <1>3 DEF sessionVars
<1>5. SessionTypes'
  BY <1>4 DEF Base, SessionTypes
<1>6. expired \in Nat
  BY DEF Base, SessionTypes
<1> QED BY <1>1, <1>2, <1>4, <1>5, <1>6, SessionsUnchanged DEF Quiet

LEMMA AdminCommitIsQuiet ==
  ASSUME Base, NEW actor \in Users, AdminCommit(actor)
  PROVE  Quiet
<1> DEFINE q == tx[actor]
<1>1. Commit(actor) /\ q \in Request
  BY AccountCommitKeeps DEF AdminCommit, Base
<1>2. /\ TypeOK' /\ TargetsThere'
      /\ \A u \in Users : Exists(u) => Exists(u)'
      /\ \A u \in Users : Exists(u) /\ account[u].active /\ ~account'[u].active =>
           u = q.target /\ q.loaded.active /\ ~q.change.active
  BY <1>1, AccountCommitKeeps DEF Base
<1>3. q.target \in Users
  BY <1>1 DEF Request
<1>4. expired \in Nat
  BY DEF Base, SessionTypes
<1>5. CASE q.loaded.active /\ ~q.change.active
  <2>1. EndSessions(q.target)
    BY <1>5 DEF AdminCommit
  <2>2. TokensShrink /\ RequestsShrink /\ Ended(q.target) /\ SessionTypes'
    BY <1>3, <2>1, EndSessionsEnds DEF Base
  <2> QED BY <1>2, <1>4, <2>1, <2>2 DEF Quiet, EndSessions
<1>6. CASE ~(q.loaded.active /\ ~q.change.active)
  <2>1. UNCHANGED sessionVars
    BY <1>6 DEF AdminCommit
  <2>2. /\ deployment' = deployment /\ token' = token /\ issued' = issued
        /\ expired' = expired /\ request' = request /\ attempts' = attempts
        /\ late' = late /\ shared' = shared
    BY <2>1 DEF sessionVars
  <2>3. SessionTypes'
    BY <2>2 DEF Base, SessionTypes
  <2> QED BY <1>2, <1>4, <1>6, <2>2, <2>3, SessionsUnchanged DEF Quiet
<1> QED BY <1>5, <1>6

\* A request that is given up, or an attempt that fails, is no request any more.
LEMMA GivingUpIsQuiet ==
  ASSUME Base, NEW x \in Requests, LoginFails(x) \/ RequestFails(x)
  PROVE  Quiet
<1>1. /\ request' = [request EXCEPT ![x] = None]
      /\ deployment' = deployment /\ token' = token /\ issued' = issued
      /\ expired' = expired /\ late' = late /\ shared' = shared
      /\ account' = account /\ tx' = tx /\ skewed' = skewed
  BY DEF LoginFails, RequestFails
<1>2. attempts' \in [Owners -> Nat]
  <2>1. CASE LoginFails(x)
    <3>1. request[x].user \in Owners
      BY <2>1 DEF LoginFails, Base, Numbers, LoggingIn
    <3> QED BY <2>1, <3>1 DEF LoginFails, Base, SessionTypes
  <2>2. CASE RequestFails(x)
    BY <2>2 DEF RequestFails, Base, SessionTypes
  <2> QED BY <2>1, <2>2
<1>3. RequestsShrink
  BY <1>1 DEF RequestsShrink, Busy, Base, SessionTypes
<1>4. SessionTypes'
  BY <1>1, <1>2 DEF Base, SessionTypes
<1>5. expired \in Nat
  BY DEF Base, SessionTypes
<1> QED BY <1>1, <1>3, <1>4, <1>5, AccountsUnchanged, SessionsUnchanged DEF Quiet

LEMMA WindowIsQuiet ==
  ASSUME Base, NEW u \in Owners, WindowEnds(u)
  PROVE  Quiet
<1>1. /\ attempts' = [attempts EXCEPT ![u] = 0]
      /\ deployment' = deployment /\ token' = token /\ issued' = issued
      /\ expired' = expired /\ late' = late /\ shared' = shared /\ request' = request
      /\ account' = account /\ tx' = tx /\ skewed' = skewed
  BY DEF WindowEnds
<1>2. SessionTypes' /\ expired \in Nat
  BY <1>1 DEF Base, SessionTypes
<1> QED BY <1>1, <1>2, AccountsUnchanged, SessionsUnchanged DEF Quiet

LEMMA TokenLossIsQuiet ==
  ASSUME Base, (\E t \in Tokens : Logout(t)) \/ Expire \/ CleanupExpiredTokens
  PROVE  Quiet
<1>1. ASSUME NEW t \in Tokens, Logout(t)  PROVE Quiet
  <2>1. /\ token' = [token EXCEPT ![t].revoked = TRUE] /\ token[t] \in TokenRow
        /\ deployment' = deployment /\ issued' = issued /\ request' = request
        /\ expired' = expired /\ late' = late /\ shared' = shared
        /\ attempts' = attempts /\ account' = account /\ tx' = tx /\ skewed' = skewed
    BY <1>1 DEF Logout, Revoked, Base, SessionTypes, Present
  <2>2. /\ [token[t] EXCEPT !.revoked = TRUE] \in TokenRow
        /\ [token[t] EXCEPT !.revoked = TRUE].user = token[t].user
        /\ [token[t] EXCEPT !.revoked = TRUE].family = token[t].family
        /\ [token[t] EXCEPT !.revoked = TRUE].revoked
    BY <2>1 DEF TokenRow
  <2>3. token'[t] = [token[t] EXCEPT !.revoked = TRUE]
        /\ \A s \in Tokens \ {t} : token'[s] = token[s]
    BY <2>1 DEF Base, SessionTypes
  <2>4. TokensShrink
    BY <1>1, <2>2, <2>3 DEF TokensShrink, Present, Logout
  <2>5. SessionTypes' /\ expired \in Nat
    BY <2>1, <2>2, <2>3 DEF Base, SessionTypes
  <2> QED BY <2>1, <2>4, <2>5, AccountsUnchanged, SessionsUnchanged DEF Quiet
<1>2. CASE Expire
  <2>1. /\ expired' = expired + 1 /\ token' = token
        /\ deployment' = deployment /\ issued' = issued /\ request' = request
        /\ late' = late /\ shared' = shared
        /\ attempts' = attempts /\ account' = account /\ tx' = tx /\ skewed' = skewed
    BY <1>2 DEF Expire
  <2>2. SessionTypes' /\ expired <= expired'
    BY <2>1 DEF Base, SessionTypes
  <2> QED BY <2>1, <2>2, AccountsUnchanged, SessionsUnchanged DEF Quiet
<1>3. CASE CleanupExpiredTokens
  <2>1. /\ token' = [t \in Tokens |-> IF t <= expired THEN None ELSE token[t]]
        /\ expired' = expired
        /\ deployment' = deployment /\ issued' = issued /\ request' = request
        /\ late' = late /\ shared' = shared
        /\ attempts' = attempts /\ account' = account /\ tx' = tx /\ skewed' = skewed
    BY <1>3 DEF CleanupExpiredTokens
  <2>2. SessionTypes' /\ expired <= expired'
    BY <2>1 DEF Base, SessionTypes
  <2>3. TokensShrink
    BY <2>1 DEF TokensShrink, Present
  <2> QED BY <2>1, <2>2, <2>3, AccountsUnchanged, SessionsUnchanged DEF Quiet
<1> QED BY <1>1, <1>2, <1>3

-----------------------------------------------------------------------------
(***************************************************************************)
(* What the properties need to know of the requests at work.               *)
(***************************************************************************)
\* A request that is going to issue a token belongs to an active account, or to one whose
\* sessions were ended since it began.
Knowing ==
  \A x \in Requests : Refreshing(x) \/ (LoggingIn(x) /\ request[x].active) =>
    Exists(request[x].user) /\ (account[request[x].user].active \/ request[x].late)

\* In a family that two requests never used at once, the token that a request uses is the
\* only one that may still be live, and nobody else uses one of the family.
Alone ==
  \A x \in Requests : Refreshing(x) /\ Present(request[x].token) =>
    LET f == token[request[x].token].family
    IN  f \notin shared =>
          /\ \A s \in Tokens : Live(s) /\ token[s].family = f => s = request[x].token
          /\ \A y \in Requests : Refreshing(y) /\ Present(request[y].token)
                                /\ token[request[y].token].family = f => y = x

SessionsInv == Base /\ SessionsEnd /\ Knowing /\ OneSessionPerLogin /\ Alone

LEMMA QuietKeeps ==
  ASSUME SessionsInv, Quiet
  PROVE  SessionsInv'
<1>1. \A t \in Tokens : Live(t)' => Live(t) /\ Present(t)
  BY DEF Quiet, TokensShrink, Live, SessionsInv, Base, SessionTypes, Tokens
<1>2. \A t \in Tokens : Present(t)' => token[t] \in TokenRow /\ token'[t] \in TokenRow
  BY DEF Quiet, TokensShrink, SessionTypes, SessionsInv, Base, Present
<1>3. OwnersThere'
  BY <1>2 DEF Quiet, TokensShrink, OwnersThere, SessionsInv, Base, TokenRow
<1>4. Numbers'
  BY DEF Quiet, TokensShrink, RequestsShrink, Numbers, SessionsInv, Base, Refreshing, LoggingIn
<1>5. Base'
  BY <1>3, <1>4 DEF Quiet, SessionsInv, Base
<1>6. SessionsEnd'
  <2>1. ASSUME NEW t \in Tokens, Live(t)'
        PROVE  account'[token'[t].user].active \/ t \in late'
    <3> DEFINE u == token[t].user
    <3>1. /\ Present(t) /\ Present(t)' /\ Live(t) /\ token'[t].user = u /\ u \in Users
          /\ ~token'[t].revoked
      BY <1>1, <1>2, <2>1 DEF Live, Quiet, TokensShrink, TokenRow
    <3>2. Exists(u)
      BY <3>1 DEF SessionsInv, Base, OwnersThere
    <3>3. account[u].active \/ t \in late
      BY <3>1 DEF SessionsInv, SessionsEnd
    <3>4. ~Ended(u)
      BY <3>1 DEF Ended
    <3> QED BY <3>1, <3>2, <3>3, <3>4 DEF Quiet
  <2> QED BY <2>1 DEF SessionsEnd
<1>7. Knowing'
  <2>1. ASSUME NEW x \in Requests,
               (Refreshing(x) \/ (LoggingIn(x) /\ request[x].active))'
        PROVE  Exists(request[x].user)' /\ (account'[request'[x].user].active \/ request'[x].late)
    <3> DEFINE u == request[x].user
    <3>1. /\ Busy(x) /\ Busy(x)' /\ request'[x].user = u
          /\ request[x].late => request'[x].late
          /\ Refreshing(x) \/ (LoggingIn(x) /\ request[x].active)
      BY <2>1 DEF Quiet, RequestsShrink, Refreshing, LoggingIn
    <3>2. u \in Users
      BY <3>1 DEF SessionsInv, Base, SessionTypes, Busy, AtWork
    <3>3. Exists(u) /\ (account[u].active \/ request[x].late)
      BY <3>1 DEF SessionsInv, Knowing
    <3>4. Ended(u) => request'[x].late
      BY <3>1 DEF Ended
    <3>5. account'[u] # None /\ (account[u].active => account'[u].active \/ Ended(u))
      BY <3>2, <3>3 DEF Quiet, Exists
    <3> QED BY <3>1, <3>3, <3>4, <3>5 DEF Exists
  <2> QED BY <2>1 DEF Knowing
<1>8. OneSessionPerLogin'
  BY <1>1 DEF OneSessionPerLogin, SessionsInv, Quiet, TokensShrink, Live
<1>9. Alone'
  <2>1. \A x \in Requests : Refreshing(x)' =>
          Refreshing(x) /\ request'[x].token = request[x].token /\ request[x].token \in Tokens
    BY DEF Quiet, RequestsShrink, Refreshing, SessionsInv, Base, Numbers
  <2>2. \A t \in Tokens : Present(t)' => Present(t) /\ token'[t].family = token[t].family
    BY DEF Quiet, TokensShrink
  <2>3. ASSUME NEW x \in Requests, Refreshing(x)', Present(request[x].token)',
               token'[request'[x].token].family \notin shared'
        PROVE  /\ \A s \in Tokens : Live(s)' /\ token'[s].family = token'[request'[x].token].family
                                      => s = request'[x].token
               /\ \A y \in Requests : Refreshing(y)' /\ Present(request[y].token)'
                      /\ token'[request'[y].token].family = token'[request'[x].token].family
                      => y = x
    <3> DEFINE t == request[x].token
    <3>1. Refreshing(x) /\ t \in Tokens /\ request'[x].token = t
      BY <2>1, <2>3
    <3>2. token'[t] # None
      BY <2>3, <3>1 DEF Present
    <3>3. Present(t) /\ token'[t].family = token[t].family /\ token[t].family \notin shared
      BY <2>2, <2>3, <3>1, <3>2 DEF Quiet, Present
    <3>4. /\ \A s \in Tokens : Live(s) /\ token[s].family = token[t].family => s = t
          /\ \A y \in Requests : Refreshing(y) /\ Present(request[y].token)
                 /\ token[request[y].token].family = token[t].family => y = x
      BY <3>1, <3>3 DEF SessionsInv, Alone
    <3>5. ASSUME NEW s \in Tokens, Live(s)', token'[s].family = token[t].family  PROVE s = t
      BY <1>1, <2>2, <3>4, <3>5 DEF Live
    <3>6. ASSUME NEW y \in Requests, Refreshing(y)', Present(request[y].token)',
                 token'[request'[y].token].family = token[t].family
          PROVE  y = x
      <4>1. Refreshing(y) /\ request'[y].token = request[y].token /\ request[y].token \in Tokens
        BY <2>1, <3>6
      <4>2. token'[request[y].token] # None
        BY <3>6, <4>1 DEF Present
      <4>3. Present(request[y].token) /\ token'[request[y].token].family = token[request[y].token].family
        BY <2>2, <4>1, <4>2 DEF Present
      <4> QED BY <3>4, <3>6, <4>1, <4>3
    <3> QED BY <3>1, <3>3, <3>5, <3>6
  <2> QED BY <2>3 DEF Alone
<1> QED BY <1>5, <1>6, <1>7, <1>8, <1>9 DEF SessionsInv

-----------------------------------------------------------------------------
(***************************************************************************)
(* The steps that add a request or a token.                                *)
(***************************************************************************)
LEMMA LoginBeginKeeps ==
  ASSUME SessionsInv, NEW x \in Requests, NEW u \in Owners, LoginBegin(x, u)
  PROVE  SessionsInv'
<1> DEFINE w == Work("login", u, None, Active(u))
<1>1. /\ request' = [request EXCEPT ![x] = w] /\ request[x] = None
      /\ deployment' = deployment /\ token' = token /\ issued' = issued
      /\ expired' = expired /\ attempts' = attempts /\ late' = late /\ shared' = shared
      /\ account' = account /\ tx' = tx /\ skewed' = skewed
  BY DEF LoginBegin, Idle
<1>2. Active(u) \in BOOLEAN
  BY OwnersAssumption DEF Active, Exists, SessionsInv, Base, TypeOK, Account
<1>3. w \in AtWork /\ w.op = "login" /\ w.user = u /\ w.active = Active(u)
  BY <1>2, OwnersAssumption DEF Work, AtWork
<1> HIDE DEF w
<1>4. \A y \in Requests : request'[y] = IF y = x THEN w ELSE request[y]
  BY <1>1 DEF SessionsInv, Base, SessionTypes
<1>5. Base'
  <2>1. SessionTypes'
    BY <1>1, <1>3 DEF SessionsInv, Base, SessionTypes
  <2>2. Numbers'
    BY <1>1, <1>3, <1>4 DEF SessionsInv, Base, Numbers, Refreshing, LoggingIn, Busy, Present
  <2> QED BY <1>1, <2>1, <2>2 DEF SessionsInv, Base, TypeOK, TargetsThere, OwnersThere, Exists,
                                  Present
<1>6. SessionsEnd' /\ OneSessionPerLogin'
  BY <1>1 DEF SessionsInv, SessionsEnd, OneSessionPerLogin, Live, Present
<1>7. Knowing'
  BY <1>1, <1>3, <1>4 DEF SessionsInv, Knowing, Refreshing, LoggingIn, Busy, Active, Exists
<1>8. \A y \in Requests : Refreshing(y)' => Refreshing(y) /\ request'[y] = request[y]
  BY <1>3, <1>4 DEF Refreshing, Busy
<1>9. Alone'
  BY <1>1, <1>8 DEF SessionsInv, Alone, Live, Present
<1> QED BY <1>5, <1>6, <1>7, <1>9 DEF SessionsInv

\* The token is live: what the others are doing with its family is doing it with this token.
LEMMA RefreshBeginKeeps ==
  ASSUME SessionsInv, NEW x \in Requests, NEW t \in Tokens, RefreshBegin(x, t)
  PROVE  SessionsInv'
<1> DEFINE w == Work("refresh", token[t].user, t, TRUE)
<1>1. /\ request' = [request EXCEPT ![x] = w] /\ request[x] = None
      /\ deployment' = deployment /\ token' = token /\ issued' = issued
      /\ expired' = expired /\ attempts' = attempts /\ late' = late
      /\ account' = account /\ tx' = tx /\ skewed' = skewed
      /\ Live(t) /\ Active(token[t].user)
  BY DEF RefreshBegin, Idle
<1>2. shared' = IF \E y \in Requests : Busy(y) /\ request[y].token = t
                THEN shared \cup {token[t].family} ELSE shared
  BY DEF RefreshBegin
<1>3. Present(t) /\ token[t] \in TokenRow
  BY <1>1 DEF Live, Present, SessionsInv, Base, SessionTypes
<1>4. /\ w \in AtWork /\ w.op = "refresh" /\ w.user = token[t].user /\ w.token = t
      /\ w.active
  BY <1>3 DEF Work, AtWork, TokenRow
<1> HIDE DEF w
<1>5. \A y \in Requests : request'[y] = IF y = x THEN w ELSE request[y]
  BY <1>1 DEF SessionsInv, Base, SessionTypes
<1>6. shared \subseteq shared'
  BY <1>2
<1>7. Base'
  <2>1. SessionTypes'
    BY <1>1, <1>4 DEF SessionsInv, Base, SessionTypes
  <2>2. t <= issued
    BY <1>3 DEF SessionsInv, Base, Numbers
  <2>3. Numbers'
    BY <1>1, <1>4, <1>5, <2>2 DEF SessionsInv, Base, Numbers, Refreshing, LoggingIn, Busy, Present
  <2> QED BY <1>1, <2>1, <2>3 DEF SessionsInv, Base, TypeOK, TargetsThere, OwnersThere, Exists,
                                  Present
<1>8. SessionsEnd' /\ OneSessionPerLogin'
  BY <1>1, <1>6 DEF SessionsInv, SessionsEnd, OneSessionPerLogin, Live, Present
<1>9. Knowing'
  BY <1>1, <1>4, <1>5 DEF SessionsInv, Knowing, Refreshing, LoggingIn, Busy, Active, Exists
<1>10. ASSUME token[t].family \notin shared'
       PROVE  /\ token[t].family \notin shared
              /\ \A s \in Tokens : Live(s) /\ token[s].family = token[t].family => s = t
              /\ \A y \in Requests : Refreshing(y) /\ Present(request[y].token)
                                     => token[request[y].token].family # token[t].family
  <2>1. token[t].family \notin shared /\ \A y \in Requests : Busy(y) => request[y].token # t
    BY <1>2, <1>10
  <2>2. \A s \in Tokens : Live(s) /\ token[s].family = token[t].family => s = t
    BY <1>1, <2>1 DEF SessionsInv, OneSessionPerLogin
  <2>3. ASSUME NEW y \in Requests, Refreshing(y), Present(request[y].token),
               token[request[y].token].family = token[t].family
        PROVE  FALSE
    <3>1. t = request[y].token
      BY <1>1, <2>1, <2>3 DEF SessionsInv, Alone
    <3> QED BY <2>1, <2>3, <3>1 DEF Refreshing
  <2> QED BY <2>1, <2>2, <2>3
<1>11. Alone'
  <2>1. \A s \in Tokens : (Live(s)' <=> Live(s)) /\ (Present(s)' <=> Present(s))
    BY <1>1 DEF Live, Present
  <2>2. \A y \in Requests : Refreshing(y)' =>
          IF y = x THEN request'[y].token = t
          ELSE Refreshing(y) /\ request'[y].token = request[y].token
    BY <1>4, <1>5 DEF Refreshing, Busy
  <2>3. ASSUME NEW y \in Requests, Refreshing(y)', token[request'[y].token] # None,
               token[request'[y].token].family \notin shared'
        PROVE  /\ \A s \in Tokens : Live(s) /\ token[s].family = token[request'[y].token].family
                                     => s = request'[y].token
               /\ \A z \in Requests : Refreshing(z)' /\ token[request'[z].token] # None
                     /\ token[request'[z].token].family = token[request'[y].token].family
                     => z = y
    <3>1. CASE y = x
      BY <1>10, <2>2, <2>3, <3>1 DEF Present
    <3>2. CASE y # x
      <4>1. /\ Refreshing(y) /\ request'[y].token = request[y].token
            /\ Present(request[y].token) /\ token[request[y].token].family \notin shared
        BY <1>6, <2>2, <2>3, <3>2 DEF Present
      <4>2. /\ \A s \in Tokens : Live(s) /\ token[s].family = token[request[y].token].family
                                  => s = request[y].token
            /\ \A z \in Requests : Refreshing(z) /\ Present(request[z].token)
                  /\ token[request[z].token].family = token[request[y].token].family => z = y
        BY <4>1 DEF SessionsInv, Alone
      <4>3. token[request[y].token].family # token[t].family
        BY <1>10, <2>3, <4>1
      <4> QED BY <2>2, <4>1, <4>2, <4>3 DEF Present
    <3> QED BY <3>1, <3>2
  <2> QED BY <1>1, <2>1, <2>3 DEF Alone, Present, Live
<1> QED BY <1>7, <1>8, <1>9, <1>11 DEF SessionsInv

\* What a request that issues a token makes of the tables, but for the family.
LEMMA IssueKeeps ==
  ASSUME SessionsInv, NEW x \in Requests, NEW table \in [Tokens -> TokenRow \cup {None}],
         NEW family \in Tokens, family <= issued + 1,
         \A t \in Tokens : table[t] # None =>
           /\ Present(t) /\ table[t].user = token[t].user /\ table[t].family = token[t].family
           /\ token[t].revoked => table[t].revoked,
         Refreshing(x) \/ (LoggingIn(x) /\ request[x].active),
         attempts' \in [Owners -> Nat],
         Issue(x, table, family)
  PROVE  /\ Base' /\ SessionsEnd' /\ Knowing'
         /\ issued + 1 \in Tokens
         /\ token'[issued + 1].family = family
         /\ \A t \in Tokens \ {issued + 1} : token'[t] = table[t]
         /\ \A t \in Tokens \ {issued + 1} : Live(t)' => Live(t)
         /\ \A y \in Requests : Busy(y)' => Busy(y) /\ y # x /\ request'[y] = request[y]
<1> DEFINE new == issued + 1
           row == [user |-> request[x].user, family |-> family, revoked |-> FALSE]
<1>1. /\ new \in Tokens /\ token' = [table EXCEPT ![new] = row] /\ issued' = new
      /\ late' = IF request[x].late THEN late \cup {new} ELSE late
      /\ request' = [request EXCEPT ![x] = None]
      /\ deployment' = deployment /\ expired' = expired /\ shared' = shared
      /\ account' = account /\ tx' = tx /\ skewed' = skewed
  BY DEF Issue
<1>2. request[x] \in AtWork /\ request[x].user \in Users
  BY DEF SessionsInv, Base, SessionTypes, Refreshing, LoggingIn, Busy, AtWork
<1>3. /\ row \in TokenRow /\ row.user = request[x].user /\ row.family = family
      /\ ~row.revoked
  BY <1>2 DEF TokenRow
<1> HIDE DEF row
<1>4. \A t \in Tokens : token'[t] = IF t = new THEN row ELSE table[t]
  BY <1>1
<1>5. \A y \in Requests : Busy(y)' => Busy(y) /\ y # x /\ request'[y] = request[y]
  BY <1>1 DEF Busy, SessionsInv, Base, SessionTypes
<1>6. issued \in Nat /\ new \in Nat
  BY DEF SessionsInv, Base, SessionTypes
<1>7. /\ Exists(request[x].user)
      /\ account[request[x].user].active \/ request[x].late
  BY DEF SessionsInv, Knowing
<1>8. SessionTypes'
  <2>1. token' \in [Tokens -> TokenRow \cup {None}]
    BY <1>1, <1>3
  <2>2. request' \in [Requests -> AtWork \cup {None}]
    BY <1>1 DEF SessionsInv, Base, SessionTypes
  <2> QED BY <1>1, <1>6, <2>1, <2>2 DEF SessionsInv, Base, SessionTypes
<1>9. OwnersThere'
  <2>1. ASSUME NEW t \in Tokens, token'[t] # None  PROVE account[token'[t].user] # None
    <3>1. CASE t = new
      BY <1>3, <1>4, <1>7, <3>1 DEF Exists
    <3>2. CASE t # new
      BY <1>4, <2>1, <3>2 DEF SessionsInv, Base, OwnersThere, Exists
    <3> QED BY <3>1, <3>2
  <2> QED BY <1>1, <2>1 DEF OwnersThere, Present, Exists
<1>10. Numbers'
  <2>1. ASSUME NEW t \in Tokens, token'[t] # None
        PROVE  t <= new /\ token'[t].family <= new
    <3>1. CASE t = new
      BY <1>3, <1>4, <1>6, <3>1
    <3>2. CASE t # new
      <4>1. /\ Present(t) /\ token'[t].family = token[t].family
            /\ token[t] \in TokenRow /\ t <= issued /\ token[t].family <= issued
        BY <1>4, <2>1, <3>2 DEF SessionsInv, Base, Numbers, SessionTypes, Present
      <4>2. token[t].family \in Nat /\ t \in Nat
        BY <4>1 DEF TokenRow, Tokens
      <4> QED BY <1>6, <4>1, <4>2
    <3> QED BY <3>1, <3>2
  <2>2. \A y \in Requests : Refreshing(y)' => request'[y].token \in Tokens
                                            /\ request'[y].token <= new
    BY <1>5, <1>6 DEF SessionsInv, Base, Numbers, Refreshing, Busy, Tokens
  <2>3. \A y \in Requests : LoggingIn(y)' => request'[y].user \in Owners
    BY <1>5 DEF SessionsInv, Base, Numbers, LoggingIn
  <2> QED BY <1>1, <2>1, <2>2, <2>3 DEF Numbers, Present
<1>11. Base'
  BY <1>1, <1>8, <1>9, <1>10 DEF SessionsInv, Base, TypeOK, TargetsThere, Exists
<1>12. \A t \in Tokens \ {new} : Live(t)' => Live(t)
  BY <1>1, <1>4 DEF Live, Present
<1>13. SessionsEnd'
  <2>1. ASSUME NEW t \in Tokens, Live(t)'  PROVE account[token'[t].user].active \/ t \in late'
    <3>1. CASE t = new
      BY <1>1, <1>3, <1>4, <1>7, <3>1
    <3>2. CASE t # new
      <4>1. Live(t) /\ token'[t].user = token[t].user
        BY <1>4, <1>12, <2>1, <3>2 DEF Live, Present
      <4> QED BY <1>1, <4>1 DEF SessionsInv, SessionsEnd
    <3> QED BY <3>1, <3>2
  <2> QED BY <1>1, <2>1 DEF SessionsEnd
<1>14. Knowing'
  BY <1>1, <1>5 DEF SessionsInv, Knowing, Refreshing, LoggingIn, Exists
<1> QED BY <1>1, <1>3, <1>4, <1>5, <1>11, <1>12, <1>13, <1>14

\* A login founds a family: its token is the first, and no request knows it yet.
LEMMA LoginCommitKeeps ==
  ASSUME SessionsInv, NEW x \in Requests, LoginCommit(x)
  PROVE  SessionsInv'
<1> DEFINE new == issued + 1
<1>1. LoggingIn(x) /\ request[x].active /\ Issue(x, token, new)
  BY DEF LoginCommit, LoggingIn
<1>2. new \in Tokens /\ token \in [Tokens -> TokenRow \cup {None}] /\ new <= issued + 1
  BY <1>1 DEF Issue, SessionsInv, Base, SessionTypes, Tokens
<1>3. attempts' \in [Owners -> Nat]
  <2>1. attempts' = [attempts EXCEPT ![request[x].user] = 0]
    BY DEF LoginCommit
  <2> QED BY <2>1 DEF SessionsInv, Base, SessionTypes
<1>4. /\ Base' /\ SessionsEnd' /\ Knowing'
      /\ token'[new].family = new
      /\ \A t \in Tokens \ {new} : token'[t] = token[t] /\ (Live(t)' => Live(t))
      /\ \A y \in Requests : Busy(y)' => Busy(y) /\ y # x /\ request'[y] = request[y]
  BY <1>1, <1>2, <1>3, IssueKeeps DEF Present
<1>5. shared' = shared
  BY <1>1 DEF Issue
<1>6. \A t \in Tokens : Present(t) => t # new /\ token[t].family # new
  BY <1>2 DEF SessionsInv, Base, Numbers, SessionTypes, Tokens, TokenRow, Present
<1>7. \A t \in Tokens : Live(t)' => t = new \/ (Live(t) /\ token'[t] = token[t] /\ token[t].family # new)
  BY <1>4, <1>6 DEF Live
<1>8. OneSessionPerLogin'
  BY <1>4, <1>5, <1>7 DEF SessionsInv, OneSessionPerLogin
<1>9. \A y \in Requests : Refreshing(y)' =>
        /\ Refreshing(y) /\ request'[y] = request[y]
        /\ request[y].token \in Tokens /\ request[y].token # new
        /\ token'[request[y].token] = token[request[y].token]
  BY <1>2, <1>4 DEF Refreshing, SessionsInv, Base, Numbers, SessionTypes, Tokens
<1>10. Alone'
  <2>1. ASSUME NEW y \in Requests, Refreshing(y)', token'[request'[y].token] # None,
               token'[request'[y].token].family \notin shared'
        PROVE  /\ \A s \in Tokens : Live(s)' /\ token'[s].family = token'[request'[y].token].family
                                     => s = request'[y].token
               /\ \A z \in Requests : Refreshing(z)' /\ token'[request'[z].token] # None
                     /\ token'[request'[z].token].family = token'[request'[y].token].family
                     => z = y
    <3> DEFINE t == request[y].token
    <3>1. /\ Refreshing(y) /\ request'[y].token = t /\ t \in Tokens /\ Present(t)
          /\ token'[t] = token[t] /\ token[t].family \notin shared /\ token[t].family # new
      BY <1>5, <1>6, <1>9, <2>1 DEF Present
    <3>2. /\ \A s \in Tokens : Live(s) /\ token[s].family = token[t].family => s = t
          /\ \A z \in Requests : Refreshing(z) /\ Present(request[z].token)
                /\ token[request[z].token].family = token[t].family => z = y
      BY <3>1 DEF SessionsInv, Alone
    <3>3. \A s \in Tokens : Live(s)' /\ token'[s].family = token[t].family => s = t
      BY <1>4, <1>7, <3>1, <3>2
    <3>4. \A z \in Requests : Refreshing(z)' /\ token'[request'[z].token] # None
             /\ token'[request'[z].token].family = token[t].family => z = y
      BY <1>9, <3>2 DEF Present
    <3> QED BY <3>1, <3>3, <3>4
  <2> QED BY <2>1 DEF Alone, Present
<1> QED BY <1>4, <1>8, <1>10 DEF SessionsInv

\* A refresh puts the new token in the place of the one it used.
LEMMA RefreshCommitKeeps ==
  ASSUME SessionsInv, NEW x \in Requests, RefreshCommit(x)
  PROVE  SessionsInv'
<1> DEFINE new == issued + 1
           t == request[x].token
           f == token[t].family
           row == [token[t] EXCEPT !.revoked = TRUE]
<1>1. Refreshing(x) /\ Present(t) /\ Issue(x, Revoked(t), f) /\ attempts' = attempts
  BY DEF RefreshCommit, Refreshing
<1>2. /\ t \in Tokens /\ t <= issued /\ token[t] \in TokenRow /\ f <= issued /\ f \in Tokens
      /\ new \in Tokens
  BY <1>1 DEF SessionsInv, Base, Numbers, SessionTypes, Present, Issue, TokenRow
<1>3. t # new /\ f <= new /\ f # new
  BY <1>2 DEF Tokens, SessionsInv, Base, SessionTypes
<1>4. /\ row \in TokenRow /\ row.user = token[t].user /\ row.family = f /\ row.revoked
  BY <1>2 DEF TokenRow
<1>5. Revoked(t) = [token EXCEPT ![t] = row]
  BY DEF Revoked
<1> HIDE DEF row
<1>6. /\ Revoked(t) \in [Tokens -> TokenRow \cup {None}]
      /\ \A s \in Tokens : Revoked(t)[s] = IF s = t THEN row ELSE token[s]
  BY <1>2, <1>4, <1>5 DEF SessionsInv, Base, SessionTypes
<1>7. \A s \in Tokens : Revoked(t)[s] # None =>
        /\ Present(s) /\ Revoked(t)[s].user = token[s].user /\ Revoked(t)[s].family = token[s].family
        /\ token[s].revoked => Revoked(t)[s].revoked
  BY <1>1, <1>4, <1>6 DEF Present
<1>8. attempts' \in [Owners -> Nat]
  BY <1>1 DEF SessionsInv, Base, SessionTypes
<1>9. /\ Base' /\ SessionsEnd' /\ Knowing'
      /\ token'[new].family = f
      /\ \A s \in Tokens \ {new} : token'[s] = Revoked(t)[s] /\ (Live(s)' => Live(s))
      /\ \A y \in Requests : Busy(y)' => Busy(y) /\ y # x /\ request'[y] = request[y]
  <2> HIDE DEF f, t
  <2> QED BY <1>1, <1>2, <1>3, <1>6, <1>7, <1>8, IssueKeeps
<1>10. shared' = shared
  BY <1>1 DEF Issue
<1>11. \A s \in Tokens : Live(s)' =>
         s = new \/ (s # t /\ Live(s) /\ token'[s] = token[s])
  BY <1>2, <1>3, <1>4, <1>6, <1>9 DEF Live, Present
<1>12. ASSUME f \notin shared
       PROVE  /\ \A s \in Tokens : Live(s) /\ token[s].family = f => s = t
              /\ \A y \in Requests : Refreshing(y) /\ Present(request[y].token)
                    /\ token[request[y].token].family = f => y = x
  BY <1>1, <1>12 DEF SessionsInv, Alone
<1>13. OneSessionPerLogin'
  <2>1. ASSUME NEW s \in Tokens, NEW r \in Tokens, Live(s)', Live(r)', s # r
        PROVE  token'[s].family # token'[r].family \/ token'[s].family \in shared
    <3>1. CASE s # new /\ r # new
      BY <1>11, <2>1, <3>1 DEF SessionsInv, OneSessionPerLogin
    <3>2. CASE s = new
      BY <1>9, <1>11, <1>12, <2>1, <3>2
    <3>3. CASE r = new
      BY <1>9, <1>11, <1>12, <2>1, <3>3
    <3> QED BY <3>1, <3>2, <3>3
  <2> QED BY <1>10, <2>1 DEF OneSessionPerLogin
<1>14. \A y \in Requests : Refreshing(y)' =>
         /\ y # x /\ Refreshing(y) /\ request'[y] = request[y]
         /\ request[y].token \in Tokens /\ request[y].token # new
         /\ token'[request[y].token] = Revoked(t)[request[y].token]
  BY <1>2, <1>9 DEF Refreshing, SessionsInv, Base, Numbers, SessionTypes, Tokens
<1>15. Alone'
  <2>1. ASSUME NEW y \in Requests, Refreshing(y)', token'[request'[y].token] # None,
               token'[request'[y].token].family \notin shared'
        PROVE  /\ \A s \in Tokens : Live(s)' /\ token'[s].family = token'[request'[y].token].family
                                     => s = request'[y].token
               /\ \A z \in Requests : Refreshing(z)' /\ token'[request'[z].token] # None
                     /\ token'[request'[z].token].family = token'[request'[y].token].family
                     => z = y
    <3> DEFINE r == request[y].token
               g == token[r].family
    <3>1. /\ Refreshing(y) /\ y # x /\ request'[y].token = r /\ r \in Tokens /\ Present(r)
          /\ token'[r].family = g /\ g \notin shared
      BY <1>7, <1>10, <1>14, <2>1
    <3>2. /\ \A s \in Tokens : Live(s) /\ token[s].family = g => s = r
          /\ \A z \in Requests : Refreshing(z) /\ Present(request[z].token)
                /\ token[request[z].token].family = g => z = y
      BY <3>1 DEF SessionsInv, Alone
    <3>3. g # f
      BY <1>1, <3>1, <3>2
    <3>4. \A s \in Tokens : Live(s)' /\ token'[s].family = g => s = r
      BY <1>9, <1>11, <3>2, <3>3
    <3>5. \A z \in Requests : Refreshing(z)' /\ token'[request'[z].token] # None
             /\ token'[request'[z].token].family = g => z = y
      BY <1>7, <1>14, <3>2
    <3> QED BY <3>1, <3>4, <3>5
  <2> QED BY <2>1 DEF Alone, Present
<1> QED BY <1>9, <1>13, <1>15 DEF SessionsInv

-----------------------------------------------------------------------------
(***************************************************************************)
(* The limiter: the counter and the attempts still to be counted.          *)
(***************************************************************************)
Trying(u) == {x \in Requests : Busy(x) /\ request[x].op = "login" /\ request[x].user = u}

LEMMA TryingIsFinite ==
  \A u \in Owners : /\ IsFiniteSet(Trying(u)) /\ Cardinality(Trying(u)) \in Nat
                    /\ Cardinality(Trying(u)) <= Cardinality(Requests)
                    /\ Cardinality(Requests) \in Nat
<1>1. \A u \in Owners : Trying(u) \subseteq Requests
  BY DEF Trying
<1> QED BY <1>1, RequestsAssumption, FS_Subset, FS_CardinalityType

\* A step that counts nothing and begins no login.
LEMMA FewerTriesKeep ==
  ASSUME SessionTypes, SessionTypes', AttemptsBounded,
         \A u \in Owners : attempts'[u] <= attempts[u] /\ Trying(u)' \subseteq Trying(u)
  PROVE  AttemptsBounded'
<1>1. ASSUME NEW u \in Owners
      PROVE  attempts'[u] + Cardinality(Trying(u)') < MaxAttempts + Cardinality(Requests)
  <2>1. attempts[u] + Cardinality(Trying(u)) < MaxAttempts + Cardinality(Requests)
    BY DEF AttemptsBounded, Trying
  <2>2. Cardinality(Trying(u)') <= Cardinality(Trying(u)) /\ Cardinality(Trying(u)') \in Nat
    <3>1. Trying(u)' \subseteq Trying(u) /\ IsFiniteSet(Trying(u))
      BY TryingIsFinite
    <3> QED BY <3>1, FS_Subset, FS_CardinalityType
  <2>3. attempts[u] \in Nat /\ attempts'[u] \in Nat /\ attempts'[u] <= attempts[u]
    BY DEF SessionTypes
  <2> QED BY <2>1, <2>2, <2>3, TryingIsFinite, SessionBoundsAssumption
<1> QED BY <1>1 DEF AttemptsBounded, Trying

LEMMA ShrinkingTries ==
  ASSUME RequestsShrink  PROVE \A u \in Owners : Trying(u)' \subseteq Trying(u)
BY DEF RequestsShrink, Trying, Busy

\* The check allows one more attempt, and there are no more requests than there are.
LEMMA LoginBeginLimited ==
  ASSUME Base, SessionTypes', AttemptsBounded, NEW x \in Requests, NEW v \in Owners,
         LoginBegin(x, v)
  PROVE  AttemptsBounded'
<1> DEFINE w == Work("login", v, None, Active(v))
<1>1. request' = [request EXCEPT ![x] = w] /\ attempts' = attempts /\ attempts[v] < MaxAttempts
  BY SessionBoundsAssumption DEF LoginBegin, Blocked, Base, SessionTypes
<1>2. w.user = v
  BY DEF Work
<1> HIDE DEF w
<1>3. ASSUME NEW u \in Owners
      PROVE  attempts'[u] + Cardinality(Trying(u)') < MaxAttempts + Cardinality(Requests)
  <2>1. /\ Cardinality(Trying(u)') \in Nat /\ Cardinality(Trying(u)') <= Cardinality(Requests)
        /\ Cardinality(Requests) \in Nat
    <3>1. Trying(u)' \subseteq Requests
      BY DEF Trying
    <3> QED BY <3>1, RequestsAssumption, FS_Subset, FS_CardinalityType
  <2>2. attempts'[u] \in Nat
    BY DEF SessionTypes
  <2>3. CASE u = v
    BY <1>1, <2>1, <2>2, <2>3, SessionBoundsAssumption
  <2>4. CASE u # v
    <3>1. Trying(u)' \subseteq Trying(u)
      BY <1>1, <1>2, <2>4 DEF Trying, Busy, Base, SessionTypes
    <3>2. Cardinality(Trying(u)') <= Cardinality(Trying(u)) /\ Cardinality(Trying(u)) \in Nat
      BY <3>1, TryingIsFinite, FS_Subset
    <3>3. attempts[u] + Cardinality(Trying(u)) < MaxAttempts + Cardinality(Requests)
      BY DEF AttemptsBounded, Trying
    <3> QED BY <1>1, <2>1, <2>2, <3>2, <3>3, SessionBoundsAssumption
  <2> QED BY <2>3, <2>4
<1> QED BY <1>3 DEF AttemptsBounded, Trying

\* What is counted is no longer to be counted.
LEMMA LoginFailsLimited ==
  ASSUME Base, SessionTypes', AttemptsBounded, NEW x \in Requests, LoginFails(x)
  PROVE  AttemptsBounded'
<1> DEFINE v == request[x].user
<1>1. /\ request' = [request EXCEPT ![x] = None]
      /\ attempts' = [attempts EXCEPT ![v] = attempts[v] + 1]
      /\ v \in Owners /\ x \in Trying(v)
  BY DEF LoginFails, Base, Numbers, LoggingIn, Trying
<1>2. ASSUME NEW u \in Owners
      PROVE  attempts'[u] + Cardinality(Trying(u)') < MaxAttempts + Cardinality(Requests)
  <2>1. attempts[u] + Cardinality(Trying(u)) < MaxAttempts + Cardinality(Requests)
    BY DEF AttemptsBounded, Trying
  <2>2. /\ IsFiniteSet(Trying(u)) /\ Cardinality(Trying(u)) \in Nat
        /\ Cardinality(Requests) \in Nat /\ attempts[u] \in Nat
    BY TryingIsFinite DEF Base, SessionTypes
  <2>3. CASE u = v
    <3>1. Trying(u)' = Trying(u) \ {x}
      BY <1>1 DEF Trying, Busy, Base, SessionTypes
    <3>2. Cardinality(Trying(u)') = Cardinality(Trying(u)) - 1
      BY <1>1, <2>2, <2>3, <3>1, FS_RemoveElement
    <3>3. attempts'[u] = attempts[u] + 1
      BY <1>1, <2>3 DEF Base, SessionTypes
    <3> QED BY <2>1, <2>2, <3>2, <3>3, SessionBoundsAssumption
  <2>4. CASE u # v
    <3>1. Trying(u)' \subseteq Trying(u) /\ attempts'[u] = attempts[u]
      BY <1>1, <2>4 DEF Trying, Busy, Base, SessionTypes
    <3>2. Cardinality(Trying(u)') <= Cardinality(Trying(u)) /\ Cardinality(Trying(u)') \in Nat
      BY <2>2, <3>1, FS_Subset, FS_CardinalityType
    <3> QED BY <2>1, <2>2, <3>1, <3>2, SessionBoundsAssumption
  <2> QED BY <2>3, <2>4
<1> QED BY <1>2 DEF AttemptsBounded, Trying

-----------------------------------------------------------------------------
(***************************************************************************)
(* The invariant, for every step.                                          *)
(***************************************************************************)
SessionsIInv == SessionsInv /\ AttemptsBounded

LEMMA SessionsInitInv == SessionsInit => SessionsIInv
<1> SUFFICES ASSUME SessionsInit  PROVE SessionsIInv
  OBVIOUS
<1>1. /\ deployment \in Deployments /\ token = [t \in Tokens |-> None]
      /\ issued = 0 /\ expired = 0 /\ request = [x \in Requests |-> None]
      /\ attempts = [u \in Owners |-> 0] /\ late = {} /\ shared = {}
      /\ tx = [u \in Users |-> None]
  BY DEF SessionsInit, Init
<1>2. TypeOK
  BY FirstAdminAssumption DEF SessionsInit, Init, TypeOK, Account, UserRole
<1>3. SessionTypes
  BY <1>1 DEF SessionTypes
<1>4. \A t \in Tokens : ~Present(t)
  BY <1>1 DEF Present
<1>5. \A x \in Requests : ~Busy(x)
  BY <1>1 DEF Busy
<1>6. Base
  BY <1>1, <1>2, <1>3, <1>4, <1>5 DEF Base, TargetsThere, OwnersThere, Numbers, Refreshing, LoggingIn
<1>7. SessionsInv
  BY <1>4, <1>5, <1>6 DEF SessionsInv, SessionsEnd, Knowing, OneSessionPerLogin, Alone, Live,
                          Refreshing, LoggingIn
<1>8. AttemptsBounded
  <2>1. ASSUME NEW u \in Owners
        PROVE  attempts[u] + Cardinality(Trying(u)) < MaxAttempts + Cardinality(Requests)
    <3>1. Trying(u) = {} /\ attempts[u] = 0
      BY <1>1, <1>5 DEF Trying
    <3>2. Cardinality(Trying(u)) = 0
      BY <3>1, FS_EmptySet
    <3> QED BY <3>1, <3>2, TryingIsFinite, SessionBoundsAssumption
  <2> QED BY <2>1 DEF AttemptsBounded, Trying
<1> QED BY <1>7, <1>8 DEF SessionsIInv

LEMMA SessionsStep ==
  ASSUME SessionsIInv, SessionsNext \/ UNCHANGED allVars
  PROVE  SessionsIInv'
<1>0. SessionsInv /\ AttemptsBounded /\ Base /\ SessionTypes
  BY DEF SessionsIInv, SessionsInv, Base
<1>1. ASSUME Quiet, \A u \in Owners : attempts'[u] <= attempts[u]
      PROVE  SessionsIInv'
  <2>1. SessionTypes' /\ RequestsShrink
    BY <1>1 DEF Quiet
  <2> QED BY <1>0, <1>1, <2>1, QuietKeeps, ShrinkingTries, FewerTriesKeep DEF SessionsIInv
<1>2. ASSUME attempts' = attempts
      PROVE  \A u \in Owners : attempts'[u] <= attempts[u]
  BY <1>0, <1>2 DEF SessionTypes
<1>3. CASE AdminStep
  BY <1>0, <1>1, <1>2, <1>3, AdminIsQuiet DEF AdminStep, sessionVars
<1>4. ASSUME NEW actor \in Users, AdminCommit(actor)  PROVE SessionsIInv'
  BY <1>0, <1>1, <1>2, <1>4, AdminCommitIsQuiet DEF AdminCommit, EndSessions, sessionVars
<1>5. ASSUME NEW v \in Users, EndSessions(v), UNCHANGED vars  PROVE SessionsIInv'
  BY <1>0, <1>1, <1>2, <1>5, EndingIsQuiet DEF EndSessions
<1>6. ASSUME NEW u \in Owners, LogoutAll(u) \/ ChangePassword(u)  PROVE SessionsIInv'
  BY <1>5, <1>6, OwnersAssumption DEF LogoutAll, ChangePassword
<1>7. ASSUME NEW t \in Tokens, RefreshReused(t)  PROVE SessionsIInv'
  <2>1. token[t].user \in Users
    BY <1>0, <1>7 DEF RefreshReused, Present, SessionTypes, TokenRow
  <2> QED BY <1>5, <1>7, <2>1 DEF RefreshReused
<1>8. ASSUME NEW u \in Owners, WindowEnds(u)  PROVE SessionsIInv'
  <2>1. \A v \in Owners : attempts'[v] <= attempts[v]
    BY <1>0, <1>8 DEF WindowEnds, SessionTypes
  <2> QED BY <1>0, <1>1, <1>8, <2>1, WindowIsQuiet
<1>9. ASSUME NEW x \in Requests, NEW u \in Owners, LoginBegin(x, u)  PROVE SessionsIInv'
  <2>1. SessionsInv'
    BY <1>0, <1>9, LoginBeginKeeps
  <2> QED BY <1>0, <1>9, <2>1, LoginBeginLimited DEF SessionsIInv, SessionsInv, Base
<1>10. ASSUME NEW x \in Requests, NEW t \in Tokens, RefreshBegin(x, t)  PROVE SessionsIInv'
  <2>1. SessionsInv'
    BY <1>0, <1>10, RefreshBeginKeeps
  <2>2. request' = [request EXCEPT ![x] = Work("refresh", token[t].user, t, TRUE)]
        /\ attempts' = attempts
    BY <1>10 DEF RefreshBegin
  <2>3. \A u \in Owners : Trying(u)' \subseteq Trying(u)
    BY <1>0, <2>2 DEF Trying, Busy, Work, SessionTypes
  <2> QED BY <1>0, <1>2, <2>1, <2>2, <2>3, FewerTriesKeep DEF SessionsIInv, SessionsInv, Base
<1>11. ASSUME NEW x \in Requests, LoginFails(x)  PROVE SessionsIInv'
  <2>1. SessionsInv'
    BY <1>0, <1>11, GivingUpIsQuiet, QuietKeeps
  <2> QED BY <1>0, <1>11, <2>1, LoginFailsLimited DEF SessionsIInv, SessionsInv, Base
<1>12. ASSUME NEW x \in Requests, RequestFails(x)  PROVE SessionsIInv'
  BY <1>0, <1>1, <1>2, <1>12, GivingUpIsQuiet DEF RequestFails
<1>13. ASSUME NEW x \in Requests, LoginCommit(x)  PROVE SessionsIInv'
  <2>1. SessionsInv'
    BY <1>0, <1>13, LoginCommitKeeps
  <2>2. /\ request' = [request EXCEPT ![x] = None]
        /\ attempts' = [attempts EXCEPT ![request[x].user] = 0]
    BY <1>13 DEF LoginCommit, Issue
  <2>3. \A u \in Owners : attempts'[u] <= attempts[u] /\ Trying(u)' \subseteq Trying(u)
    BY <1>0, <2>2 DEF Trying, Busy, SessionTypes
  <2> QED BY <1>0, <2>1, <2>3, FewerTriesKeep DEF SessionsIInv, SessionsInv, Base
<1>14. ASSUME NEW x \in Requests, RefreshCommit(x)  PROVE SessionsIInv'
  <2>1. SessionsInv'
    BY <1>0, <1>14, RefreshCommitKeeps
  <2>2. request' = [request EXCEPT ![x] = None] /\ attempts' = attempts
    BY <1>14 DEF RefreshCommit, Issue
  <2>3. \A u \in Owners : Trying(u)' \subseteq Trying(u)
    BY <1>0, <2>2 DEF Trying, Busy, SessionTypes
  <2> QED BY <1>0, <1>2, <2>1, <2>2, <2>3, FewerTriesKeep DEF SessionsIInv, SessionsInv, Base
<1>15. CASE (\E t \in Tokens : Logout(t)) \/ Expire \/ CleanupExpiredTokens
  BY <1>0, <1>1, <1>2, <1>15, TokenLossIsQuiet DEF Logout, Expire, CleanupExpiredTokens
<1>16. CASE UNCHANGED allVars
  <2>1. /\ account' = account /\ tx' = tx /\ skewed' = skewed /\ deployment' = deployment /\ token' = token
        /\ issued' = issued /\ expired' = expired /\ request' = request
        /\ attempts' = attempts /\ late' = late /\ shared' = shared
    BY <1>16 DEF allVars, vars, sessionVars
  <2>2. SessionTypes' /\ expired <= expired'
    BY <1>0, <2>1 DEF SessionTypes
  <2>3. Quiet
    BY <1>0, <2>1, <2>2, AccountsUnchanged, SessionsUnchanged DEF Quiet
  <2> QED BY <1>1, <1>2, <2>1, <2>3
<1> QED BY <1>3, <1>4, <1>6, <1>7, <1>8, <1>9, <1>10, <1>11, <1>12, <1>13, <1>14, <1>15, <1>16
        DEF SessionsNext

\* What the sessions need to stay sound: the tables and requests are well-formed, and a
\* request that is going to issue a token knows what it may not undo.
THEOREM SessionsInvariant == SessionsSpec => []SessionsIInv
<1>1. SessionsIInv /\ [SessionsNext]_<<vars, sessionVars>> => SessionsIInv'
  BY SessionsStep DEF allVars
<1> QED BY <1>1, SessionsInitInv, PTL DEF SessionsSpec

\* "Revoke EVERY session" (set_active): however many requests, admins and tokens, no token
\* of a locked account is live, but for those of requests that had begun before an end.
THEOREM SessionsAreEnded == SessionsSpec => []SessionsEnd
<1>1. SessionsIInv => SessionsEnd
  BY DEF SessionsIInv, SessionsInv
<1> QED BY <1>1, SessionsInvariant, PTL

\* "Each refresh token works exactly ONCE" (refresh): one login keeps one session, unless
\* two requests used one of its tokens at the same time.
THEOREM OneSessionRemains == SessionsSpec => []OneSessionPerLogin
<1>1. SessionsIInv => OneSessionPerLogin
  BY DEF SessionsIInv, SessionsInv
<1> QED BY <1>1, SessionsInvariant, PTL

\* US-02: the limiter is exceeded by at most the requests that passed its check together.
THEOREM AttemptsAreBounded == SessionsSpec => []AttemptsBounded
<1>1. SessionsIInv => AttemptsBounded
  BY DEF SessionsIInv
<1> QED BY <1>1, SessionsInvariant, PTL

\* The sessions add nothing to what the administration of accounts may do: whatever is
\* proved of UserAdmin holds beside the sessions.
THEOREM SessionsKeepAdministration == SessionsSpec => Spec
<1>1. SessionsInit => Init
  BY DEF SessionsInit
<1>2. ASSUME SessionsIInv, [SessionsNext]_<<vars, sessionVars>>  PROVE [Next]_vars
  <2>0. deployment.users \subseteq Users /\ deployment.roles \subseteq Roles
    BY <1>2, DeploymentsAssumption DEF SessionsIInv, SessionsInv, Base
  <2>1. CASE AdminStep
    BY <2>0, <2>1 DEF AdminStep, Next
  <2>2. ASSUME NEW actor \in Users, AdminCommit(actor)  PROVE Next
    BY <2>2 DEF AdminCommit, Next
  <2>3. ASSUME NEW u \in Owners, LogoutAll(u) \/ ChangePassword(u) \/ WindowEnds(u)
        PROVE  UNCHANGED vars
    BY <2>3 DEF LogoutAll, ChangePassword, WindowEnds, vars
  <2>4. ASSUME NEW x \in Requests, NEW u \in Owners, LoginBegin(x, u)  PROVE UNCHANGED vars
    BY <2>4 DEF LoginBegin, vars
  <2>5. ASSUME NEW x \in Requests, NEW t \in Tokens, RefreshBegin(x, t)  PROVE UNCHANGED vars
    BY <2>5 DEF RefreshBegin, vars
  <2>6. ASSUME NEW x \in Requests,
               LoginFails(x) \/ LoginCommit(x) \/ RefreshCommit(x) \/ RequestFails(x)
        PROVE  UNCHANGED vars
    BY <2>6 DEF LoginFails, LoginCommit, RefreshCommit, RequestFails, Issue, vars
  <2>7. ASSUME NEW t \in Tokens, RefreshReused(t) \/ Logout(t)  PROVE UNCHANGED vars
    BY <2>7 DEF RefreshReused, Logout, vars
  <2>8. CASE Expire \/ CleanupExpiredTokens
    BY <2>8 DEF Expire, CleanupExpiredTokens, vars
  <2>9. CASE UNCHANGED <<vars, sessionVars>>
    BY <2>9
  <2>10. CASE SessionsNext
    BY <2>1, <2>2, <2>3, <2>4, <2>5, <2>6, <2>7, <2>8, <2>10 DEF SessionsNext
  <2> QED BY <1>2, <2>9, <2>10
<1> QED BY <1>1, <1>2, SessionsInvariant, PTL DEF SessionsSpec, Spec

\* What _assert_admin_remains gives, beside people who sign in and out: the last active
\* admin is lost only where two requests take one out, each past its count.
THEOREM AdminsBesideSessions == SessionsSpec => []AdminLostOnlyBySkew
BY AdminsAreLostOnlyBySkew, SessionsKeepAdministration, PTL
=============================================================================
