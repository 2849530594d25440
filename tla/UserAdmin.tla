----------------------------- MODULE UserAdmin ------------------------------
(***************************************************************************)
(* The administration of accounts, users/service.py: an admin creates      *)
(* accounts, changes roles, locks and unlocks.  Each request is a READ     *)
(* COMMITTED transaction of three steps: it loads the target, it counts    *)
(* the other active admins where _assert_admin_remains asks for it, and it *)
(* commits the columns it changed.  The users table has no version column. *)
(***************************************************************************)
EXTENDS Integers, FiniteSets

CONSTANTS
  Users,             \* the accounts there may be
  FirstAdmin,        \* the seeded admin account
  Roles,             \* the roles that admins give, all of UserRole in the code
  MaxInFlight,       \* bound on concurrent requests
  None

ASSUME UsersAssumption == IsFiniteSet(Users)
ASSUME FirstAdminAssumption == FirstAdmin \in Users
ASSUME InFlightAssumption == MaxInFlight \in Nat

UserRole == {"EMPLOYEE", "IT_AGENT", "ADMIN"}
ASSUME RolesAssumption == Roles \subseteq UserRole

Account  == [role : UserRole, active : BOOLEAN]

ASSUME NoneAssumption == None \notin Account

VARIABLES
  account,    \* the users table; None where no account exists
  tx,         \* per acting admin: the open request, None if there is none
  skewed      \* history: a request has taken an admin out while another was set to

vars == <<account, tx, skewed>>

Exists(u) == account[u] # None
IsActiveAdmin(a) == a # None /\ a.role = "ADMIN" /\ a.active

ActiveAdmins == {u \in Users : IsActiveAdmin(account[u])}

\* require_admin: get_current_user reads the actor's row on every request.
MayAdminister(actor) == actor \in ActiveAdmins

\* Mutant of TakesAdminOut: taking the role away is not counted.
TakesAdminOutByLock(loaded, change) == IsActiveAdmin(loaded) /\ ~change.active

\* Where _assert_admin_remains looks at the other admins: the change takes an active
\* admin, as it was loaded, out of the admins.
TakesAdminOut(loaded, change) ==
  IsActiveAdmin(loaded) /\ (~change.active \/ change.role # "ADMIN")

-----------------------------------------------------------------------------
\* A request of the actor begins: the target is loaded.
Begin(actor, target, change) ==
  /\ tx[actor] = None
  /\ Cardinality({u \in Users : tx[u] # None}) < MaxInFlight
  /\ tx' = [tx EXCEPT ![actor] = [target |-> target, loaded |-> account[target],
                                  change |-> change, checked |-> FALSE]]
  /\ UNCHANGED <<account, skewed>>

\* create_user: an INSERT.
CreateUser(actor, target, role) ==
  /\ MayAdminister(actor)
  /\ ~Exists(target)
  /\ account' = [account EXCEPT ![target] = [role |-> role, active |-> TRUE]]
  /\ UNCHANGED <<tx, skewed>>

\* AuthService.register: anybody, always as an employee.
Register(target) ==
  /\ ~Exists(target)
  /\ account' = [account EXCEPT ![target] = [role |-> "EMPLOYEE", active |-> TRUE]]
  /\ UNCHANGED <<tx, skewed>>

\* admin_update with a role that is not the present one.
AdminUpdate(actor, target, role) ==
  /\ MayAdminister(actor)
  /\ Exists(target)
  /\ role # account[target].role
  /\ Begin(actor, target, [account[target] EXCEPT !.role = role])

\* set_active: nobody locks their own account.
SetActive(actor, target, active) ==
  /\ MayAdminister(actor)
  /\ Exists(target)
  /\ active \/ target # actor
  /\ active # account[target].active
  /\ Begin(actor, target, [account[target] EXCEPT !.active = active])

\* _assert_admin_remains: count_active_admins(exclude_id = target), as committed now.
AssertAdminRemains(loaded, target, change) ==
  TakesAdminOut(loaded, change) => ActiveAdmins \ {target} # {}

Check(actor) ==
  /\ tx[actor] # None
  /\ ~tx[actor].checked
  /\ AssertAdminRemains(tx[actor].loaded, tx[actor].target, tx[actor].change)
  /\ tx' = [tx EXCEPT ![actor].checked = TRUE]
  /\ UNCHANGED <<account, skewed>>

\* The UPDATE names the columns that differ from what was loaded, and only those.
Written(row, loaded, change) ==
  [role   |-> IF change.role # loaded.role THEN change.role ELSE row.role,
   active |-> IF change.active # loaded.active THEN change.active ELSE row.active]

\* For the history only.  The open request x writes a role other than ADMIN, or locks ...
TakesAway(x) ==
  \/ x.change.role # x.loaded.role /\ x.change.role # "ADMIN"
  \/ x.change.active # x.loaded.active /\ ~x.change.active

\* ... and nothing looks at the admins again before it does.
Decided(u) ==
  /\ tx[u] # None
  /\ TakesAway(tx[u])
  /\ tx[u].checked \/ ~TakesAdminOut(tx[u].loaded, tx[u].change)

Commit(actor) ==
  /\ tx[actor] # None
  /\ tx[actor].checked
  /\ LET x   == tx[actor]
         row == Written(account[x.target], x.loaded, x.change)
     IN  /\ account' = [account EXCEPT ![x.target] = row]
         /\ skewed' = \/ skewed
                      \/ /\ IsActiveAdmin(account[x.target]) /\ ~IsActiveAdmin(row)
                         /\ \E u \in Users \ {actor} : Decided(u)
  /\ tx' = [tx EXCEPT ![actor] = None]

\* 422 from the check, or the process dies.
Rollback(actor) ==
  /\ tx[actor] # None
  /\ tx' = [tx EXCEPT ![actor] = None]
  /\ UNCHANGED <<account, skewed>>

-----------------------------------------------------------------------------
Init ==
  /\ account = [u \in Users |-> IF u = FirstAdmin
                                THEN [role |-> "ADMIN", active |-> TRUE] ELSE None]
  /\ tx = [u \in Users |-> None]
  /\ skewed = FALSE

Next ==
  \/ \E actor, target \in Users, role \in Roles :
       CreateUser(actor, target, role) \/ AdminUpdate(actor, target, role)
  \/ \E actor, target \in Users, active \in BOOLEAN : SetActive(actor, target, active)
  \/ \E actor \in Users : Register(actor) \/ Check(actor) \/ Commit(actor) \/ Rollback(actor)

Spec == Init /\ [][Next]_vars

-----------------------------------------------------------------------------
(***************************************************************************)
(* Properties.                                                             *)
(***************************************************************************)
Request == [target : Users, loaded : Account, change : Account, checked : BOOLEAN]

TypeOK ==
  /\ account \in [Users -> Account \cup {None}]
  /\ tx \in [Users -> Request \cup {None}]
  /\ skewed \in BOOLEAN

\* "The system must always have at least one active admin left" (_assert_admin_remains).
AdminRemains == ActiveAdmins # {}

\* What _assert_admin_remains does give to any number of requests at once: the last active
\* admin is never lost to one request alone, whatever was promoted, unlocked or created
\* since it loaded its target.  There have been two that took an admin out, the second past
\* its count (or not counting, its target having been no admin) when the first committed.
AdminLostOnlyBySkew == ActiveAdmins # {} \/ skewed
=============================================================================
