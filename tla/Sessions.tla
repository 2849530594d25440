------------------------------ MODULE Sessions ------------------------------
(***************************************************************************)
(* Accounts and their sessions: the /auth requests (US-02 to US-05) beside *)
(* the administration of the same accounts.  A session is a chain of       *)
(* refresh tokens, each replaced by the next when it is used; logout_all,  *)
(* change_password, a lock and the second use of a token end all sessions  *)
(* of an account.                                                          *)
(*                                                                         *)
(* login and refresh read first, work on (bcrypt, two INSERTs) and commit  *)
(* later; the operations that end sessions are one UPDATE and its commit.  *)
(* Which token a client sends is left open: two tabs share a cookie, and a *)
(* lost response leaves the old one with the client.                       *)
(***************************************************************************)
EXTENDS UserAdmin

CONSTANTS
  Owners,          \* the accounts whose sessions are followed
  Requests,        \* the login and refresh requests that may be at work at once
  Deployments,     \* the choices of accounts, of roles given and of requests at work
  MaxTokens,       \* bound on the tokens ever issued
  MaxExpired,      \* bound on the tokens that expire
  MaxAttempts      \* LOGIN_MAX_ATTEMPTS

ASSUME OwnersAssumption == Owners \subseteq Users
ASSUME DeploymentsAssumption ==
  Deployments \subseteq [users : SUBSET Users, roles : SUBSET Roles, requests : SUBSET Requests]
ASSUME RequestsAssumption == IsFiniteSet(Requests)
ASSUME SessionBoundsAssumption == MaxTokens \in Nat /\ MaxExpired \in Nat /\ MaxAttempts \in Nat \ {0}

Tokens == 1..MaxTokens

VARIABLES
  deployment,  \* one of Deployments, chosen once
  token,       \* the refresh_tokens table; None before the INSERT and after the DELETE
  issued,      \* how many tokens have been issued
  expired,     \* how many of them, the oldest, are past their expires_at
  request,     \* what each request is doing, None if nothing
  attempts,    \* per account: the failed logins in the limiter's window
  late,        \* history: tokens of requests that had begun before such an end
  shared       \* history: families of which two requests have used one token at once

sessionVars == <<deployment, token, issued, expired, request, attempts, late, shared>>

Present(t) == token[t] # None
Active(u)  == Exists(u) /\ account[u].active

\* A row of refresh_tokens.  Its family, the token of the login it descends from, stands
\* for the chain that replaced_by_id keeps and nothing reads.
TokenRow == [user : Users, family : Tokens, revoked : BOOLEAN]

\* RefreshToken.is_valid.
Live(t) == Present(t) /\ ~token[t].revoked /\ t > expired

TokensOf(u) == {t \in Tokens : Present(t) /\ token[t].user = u}

-----------------------------------------------------------------------------
(***************************************************************************)
(* The end of all sessions of an account.                                  *)
(***************************************************************************)
\* Mutant of RevokeAllForUser: only the sessions that were never refreshed are ended.
RevokeFirstForUser(u) ==
  [t \in Tokens |-> IF t \in TokensOf(u) /\ token[t].family = t
                    THEN [token[t] EXCEPT !.revoked = TRUE] ELSE token[t]]

\* revoke_all_for_user: one UPDATE of the rows that are committed by then.
RevokeAllForUser(u) ==
  [t \in Tokens |-> IF t \in TokensOf(u)
                    THEN [token[t] EXCEPT !.revoked = TRUE] ELSE token[t]]

EndSessions(u) ==
  /\ token' = RevokeAllForUser(u)
  /\ request' = [x \in Requests |-> IF request[x] # None /\ request[x].user = u
                                    THEN [request[x] EXCEPT !.late = TRUE] ELSE request[x]]
  /\ UNCHANGED <<deployment, issued, expired, attempts, late, shared>>

\* POST /auth/logout-all, which get_current_user lets active accounts do ...
LogoutAll(u) == Active(u) /\ EndSessions(u) /\ UNCHANGED vars

\* ... and change_password with the right password.
ChangePassword(u) == Active(u) /\ EndSessions(u) /\ UNCHANGED vars

\* The token of a refresh is there and was replaced or revoked before.
RefreshReused(t) ==
  /\ Present(t)
  /\ token[t].revoked
  /\ EndSessions(token[t].user)
  /\ UNCHANGED vars

\* A request of an admin commits; locking an account ends its sessions with it.
AdminCommit(actor) ==
  /\ Commit(actor)
  /\ LET x == tx[actor]
     IN  IF x.loaded.active /\ ~x.change.active
         THEN EndSessions(x.target)
         ELSE UNCHANGED sessionVars

-----------------------------------------------------------------------------
(***************************************************************************)
(* Signing in, with the limiter of core/rate_limit.py.                     *)
(***************************************************************************)
\* raise_if_blocked.
Blocked(u) == attempts[u] >= MaxAttempts

Idle(x) == x \in deployment.requests /\ request[x] = None
Busy(x) == request[x] # None

Work(op, u, t, active) ==
  [op |-> op, user |-> u, token |-> t, active |-> active, late |-> FALSE]

\* Mutant of LoginBegin: the limiter is not asked.
LoginBeginUnlimited(x, u) ==
  /\ Idle(x)
  /\ request' = [request EXCEPT ![x] = Work("login", u, None, Active(u))]
  /\ UNCHANGED <<deployment, token, issued, expired, attempts, late, shared, account, tx, skewed>>

\* Up to verify_password, which takes its time: the account is loaded.
LoginBegin(x, u) ==
  /\ Idle(x)
  /\ ~Blocked(u)
  /\ request' = [request EXCEPT ![x] = Work("login", u, None, Active(u))]
  /\ UNCHANGED <<deployment, token, issued, expired, attempts, late, shared, account, tx, skewed>>

\* An unknown address, or a wrong password: record_failure.
LoginFails(x) ==
  /\ Busy(x)
  /\ request[x].op = "login"
  /\ attempts' = [attempts EXCEPT ![request[x].user] = @ + 1]
  /\ request' = [request EXCEPT ![x] = None]
  /\ UNCHANGED <<deployment, token, issued, expired, late, shared, account, tx, skewed>>

\* _issue_tokens, and the commit that makes the row visible to the others.
Issue(x, table, family) ==
  LET new == issued + 1
  IN  /\ new \in Tokens
      /\ token' = [table EXCEPT ![new] = [user |-> request[x].user, family |-> family,
                                          revoked |-> FALSE]]
      /\ issued' = new
      /\ late' = IF request[x].late THEN late \cup {new} ELSE late
      /\ request' = [request EXCEPT ![x] = None]
      /\ UNCHANGED <<deployment, expired, shared, account, tx, skewed>>

\* The right password of an account that was active when it was loaded.
LoginCommit(x) ==
  /\ Busy(x)
  /\ request[x].op = "login" /\ request[x].active
  /\ attempts' = [attempts EXCEPT ![request[x].user] = 0]
  /\ Issue(x, token, issued + 1)

\* The window of the limiter ends: the counter's key expires.
WindowEnds(u) ==
  /\ attempts[u] > 0
  /\ attempts' = [attempts EXCEPT ![u] = 0]
  /\ UNCHANGED <<deployment, token, issued, expired, request, late, shared, account, tx, skewed>>

-----------------------------------------------------------------------------
(***************************************************************************)
(* Refreshing and signing out.                                             *)
(***************************************************************************)
\* refresh up to its writes: the token is there, neither revoked nor expired, and its
\* account is active.  All else is answered with 401.
RefreshBegin(x, t) ==
  /\ Idle(x)
  /\ Live(t)
  /\ Active(token[t].user)
  /\ request' = [request EXCEPT ![x] = Work("refresh", token[t].user, t, TRUE)]
  /\ shared' = IF \E y \in Requests : Busy(y) /\ request[y].token = t
               THEN shared \cup {token[t].family} ELSE shared
  /\ UNCHANGED <<deployment, token, issued, expired, attempts, late, account, tx, skewed>>

\* Mutant of Revoked: the used token stays valid.
RevokedNot(t) == token

\* RefreshTokenRepository.revoke: the UPDATE does not look at revoked_at again.
Revoked(t) == [token EXCEPT ![t].revoked = TRUE]

RefreshCommit(x) ==
  /\ Busy(x)
  /\ request[x].op = "refresh"
  /\ Present(request[x].token)
  /\ LET t == request[x].token
     IN  Issue(x, Revoked(t), token[t].family)
  /\ UNCHANGED attempts

\* The process dies, the row to revoke has been deleted, or the account that signs in is
\* locked: nothing is changed.
RequestFails(x) ==
  /\ Busy(x)
  /\ request' = [request EXCEPT ![x] = None]
  /\ UNCHANGED <<deployment, token, issued, expired, attempts, late, shared, account, tx, skewed>>

\* logout: this session, if it still is one.
Logout(t) ==
  /\ Present(t)
  /\ ~token[t].revoked
  /\ token' = Revoked(t)
  /\ UNCHANGED <<deployment, issued, expired, request, attempts, late, shared, account, tx, skewed>>

\* REFRESH_TOKEN_EXPIRE_DAYS after its issue.
Expire ==
  /\ expired < issued /\ expired < MaxExpired
  /\ expired' = expired + 1
  /\ UNCHANGED <<deployment, token, issued, request, attempts, late, shared, account, tx, skewed>>

\* cleanup_expired_tokens, daily: delete_expired.
CleanupExpiredTokens ==
  /\ token' = [t \in Tokens |-> IF t <= expired THEN None ELSE token[t]]
  /\ UNCHANGED <<deployment, issued, expired, request, attempts, late, shared, account, tx, skewed>>

-----------------------------------------------------------------------------
SessionsInit ==
  /\ Init
  /\ deployment \in Deployments
  /\ token = [t \in Tokens |-> None]
  /\ issued = 0 /\ expired = 0
  /\ request = [x \in Requests |-> None]
  /\ attempts = [u \in Owners |-> 0]
  /\ late = {} /\ shared = {}

\* The requests of UserAdmin that leave the sessions alone.
AdminStep ==
  /\ \E u, target \in deployment.users :
       \/ \E role \in deployment.roles :
            CreateUser(u, target, role) \/ AdminUpdate(u, target, role)
       \/ \E active \in BOOLEAN : SetActive(u, target, active)
       \/ Register(u) \/ Check(u) \/ Rollback(u)
  /\ UNCHANGED sessionVars

SessionsNext ==
  \/ AdminStep
  \/ \E u \in Users : AdminCommit(u)
  \/ \E u \in Owners : LogoutAll(u) \/ ChangePassword(u) \/ WindowEnds(u)
  \/ \E x \in Requests, u \in Owners : LoginBegin(x, u)
  \/ \E x \in Requests, t \in Tokens : RefreshBegin(x, t)
  \/ \E x \in Requests :
       LoginFails(x) \/ LoginCommit(x) \/ RefreshCommit(x) \/ RequestFails(x)
  \/ \E t \in Tokens : RefreshReused(t) \/ Logout(t)
  \/ Expire \/ CleanupExpiredTokens

SessionsSpec == SessionsInit /\ [][SessionsNext]_<<vars, sessionVars>>

-----------------------------------------------------------------------------
(***************************************************************************)
(* Properties.                                                             *)
(***************************************************************************)
\* "Revoke EVERY session" (set_active): no token of a locked account is left to work
\* after an unlock, except those of requests that were already at work at the lock.
SessionsEnd ==
  \A t \in Tokens : Live(t) => account[token[t].user].active \/ t \in late

\* "Each refresh token works exactly ONCE" (refresh): one login keeps one session, as
\* long as no two requests use the same token at the same time.
OneSessionPerLogin ==
  \A s, t \in Tokens : Live(s) /\ Live(t) /\ s # t =>
    token[s].family # token[t].family \/ token[s].family \in shared

\* US-02: passwords tried in one window, counted and still being compared: the check
\* comes before the count, so as many more than the limit as other requests there are.
AttemptsBounded ==
  \A u \in Owners :
    attempts[u] + Cardinality({x \in Requests :
        Busy(x) /\ request[x].op = "login" /\ request[x].user = u})
      < MaxAttempts + Cardinality(Requests)
=============================================================================
