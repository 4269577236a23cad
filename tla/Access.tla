------------------------------- MODULE Access -------------------------------
(***************************************************************************)
(* The way of a request to an organisation's rows: login, session cookies  *)
(* and API tokens (auth/dependencies.py), the contexts that bind a transaction to an      *)
(* organisation or to the caller (orgs/dependencies.py), the pool the      *)
(* connections come from (db/engine.py), and the administrator who adds    *)
(* and removes what the requests rely on (admin/router.py).                *)
(*                                                                         *)
(* Row-level security reads two settings of the connection.  They are set  *)
(* for the transaction only; the connection goes back to the pool and      *)
(* serves somebody else.  The administrator works on a pool of their own.  *)
(***************************************************************************)
EXTENDS Naturals, FiniteSets

CONSTANTS
    Requests,           \* requests that may be under way at once
    Connections,        \* pool_size + max_overflow of the application's pool
    Users, Orgs, Tokens,
    Scope,              \* Scope[t]: the organisation token t is minted for, or Nobody
    Enrolled,           \* the users, and the memberships, there are to begin with
    Nobody,             \* no user, no organisation, no connection: NULL
    UnknownSlug,        \* a slug no organisation has
    MaxChanges          \* bound: changes to memberships

ASSUME AccessAssumption ==
    /\ IsFiniteSet(Connections) /\ Connections # {}
    /\ MaxChanges \in Nat
    /\ Nobody \notin Users \cup Orgs \cup Connections \cup Tokens \cup {UnknownSlug}
    /\ UnknownSlug \notin Orgs
    /\ Scope \in [Tokens -> Orgs \cup {Nobody}]
    /\ Enrolled \subseteq Users \X Orgs

VARIABLES
    users,              \* users[u]: "new", "present" or "deleted"; an id is never reused
    members,            \* the rows of org_memberships
    sessions,           \* users with a live row in access_tokens
    tokens,             \* tokens[t]: its row in api_tokens, without a user when there is none
    request,            \* request[r]: how far it is and what it has read
    setting,            \* setting[c]: the settings of connection c, '' is Nobody
    changes             \* changes to memberships so far

rows == <<users, members, sessions, tokens>>
vars == <<users, members, sessions, tokens, request, setting, changes>>

Present == {u \in Users : users[u] = "present"}

\* Before a token is minted, and after its user was deleted.
NoRow == [user |-> Nobody, valid |-> TRUE]
DeletedRow == [NoRow EXCEPT !.valid = FALSE]
Exists(t) == tokens[t].user # Nobody

Unset == [org |-> Nobody, user |-> Nobody]

\* get_user_context: the nil UUID, an organisation nobody has rows in.
NilOrg == UnknownSlug

\* A request holds up to two connections: for the session of its
\* authentication and for the transaction of its context.
NoRequest == [pc |-> "idle", user |-> Nobody, token |-> Nobody, row |-> NoRow, scope |-> Nobody,
              target |-> Nobody, auth |-> Nobody, work |-> Nobody]

Init ==
    /\ users = [u \in Users |-> IF \E o \in Orgs : <<u, o>> \in Enrolled THEN "present" ELSE "new"]
    /\ members = Enrolled
    /\ sessions = {}
    /\ tokens = [t \in Tokens |-> NoRow]
    /\ request = [r \in Requests |-> NoRequest]
    /\ setting = [c \in Connections |-> Unset]
    /\ changes = 0

-----------------------------------------------------------------------------
(* Connections. *)

Held(r) == {request[r].auth, request[r].work} \ {Nobody}
Free == Connections \ UNION {Held(r) : r \in Requests}

\* Mutant: set_config(..., false), which outlives the transaction.
ResetNothing(C) == setting

\* The transactions on C end: what set_config(..., true) set is '' again.
Reset(C) == [c \in Connections |-> IF c \in C THEN Unset ELSE setting[c]]

\* The answer is sent and the sessions of the request are closed.
Answer(r) ==
    /\ setting' = Reset(Held(r))
    /\ request' = [request EXCEPT ![r] = NoRequest]

\* tenant_isolation or own_memberships_read: the rows a SELECT on c returns.
VisibleMembers(c) ==
    {m \in members : m[2] = setting[c].org \/ m[1] = setting[c].user}

\* Mutant: a request waits for a connection for as long as it takes.
NeverTimesOut(r) ==
    FALSE /\ UNCHANGED vars

\* pool_timeout: no connection came back in time; the request fails with 500.
PoolTimeout(r) ==
    /\ request[r].pc \in {"arrived", "login", "context"}
    /\ Free = {}
    /\ Answer(r)
    /\ UNCHANGED <<rows, changes>>

-----------------------------------------------------------------------------
(* Login. *)

\* POST /api/auth/login.  The client knows a user and has the password, or not.
ArriveLogin(r, u) ==
    /\ request[r].pc = "idle"
    /\ request' = [request EXCEPT ![r] = [NoRequest EXCEPT !.pc = "login", !.user = u]]
    /\ UNCHANGED <<rows, setting, changes>>

\* user_manager.authenticate: 400 when the user is unknown (or the password wrong).
Authenticate(r) ==
    /\ request[r].pc = "login"
    /\ \E c \in Free :
         IF request[r].user \in Present
         THEN request' = [request EXCEPT ![r] = [@ EXCEPT !.pc = "write", !.auth = c]]
         ELSE request' = [request EXCEPT ![r] = NoRequest]
    /\ UNCHANGED <<rows, setting, changes>>

\* The session row.  A user deleted since fails the foreign key: 500.
WriteSession(r) ==
    /\ request[r].pc = "write"
    /\ sessions' = IF request[r].user \in Present THEN sessions \cup {request[r].user} ELSE sessions
    /\ Answer(r)
    /\ UNCHANGED <<users, members, tokens, changes>>

\* Logout, or the seven days are over.
SessionEnds(u) ==
    /\ u \in sessions
    /\ sessions' = sessions \ {u}
    /\ UNCHANGED <<users, members, tokens, request, setting, changes>>

-----------------------------------------------------------------------------
(* current_user_or_token. *)

\* A request for an organisation's route, or a user-level one (target Nobody).
ArriveWithCookie(r, u, target) ==
    /\ request[r].pc = "idle" /\ u \in sessions
    /\ request' = [request EXCEPT ![r] =
           [NoRequest EXCEPT !.pc = "arrived", !.user = u, !.target = target]]
    /\ UNCHANGED <<rows, setting, changes>>

ArriveWithToken(r, t, target) ==
    /\ request[r].pc = "idle" /\ Exists(t)
    /\ request' = [request EXCEPT ![r] =
           [NoRequest EXCEPT !.pc = "arrived", !.token = t, !.target = target]]
    /\ UNCHANGED <<rows, setting, changes>>

\* The cookie path reads the session and the user.  Nothing commits: the
\* connection stays with the request until it is answered.
ResolveCookie(r) ==
    /\ request[r].pc = "arrived" /\ request[r].token = Nobody
    /\ \E c \in Free :
         IF request[r].user \in sessions
         THEN request' = [request EXCEPT ![r] = [@ EXCEPT !.pc = "context", !.auth = c]]
         ELSE request' = [request EXCEPT ![r] = NoRequest]
    /\ UNCHANGED <<rows, setting, changes>>

\* _resolve_token: the row is read and found good, or the answer is 401.
ResolveToken(r) ==
    LET row == tokens[request[r].token] IN
    /\ request[r].pc = "arrived" /\ request[r].token # Nobody
    /\ \E c \in Free :
         IF row.valid /\ row.user \in Present
         THEN request' = [request EXCEPT ![r] =
                  [@ EXCEPT !.pc = "touch", !.user = row.user, !.row = row,
                            !.scope = Scope[request[r].token], !.auth = c]]
         ELSE request' = [request EXCEPT ![r] = NoRequest]
    /\ UNCHANGED <<rows, setting, changes>>

\* Mutant: the update writes every column of the row that was read.
TouchWholeRow(r) ==
    /\ request[r].pc = "touch"
    /\ tokens' = [tokens EXCEPT ![request[r].token] =
           IF Exists(request[r].token) THEN request[r].row ELSE @]
    /\ request' = [request EXCEPT ![r] = [@ EXCEPT !.pc = "context", !.row = NoRow, !.auth = Nobody]]
    /\ UNCHANGED <<users, members, sessions, setting, changes>>

\* Mutant: the scope is read after the commit, from a row that is expired.
TouchForgetsScope(r) ==
    /\ request[r].pc = "touch"
    /\ request' = [request EXCEPT ![r] =
           [@ EXCEPT !.pc = "context", !.auth = Nobody, !.row = NoRow, !.scope = Nobody]]
    /\ UNCHANGED <<rows, setting, changes>>

\* last_used_at is written and committed.  Nobody reads the column; the other
\* columns keep what they hold now.  The commit gives the connection back.  When
\* it fails, as it does for a row that is gone, the exception is suppressed, but
\* the rollback has expired the user: the next use of it raises, and that is 500.
TouchToken(r) ==
    /\ request[r].pc = "touch"
    /\ \/ /\ Exists(request[r].token)
          /\ request' = [request EXCEPT ![r] = [@ EXCEPT !.pc = "context", !.row = NoRow, !.auth = Nobody]]
          /\ UNCHANGED setting
       \/ Answer(r)
    /\ UNCHANGED <<rows, changes>>

-----------------------------------------------------------------------------
(* get_org_context and get_user_context. *)

\* The slug resolves and the token is not scoped to another organisation.
MayOpen(r) ==
    /\ request[r].target \in Orgs
    /\ request[r].scope \in {Nobody, request[r].target}

\* The transaction begins and sets its organisation; 404 or 403 ends it.
OpenOrgContext(r) ==
    /\ request[r].pc = "context" /\ request[r].target # Nobody
    /\ \E c \in Free :
         IF MayOpen(r)
         THEN /\ setting' = [setting EXCEPT ![c].org = request[r].target]
              /\ request' = [request EXCEPT ![r] = [@ EXCEPT !.pc = "scoped", !.work = c]]
         ELSE Answer(r)
    /\ UNCHANGED <<rows, changes>>

OpenUserContext(r) ==
    /\ request[r].pc = "context" /\ request[r].target = Nobody
    /\ \E c \in Free :
         /\ setting' = [setting EXCEPT ![c] = [org |-> NilOrg, user |-> request[r].user]]
         /\ request' = [request EXCEPT ![r] = [@ EXCEPT !.pc = "working", !.work = c]]
    /\ UNCHANGED <<rows, changes>>

\* Mutant: the membership is looked up without row-level security.
CheckAnyMembership(r) ==
    /\ request[r].pc = "scoped"
    /\ IF \E m \in members : m[1] = request[r].user
       THEN /\ request' = [request EXCEPT ![r].pc = "working"]
            /\ UNCHANGED setting
       ELSE Answer(r)
    /\ UNCHANGED <<rows, changes>>

\* SELECT id FROM org_memberships WHERE user_id = ...: the policies decide
\* which organisation's rows it sees.  None is 403, more than one raises.
CheckMembership(r) ==
    /\ request[r].pc = "scoped"
    /\ IF Cardinality({m \in VisibleMembers(request[r].work) : m[1] = request[r].user}) = 1
       THEN /\ request' = [request EXCEPT ![r].pc = "working"]
            /\ UNCHANGED setting
       ELSE Answer(r)
    /\ UNCHANGED <<rows, changes>>

\* The handler has done its work, or failed: commit or rollback.
Finish(r) ==
    /\ request[r].pc = "working"
    /\ Answer(r)
    /\ UNCHANGED <<rows, changes>>

-----------------------------------------------------------------------------
(* The administrator.  Each route is one transaction whose constraints hold   *)
(* at its commit, whatever it read before: a step.                            *)

serving == <<request, setting>>

\* An email the user table does not have; a deleted user comes back with a new id.
CreateUser(u) ==
    /\ users[u] = "new"
    /\ users' = [users EXCEPT ![u] = "present"]
    /\ UNCHANGED <<members, sessions, tokens, serving, changes>>

\* Mutant: the user goes, the memberships and credentials stay.
DeleteUserOnly(u) ==
    /\ u \in Present
    /\ users' = [users EXCEPT ![u] = "deleted"]
    /\ UNCHANGED <<members, sessions, tokens, serving, changes>>

\* ON DELETE CASCADE removes what refers to the user.
DeleteUser(u) ==
    /\ u \in Present
    /\ users' = [users EXCEPT ![u] = "deleted"]
    /\ members' = {m \in members : m[1] # u}
    /\ sessions' = sessions \ {u}
    /\ tokens' = [t \in Tokens |-> IF tokens[t].user = u THEN DeletedRow ELSE tokens[t]]
    /\ UNCHANGED <<serving, changes>>

AddMembership(u, o) ==
    /\ changes < MaxChanges
    /\ changes' = changes + 1
    /\ u \in Present /\ <<u, o>> \notin members
    /\ members' = members \cup {<<u, o>>}
    /\ UNCHANGED <<users, sessions, tokens, serving>>

RemoveMembership(u, o) ==
    /\ changes < MaxChanges
    /\ changes' = changes + 1
    /\ <<u, o>> \in members
    /\ members' = members \ {<<u, o>>}
    /\ UNCHANGED <<users, sessions, tokens, serving>>

CreateApiToken(t, u) ==
    /\ u \in Present /\ tokens[t] = NoRow
    /\ tokens' = [tokens EXCEPT ![t].user = u]
    /\ UNCHANGED <<users, members, sessions, serving, changes>>

\* Revoked, or the date it expires at has come: either ends it the same way.
RevokeApiToken(t) ==
    /\ Exists(t) /\ tokens[t].valid
    /\ tokens' = [tokens EXCEPT ![t].valid = FALSE]
    /\ UNCHANGED <<users, members, sessions, serving, changes>>

-----------------------------------------------------------------------------
Targets == Orgs \cup {Nobody, UnknownSlug}

Arrive(r) ==
    \/ \E u \in Users : ArriveLogin(r, u)
    \/ \E u \in Users, o \in Targets : ArriveWithCookie(r, u, o)
    \/ \E t \in Tokens, o \in Targets : ArriveWithToken(r, t, o)

Serve(r) ==
    \/ Authenticate(r) \/ WriteSession(r)
    \/ ResolveCookie(r) \/ ResolveToken(r) \/ TouchToken(r)
    \/ OpenOrgContext(r) \/ OpenUserContext(r) \/ CheckMembership(r) \/ Finish(r)
    \/ PoolTimeout(r)

Administer ==
    \/ \E u \in Users : CreateUser(u) \/ DeleteUser(u)
    \/ \E u \in Users, o \in Orgs : AddMembership(u, o) \/ RemoveMembership(u, o)
    \/ \E t \in Tokens, u \in Users : CreateApiToken(t, u)
    \/ \E t \in Tokens : RevokeApiToken(t)

Next ==
    \/ \E r \in Requests : Arrive(r) \/ Serve(r)
    \/ \E u \in Users : SessionEnds(u)
    \/ Administer

Spec == Init /\ [][Next]_vars

-----------------------------------------------------------------------------
(* Properties. *)

\* The values of the variables, no two requests on one connection, and what
\* the foreign keys keep: no credential without its user.
TypeOK ==
    /\ users \in [Users -> {"new", "present", "deleted"}]
    /\ members \subseteq Present \X Orgs
    /\ sessions \subseteq Present
    /\ \A t \in Tokens : tokens[t] \in {NoRow, DeletedRow} \/ tokens[t].user \in Present
    /\ setting \in [Connections -> [org : Targets, user : Users \cup {Nobody}]]
    /\ \A r \in Requests :
         /\ request[r].pc \in {"idle", "login", "write", "arrived", "touch",
                               "context", "scoped", "working"}
         /\ \A q \in Requests \ {r} : Held(r) \cap Held(q) = {}
    /\ changes <= MaxChanges

\* Whoever gets to work in an organisation is a member of that organisation
\* at that moment, although the query that checks it names only the user and
\* the connection has served others before (orgs/dependencies.py:108).
EntersAsMember ==
    [][\A r \in Requests :
          request[r].pc # "working" /\ request'[r].pc = "working" /\ request'[r].target # Nobody
          => <<request'[r].user, request'[r].target>> \in members]_vars

\* What a request at work can see of the memberships is its organisation's,
\* or its caller's on a user-level route, and no connection in the pool still
\* carries the settings of the request before (db/session.py:3).
ReadsOwnRowsOnly ==
    /\ \A r \in Requests : request[r].pc = "working" =>
         \A m \in VisibleMembers(request[r].work) :
            IF request[r].target = Nobody THEN m[1] = request[r].user
                                          ELSE m[2] = request[r].target
    /\ \A c \in Free : setting[c] = Unset

\* A token minted for an organisation opens no other, although its scope
\* travels from the authentication to the context outside the database, past a
\* commit (orgs/dependencies.py:117).
ScopeHolds ==
    \A r \in Requests :
        request[r].pc = "working" /\ request[r].token # Nobody /\ request[r].target # Nobody
        => Scope[request[r].token] \in {Nobody, request[r].target}

\* A token that was revoked is never good again, however late a request
\* writes the last use of the row it had read (admin/router.py:255).
RevocationSticks ==
    [][\A t \in Tokens : ~tokens[t].valid => ~tokens'[t].valid]_vars

\* Every request can always go on, even when all of them hold a connection
\* and wait for a second one; no step leads back, so each is answered
\* (db/session.py:51, orgs/dependencies.py:108).
NobodyIsStuck ==
    \A r \in Requests : request[r].pc # "idle" => ENABLED Serve(r)
=============================================================================
