-------------------------------- MODULE Sessions --------------------------------
(***************************************************************************)
(* The refresh tokens and sessions of one account: TokenService,           *)
(* SessionService, PasswordResetService and the hourly clean-up.           *)
(*                                                                         *)
(* A refresh token is used once: rotating it revokes it and makes the next *)
(* one of its family, and a token shown again revokes the whole family.    *)
(* Every call is a chain of separate writes, so calls interleave at each of*)
(* them and a crash cuts the chain.  The tokens are rows that also stand   *)
(* for their sessions: a row of Session belongs to one refresh token.      *)
(***************************************************************************)
EXTENDS Naturals, FiniteSets, Sequences

CONSTANTS
    Tokens,        \* refresh tokens that can be issued; a family is named by its first
    Requests,      \* requests served at once
    MaxVersion     \* bound: the highest tokenVersion

VARIABLES
    account,       \* the user's tokenVersion and ban
    token,         \* the rows of RefreshToken
    session,       \* the status of the session that came with each token
    request,       \* what each request is doing
    lapped,        \* families two of whose calls of rotate overlapped
    reported       \* families a reuse was found in and dealt with

sessionVars == <<account, token, session, request, lapped, reported>>

NoToken == [status |-> "none"]
NoRequest == [op |-> "idle"]

Issued == {t \in Tokens : token[t] # NoToken}
Family(f) == {t \in Issued : token[t].family = f}
Active(t) == token[t].status = "ACTIVE"

Begin(r, c) == request[r] = NoRequest /\ request' = [request EXCEPT ![r] = c]
Continue(r, c) == request' = [request EXCEPT ![r] = c]
Done(r) == Continue(r, NoRequest)

SetToken(S, s) == token' = [t \in Tokens |-> IF t \in S THEN [token[t] EXCEPT !.status = s] ELSE token[t]]
SetSession(S, s) == session' = [t \in Tokens |-> IF t \in S THEN s ELSE session[t]]

\* The calls of rotate for a family that are under way.
Rotating(f) == {r \in Requests : request[r].op \in {"rotate", "reuse"} /\ request[r].family = f}
Note(f) == lapped' = IF Rotating(f) = {} THEN lapped ELSE lapped \union {f}

-----------------------------------------------------------------------------
(* Login.                                                                  *)

\* completeLogin and the social logins refuse a banned account; issueTokenPair
\* reads the version it signs.
IssueRead(r) ==
    /\ ~account.banned
    /\ Begin(r, [op |-> "issue", version |-> account.version, since |-> account.version,
                 family |-> "new", parts |-> <<"token", "session">>, made |-> "none"])
    /\ UNCHANGED <<account, token, session, lapped, reported>>

\* The token is created, for a login in a family of its own.
CreateToken(r) ==
    LET c == request[r] IN
    /\ c.op \in {"issue", "rotate"}
    /\ c.parts # <<>> /\ Head(c.parts) = "token"
    /\ \E t \in Tokens \ Issued :
           /\ token' = [token EXCEPT ![t] =
                  [family |-> IF c.family = "new" THEN t ELSE c.family,
                   status |-> "ACTIVE", version |-> c.version, since |-> c.since]]
           /\ Continue(r, [c EXCEPT !.made = t, !.parts = Tail(c.parts)])
    /\ UNCHANGED <<account, session, lapped, reported>>

SessionCreate(r) ==
    LET c == request[r] IN
    /\ c.op \in {"issue", "rotate"}
    /\ c.parts = <<"session">>
    /\ SetSession({c.made}, "ACTIVE")
    /\ Done(r)
    /\ UNCHANGED <<account, token, lapped, reported>>

-----------------------------------------------------------------------------
(* Rotation.                                                               *)

\* A variant of RotateRead that does not look at the version.
RotateAnyVersion(r, t) ==
    /\ t \in Issued
    /\ Active(t)
    /\ ~account.banned
    /\ Begin(r, [op |-> "rotate", old |-> t, family |-> token[t].family,
                 version |-> account.version, since |-> token[t].since,
                 parts |-> <<"revoke", "close", "token", "session">>, made |-> "none"])
    /\ Note(token[t].family)
    /\ UNCHANGED <<account, token, session, reported>>

\* One query reads the token and its user.  A token whose signature has expired
\* is refused before, and the rest of the checks leave everything as it is.
RotateRead(r, t) ==
    /\ t \in Issued
    /\ Active(t)
    /\ token[t].version = account.version
    /\ ~account.banned
    /\ Begin(r, [op |-> "rotate", old |-> t, family |-> token[t].family,
                 version |-> account.version, since |-> token[t].since,
                 parts |-> <<"revoke", "close", "token", "session">>, made |-> "none"])
    /\ Note(token[t].family)
    /\ UNCHANGED <<account, token, session, reported>>

\* The old token is revoked by its key, whatever its status has become, and
\* then its session.
RotateRevoke(r) ==
    LET c == request[r] IN
    /\ c.op = "rotate"
    /\ c.parts # <<>> /\ Head(c.parts) = "revoke"
    /\ SetToken({c.old}, "REVOKED")
    /\ Continue(r, [c EXCEPT !.parts = Tail(c.parts)])
    /\ UNCHANGED <<account, session, lapped, reported>>

RotateClose(r) ==
    LET c == request[r] IN
    /\ c.op = "rotate"
    /\ c.parts # <<>> /\ Head(c.parts) = "close"
    /\ SetSession({t \in {c.old} : session[t] = "ACTIVE"}, "REVOKED")
    /\ Continue(r, [c EXCEPT !.parts = Tail(c.parts)])
    /\ UNCHANGED <<account, token, lapped, reported>>

\* A token that is not active is shown again.
ReuseRead(r, t) ==
    /\ t \in Issued
    /\ token[t].status = "REVOKED"
    /\ Begin(r, [op |-> "reuse", family |-> token[t].family, todo |-> <<"tokens", "list", "sessions">>,
                 scope |-> {}])
    /\ Note(token[t].family)
    /\ UNCHANGED <<account, token, session, reported>>

\* The whole family is revoked, active or not, then the sessions of the tokens
\* it is found to have.
ReuseFamily(r) ==
    LET c == request[r] IN
    /\ c.op = "reuse"
    /\ \/ /\ Head(c.todo) = "tokens"
          /\ SetToken(Family(c.family), "REVOKED")
          /\ Continue(r, [c EXCEPT !.todo = Tail(c.todo)])
          /\ reported' = reported \union {c.family}
          /\ UNCHANGED session
       \/ /\ Head(c.todo) = "list"
          /\ Continue(r, [c EXCEPT !.scope = Family(c.family), !.todo = Tail(c.todo)])
          /\ UNCHANGED <<token, session, reported>>
       \/ /\ Head(c.todo) = "sessions"
          /\ SetSession({t \in c.scope : session[t] = "ACTIVE"}, "REVOKED")
          /\ Done(r)
          /\ UNCHANGED <<token, reported>>
    /\ UNCHANGED <<account, lapped>>

-----------------------------------------------------------------------------
(* Revocation: a list of bulk writes over a set of tokens, one after another.*)

Revocation(r, scope, activeOnly, todo) ==
    Begin(r, [op |-> "revoke", scope |-> scope, activeOnly |-> activeOnly, todo |-> todo])

\* logoutByToken and revoke
LogoutRead(r, t) ==
    /\ t \in Issued
    /\ Revocation(r, {t}, FALSE, <<"tokens", "sessions">>)
    /\ UNCHANGED <<account, token, session, lapped, reported>>

\* revokeSession writes the session first
RevokeSession(r, t) ==
    /\ session[t] # "none"
    /\ Revocation(r, {t}, FALSE, <<"sessions", "tokens">>)
    /\ UNCHANGED <<account, token, session, lapped, reported>>

\* logoutAll; and SessionRiskService, whose revokeAllForUser writes the
\* sessions first.
RevokeAll(r) ==
    /\ \/ Revocation(r, Tokens, TRUE, <<"tokens", "sessions">>)
       \/ Revocation(r, Tokens, TRUE, <<"sessions", "tokens">>)
    /\ UNCHANGED <<account, token, session, lapped, reported>>

\* A new password takes the next version first, which ends what the tokens and
\* the access tokens signed so far can do, and then revokes them all.
ResetPassword(r) ==
    /\ account.version < MaxVersion
    /\ account' = [account EXCEPT !.version = @ + 1]
    /\ Revocation(r, Tokens, FALSE, <<"tokens", "sessions">>)
    /\ UNCHANGED <<token, session, lapped, reported>>

InScope(c, t, status) ==
    /\ t \in c.scope
    /\ status # "none"
    /\ c.activeOnly => status = "ACTIVE"

RevokeStep(r) ==
    LET c == request[r] IN
    /\ c.op = "revoke"
    /\ IF Head(c.todo) = "tokens"
       THEN /\ SetToken({t \in Tokens : InScope(c, t, token[t].status)}, "REVOKED")
            /\ UNCHANGED session
       ELSE /\ SetSession({t \in Tokens : InScope(c, t, session[t])}, "REVOKED")
            /\ UNCHANGED token
    /\ IF Len(c.todo) = 1 THEN Done(r) ELSE Continue(r, [c EXCEPT !.todo = Tail(@)])
    /\ UNCHANGED <<account, lapped, reported>>

-----------------------------------------------------------------------------

\* evaluateAutoBan bans and revokes nothing.
Ban ==
    /\ ~account.banned
    /\ account' = [account EXCEPT !.banned = TRUE]
    /\ UNCHANGED <<token, session, request, lapped, reported>>

\* The hourly job expires the rows whose time is over, active ones only.
CleanUp(t) ==
    /\ \/ Active(t) /\ SetToken({t}, "EXPIRED") /\ UNCHANGED session
       \/ session[t] = "ACTIVE" /\ SetSession({t}, "EXPIRED") /\ UNCHANGED token
    /\ UNCHANGED <<account, request, lapped, reported>>

Crash(r) ==
    /\ request[r] # NoRequest
    /\ Done(r)
    /\ UNCHANGED <<account, token, session, lapped, reported>>

Init ==
    /\ account = [version |-> 0, banned |-> FALSE]
    /\ token = [t \in Tokens |-> NoToken]
    /\ session = [t \in Tokens |-> "none"]
    /\ request = [r \in Requests |-> NoRequest]
    /\ lapped = {}
    /\ reported = {}

Next ==
    \/ \E r \in Requests :
           \/ IssueRead(r) \/ CreateToken(r) \/ SessionCreate(r)
           \/ RotateRevoke(r) \/ RotateClose(r) \/ ReuseFamily(r)
           \/ RevokeAll(r) \/ ResetPassword(r) \/ RevokeStep(r) \/ Crash(r)
           \/ \E t \in Tokens :
                  RotateRead(r, t) \/ ReuseRead(r, t) \/ LogoutRead(r, t) \/ RevokeSession(r, t)
    \/ Ban
    \/ \E t \in Tokens : CleanUp(t)

Spec == Init /\ [][Next]_sessionVars

-----------------------------------------------------------------------------

\* A token that rotate would accept goes back to a login made since the password
\* was last changed, whatever rotations were under way at the time.
OldTokensDie ==
    \A t \in Issued : Active(t) /\ token[t].version = account.version => token[t].since = account.version

\* A family has one active token at most, and none once a reuse was dealt with,
\* unless two of its rotations overlapped.
OneLeaf ==
    \A f \in Tokens \ lapped :
        Cardinality({t \in Family(f) : Active(t)}) <= IF f \in reported THEN 0 ELSE 1

TokensInOrder == OldTokensDie /\ OneLeaf
================================================================================
