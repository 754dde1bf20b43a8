------------------------------ MODULE Identity ------------------------------
(***************************************************************************)
(* The accounts of one organization and the sessions of their users        *)
(* (modules/identity): registration, invitations, logins, the rotation of  *)
(* refresh tokens, password resets and deactivation.                       *)
(*                                                                         *)
(* A request reads, commits, and may then issue a session in a transaction *)
(* of its own; others commit in between, and it may die there.  Sessions,  *)
(* invitations and reset tokens stand for the tokens that carry them.  A   *)
(* session that expired is refused like one that was revoked, and the two  *)
(* are not told apart; an invitation or a reset token that expires is one  *)
(* that nobody uses.  Of the roles, Drivers has the one that matters.      *)
(***************************************************************************)
EXTENDS Naturals, FiniteSets

CONSTANTS
  Email,         \* addresses of users, one user each
  Founder,       \* the one that registers the organization
  SessionId, InvitationId, ResetId,  \* primary keys
  Request,       \* requests that may be open at a time
  NoSession      \* what a login issues a session from

ASSUME IdentityAssumption ==
  /\ Founder \in Email
  /\ IsFiniteSet(SessionId)
  /\ NoSession \notin SessionId
  /\ SessionId \cap Request = {}  \* the histories hold both

VARIABLES
  users,         \* per address: none, active or inactive
  invitations, sessions, resets,  \* the tables
  request,       \* what each open request has read and is about to do
  raced,         \* history: requests that use a session another has just used
  old,           \* history: live sessions, and requests, that stem from before
                 \* a revocation of all sessions of their user
  late           \* history: those that such a revocation overlapped

accountVars == <<users, invitations>>
historyVars == <<raced, old, late>>
vars == <<accountVars, sessions, resets, request, historyVars>>

None == [state |-> "none"]

Idle == [op |-> "none"]

\* To revoke a session and issue its successor; to issue one; to use an
\* invitation; to use a reset token, before and after its UPDATE of sessions.
RequestRow ==
  [op : {"rotate"}, user : Email, session : SessionId]
    \cup [op : {"issue"}, user : Email, parent : SessionId \cup {NoSession}]
    \cup [op : {"accept"}, user : Email, invitation : InvitationId]
    \cup [op : {"reset"}, user : Email, token : ResetId]
    \cup [op : {"revoke"}, user : Email, token : ResetId, hit : SUBSET SessionId]

Live == {s \in SessionId : sessions[s].state = "live"}

Accepted(e) ==
  {i \in InvitationId : invitations[i].state = "accepted" /\ invitations[i].user = e}

\* One type invariant.  Every user but the founder came with one invitation,
\* and every invitation that was accepted made a user.
TypeOK ==
  /\ users \in [Email -> {"none", "active", "inactive"}]
  /\ invitations \in [InvitationId -> {None} \cup [state : {"open", "accepted"}, user : Email]]
  /\ sessions \in [SessionId -> {None} \cup
                     [state : {"live", "dead"}, user : Email, uses : 0..Cardinality(SessionId)]]
  /\ resets \in [ResetId -> {None} \cup [state : {"open", "closed"}, user : Email]]
  /\ request \in [Request -> {Idle} \cup RequestRow]
  /\ raced \subseteq Request
  /\ old \cup late \subseteq Live \cup Request
  /\ \A e \in Email \ {Founder} : Cardinality(Accepted(e)) = IF users[e] = "none" THEN 0 ELSE 1

Init ==
  /\ users = [e \in Email |-> "none"]
  /\ invitations = [i \in InvitationId |-> None]
  /\ sessions = [s \in SessionId |-> None]
  /\ resets = [t \in ResetId |-> None]
  /\ request = [r \in Request |-> Idle]
  /\ raced = {}
  /\ old = {}
  /\ late = {}

-----------------------------------------------------------------------------
Active == {e \in Email : users[e] = "active"}

Of(e) == {s \in SessionId : sessions[s] # None /\ sessions[s].user = e}

Killed(hit) == [s \in SessionId |-> IF s \in hit THEN [sessions[s] EXCEPT !.state = "dead"] ELSE sessions[s]]

\* The rows that an open transaction has updated are locked.
Locked == UNION {request[r].hit : r \in {q \in Request : request[q].op = "revoke"}}

Others(r, e) == {q \in Request \ {r} : request[q] # Idle /\ request[q].user = e}

\* require_roles("org_admin"): the row of the user is read with each request, and
\* any user may have the role.
ByAdmin == Active # {}

Opens(r, row) ==
  /\ request[r] = Idle
  /\ request' = [request EXCEPT ![r] = row]

Closes(r) == request' = [request EXCEPT ![r] = Idle]

\* The histories, without what is over.
Forget(over) ==
  /\ old' = old \ over
  /\ late' = late \ over
  /\ raced' = raced \ over

Continues(r, row) == request' = [request EXCEPT ![r] = row]

Issue(e, parent) == [op |-> "issue", user |-> e, parent |-> parent]

-----------------------------------------------------------------------------
(* Accounts.                                                                *)

\* The organization, its administrator, and then a session.
Register(r) ==
  /\ users[Founder] = "none"
  /\ users' = [users EXCEPT ![Founder] = "active"]
  /\ Opens(r, Issue(Founder, NoSession))
  /\ UNCHANGED <<invitations, sessions, resets, historyVars>>

\* Whoever the address belongs to; it may have been invited before.
InviteUser(i, e) ==
  /\ ByAdmin
  /\ invitations[i] = None
  /\ invitations' = [invitations EXCEPT ![i] = [state |-> "open", user |-> e]]
  /\ UNCHANGED <<users, sessions, resets, request, historyVars>>

AcceptInvite(r, i) ==
  /\ invitations[i].state = "open"
  /\ users[invitations[i].user] = "none"
  /\ Opens(r, [op |-> "accept", user |-> invitations[i].user, invitation |-> i])
  /\ UNCHANGED <<accountVars, sessions, resets, historyVars>>

\* Mutant: users have no unique constraint on their address.
JoinAgain(r) ==
  LET e == request[r].user
  IN  /\ request[r].op = "accept"
      /\ users' = [users EXCEPT ![e] = "active"]
      /\ invitations' = [invitations EXCEPT ![request[r].invitation].state = "accepted"]
      /\ Continues(r, Issue(e, NoSession))
      /\ UNCHANGED <<sessions, resets, historyVars>>

\* The unique constraint on (organization_id, email) refuses a second user.
Join(r) ==
  LET e == request[r].user
  IN  /\ request[r].op = "accept"
      /\ \/ /\ users[e] = "none"
            /\ users' = [users EXCEPT ![e] = "active"]
            /\ invitations' = [invitations EXCEPT ![request[r].invitation].state = "accepted"]
            /\ Continues(r, Issue(e, NoSession))
         \/ /\ users[e] # "none"
            /\ Closes(r)
            /\ UNCHANGED <<users, invitations>>
      /\ UNCHANGED <<sessions, resets, historyVars>>

\* update_user and deactivate_user, of any user, the own included.
SetActive(e, state) ==
  /\ ByAdmin
  /\ users[e] # "none"
  /\ users' = [users EXCEPT ![e] = state]
  /\ UNCHANGED <<invitations, sessions, resets, request, historyVars>>

-----------------------------------------------------------------------------
(* Sessions.                                                                *)

\* The password and the state of the account are not looked at again.
Login(r, e) ==
  /\ e \in Active
  /\ Opens(r, Issue(e, NoSession))
  /\ UNCHANGED <<accountVars, sessions, resets, historyVars>>

\* The session comes from what the request has read: it is as old, and late also
\* if a reset has not seen it.
IssueTokens(r) ==
  LET e == request[r].user
      parent == request[r].parent
      unseen == \E q \in Others(r, e) : request[q].op = "revoke"
  IN  /\ request[r].op = "issue"
      /\ \E s \in SessionId :
           /\ sessions[s] = None
           /\ sessions' = [t \in SessionId |->
                IF t = s THEN [state |-> "live", user |-> e, uses |-> 0]
                ELSE IF t = parent /\ r \notin raced THEN [sessions[t] EXCEPT !.uses = @ + 1]
                ELSE sessions[t]]
           /\ old' = IF r \in old THEN (old \ {r}) \cup {s} ELSE old
           /\ late' = IF r \in late \/ unseen THEN (late \ {r}) \cup {s} ELSE late
      /\ raced' = raced \ {r}
      /\ Closes(r)
      /\ UNCHANGED <<accountVars, resets>>

\* rotate_refresh, of a session that is there and alive.
RotateRefresh(r, s) ==
  /\ s \in Live
  /\ sessions[s].user \in Active
  /\ Opens(r, [op |-> "rotate", user |-> sessions[s].user, session |-> s])
  /\ old' = IF s \in old THEN old \cup {r} ELSE old
  /\ late' = IF s \in late THEN late \cup {r} ELSE late
  /\ UNCHANGED <<accountVars, sessions, resets, raced>>

Using(s) == {q \in Request : request[q].op = "rotate" /\ request[q].session = s}

\* Mutant: the session stays.
KeepParent(r) ==
  /\ request[r].op = "rotate"
  /\ raced' = raced \cup (Using(request[r].session) \ {r})
  /\ Continues(r, Issue(request[r].user, request[r].session))
  /\ UNCHANGED <<accountVars, sessions, resets, old, late>>

RevokeParent(r) ==
  LET s == request[r].session
  IN  /\ request[r].op = "rotate"
      /\ s \notin Locked
      /\ sessions' = Killed({s})
      /\ raced' = raced \cup (Using(s) \ {r})
      /\ old' = old \ {s}
      /\ late' = late \ {s}
      /\ Continues(r, Issue(request[r].user, s))
      /\ UNCHANGED <<accountVars, resets>>

\* All sessions of a user are revoked: those in hit.  What is left of them is old
\* from here on, and so is what an open request is about to issue.
RevokedAll(r, e, hit) ==
  LET issuing == {q \in Others(r, e) : request[q].op \in {"rotate", "issue"}}
  IN  /\ sessions' = Killed(hit)
      /\ old' = (old \cup (Of(e) \cap Live) \cup issuing) \ hit
      /\ late' = (late \cup issuing) \ hit

\* rotate_refresh, of a session that was revoked or has expired.
DetectReuse(r, s) ==
  /\ request[r] = Idle
  /\ sessions[s].state = "dead"
  /\ Of(sessions[s].user) \cap Locked = {}
  /\ RevokedAll(r, sessions[s].user, Of(sessions[s].user))
  /\ UNCHANGED <<accountVars, resets, request, raced>>

\* logout, and the end of the seven days.
EndSession(s) ==
  /\ s \in Live \ Locked
  /\ sessions' = Killed({s})
  /\ Forget({s})
  /\ UNCHANGED <<accountVars, resets, request>>

ForgotPassword(t, e) ==
  /\ e \in Active
  /\ resets[t] = None
  /\ resets' = [resets EXCEPT ![t] = [state |-> "open", user |-> e]]
  /\ UNCHANGED <<accountVars, sessions, request, historyVars>>

ResetPassword(r, t) ==
  /\ resets[t].state = "open"
  /\ resets[t].user \in Active
  /\ Opens(r, [op |-> "reset", user |-> resets[t].user, token |-> t])
  /\ UNCHANGED <<accountVars, sessions, resets, historyVars>>

\* Mutant: the UPDATE is left out.
UpdateNothing(r) ==
  /\ request[r].op = "reset"
  /\ Continues(r, [op |-> "revoke", user |-> request[r].user, token |-> request[r].token, hit |-> {}])
  /\ UNCHANGED <<accountVars, sessions, resets, historyVars>>

\* The UPDATE of the sessions that are there, ahead of the commit.
UpdateSessions(r) ==
  LET e == request[r].user
  IN  /\ request[r].op = "reset"
      /\ Of(e) \cap Locked = {}
      /\ Continues(r, [op |-> "revoke", user |-> e, token |-> request[r].token, hit |-> Of(e)])
      /\ UNCHANGED <<accountVars, sessions, resets, historyVars>>

CommitReset(r) ==
  /\ request[r].op = "revoke"
  /\ resets' = [resets EXCEPT ![request[r].token].state = "closed"]
  /\ RevokedAll(r, request[r].user, request[r].hit)
  /\ Closes(r)
  /\ UNCHANGED <<accountVars, raced>>

\* The process dies, or the database ends the transaction.
Die(r) ==
  /\ request[r] # Idle
  /\ Closes(r)
  /\ Forget({r})
  /\ UNCHANGED <<accountVars, sessions, resets>>

-----------------------------------------------------------------------------
AccountStep ==
  \E e \in Email :
    \/ \E i \in InvitationId : InviteUser(i, e)
    \/ \E state \in {"active", "inactive"} : SetActive(e, state)

JoinStep(r) == Register(r) \/ (\E i \in InvitationId : AcceptInvite(r, i)) \/ Join(r)

SessionStep(r) ==
  \/ \E e \in Email : Login(r, e)
  \/ \E s \in SessionId : RotateRefresh(r, s) \/ DetectReuse(r, s)
  \/ RevokeParent(r)
  \/ IssueTokens(r)

ResetStep(r) == (\E t \in ResetId : ResetPassword(r, t)) \/ UpdateSessions(r) \/ CommitReset(r)

TokenStep ==
  \/ \E s \in SessionId : EndSession(s)
  \/ \E t \in ResetId, e \in Email : ForgotPassword(t, e)

Next ==
  \/ AccountStep
  \/ TokenStep
  \/ \E r \in Request : JoinStep(r) \/ SessionStep(r) \/ ResetStep(r) \/ Die(r)

Spec == Init /\ [][Next]_vars
-----------------------------------------------------------------------------
(* Properties.                                                              *)

\* A refresh token is used once, as docs/13-glossary.md has it: a session has one
\* successor, and another only for a use that read it before the first was
\* through.
SingleUse == \A s \in SessionId : sessions[s] # None => sessions[s].uses <= 1

\* When a reset, or a refused repeat, has revoked all sessions of a user, none
\* lives on that stems from before, not by way of its successors either, unless
\* it was just being issued.
RevokedForGood == Live \cap old \subseteq late
=============================================================================
