------------------------------- MODULE Access -------------------------------
(***************************************************************************)
(* Sessions and share tokens: authenticate, authorizeShareScope and csrf   *)
(* each read the database for themselves while logins, logouts, revocations*)
(* and the clock go on between them.  Tokens are random: token i is the    *)
(* i-th that was issued, and nobody holds a token before that.             *)
(***************************************************************************)
EXTENDS Naturals

CONSTANTS
  Browsers,   \* cookie jars
  Requests,   \* requests on their way
  MaxSession, \* bound on logins
  MaxShare,   \* bound on share tokens
  MaxTime,    \* bound on the clock, in half seconds
  TTL,        \* life of a session
  Expiries    \* expiries given to shares, 0 for none

ASSUME BoundsAssumption == {MaxSession, MaxShare, MaxTime, TTL} \cup Expiries \subseteq Nat

VARIABLES
  now,
  sessions, \* session -> its expiry, or Gone
  logins,   \* sessions issued so far; session i has CSRF token i
  shares,   \* share -> [expires, revoked], or None
  created,  \* share tokens created so far
  jar,      \* per browser: [session, share] cookies, 0 for none
  req       \* per request: [at, from, op, session, csrf, share, who, sound]

vars == <<now, sessions, logins, shares, created, jar, req>>

Sessions == 1..MaxSession
Shares == 1..MaxShare
Gone == 0
Never == 0
None == [expires |-> Never, revoked |-> TRUE]
\* What a share may read; the other pages; the changes that matter here, which stand
\* for all of them.
Ops == {"inventory", "settings", "logout", "create", "revoke"}
Reads == {"inventory", "settings"}
NoReq == [at |-> "none", from |-> "", op |-> "inventory", session |-> 0, csrf |-> 0, share |-> 0,
          who |-> "", sound |-> {}]

-----------------------------------------------------------------------------

\* Validate of sessions and of shares.
\* Seeded fault: the expiry is not looked at.
SessionValidForever(s) == s # 0 /\ sessions[s] # Gone
SessionValid(s) == s # 0 /\ sessions[s] # Gone /\ sessions[s] > now
ShareValid(i) ==
  /\ i # 0
  /\ ~shares[i].revoked
  /\ shares[i].expires = Never \/ shares[i].expires > now

\* ValidateCSRF compares RFC 3339 texts.  Zeros at the end of a fraction are not
\* written, so "5Z", a full second, sorts after "5.5Z".
Second(t) == t \div 2
Half(t) == t % 2
TextAfter(t, u) ==
  \/ Second(t) > Second(u)
  \/ Second(t) = Second(u) /\ Half(t) = 0 /\ Half(u) = 1

ValidateCSRF(s, c) == s # 0 /\ c = s /\ sessions[s] # Gone /\ TextAfter(sessions[s], now)

Init ==
  /\ now = 0
  /\ sessions = [s \in Sessions |-> Gone]
  /\ logins = 0
  /\ shares = [i \in Shares |-> None]
  /\ created = 0
  /\ jar = [b \in Browsers |-> [session |-> 0, share |-> 0]]
  /\ req = [q \in Requests |-> NoReq]

Tick ==
  /\ now < MaxTime
  /\ now' = now + 1
  /\ UNCHANGED <<sessions, logins, shares, created, jar, req>>

\* issueSession, for whoever sends the right password.
Login(b) ==
  /\ logins < MaxSession
  /\ logins' = logins + 1
  /\ sessions' = [sessions EXCEPT ![logins + 1] = now + TTL]
  /\ jar' = [jar EXCEPT ![b].session = logins + 1]
  /\ UNCHANGED <<now, shares, created, req>>

\* GET /share/{token} puts a valid token into the jar, in place of another.
AcceptShare(b, i) ==
  /\ i <= created
  /\ ShareValid(i)
  /\ jar' = [jar EXCEPT ![b].share = i]
  /\ UNCHANGED <<now, sessions, logins, shares, created, req>>

\* A request leaves with the cookies of the jar, whether they expired or not, a change with
\* a CSRF token (0, none, is as good as a wrong one), and perhaps with a share token in a header,
\* which counts only when there is no cookie.
\* sound: as whom the credentials are good now, at the start of the request.
Arrive(q, b, op, csrf, header) ==
  /\ req[q].at = "none"
  /\ csrf <= logins
  /\ op \in Reads <=> csrf = 0
  /\ header <= IF jar[b].share # 0 THEN 0 ELSE created
  /\ LET share == IF jar[b].share # 0 THEN jar[b].share ELSE header
         s == jar[b].session IN
     req' = [req EXCEPT ![q] =
       [at |-> "arrived", from |-> b, op |-> op, session |-> s, csrf |-> csrf, share |-> share,
        who |-> "",
        sound |-> {who \in {"admin", "share"} :
                     IF who = "admin" THEN s # 0 /\ sessions[s] > now
                     ELSE /\ share # 0
                          /\ ~shares[share].revoked
                          /\ shares[share].expires = Never \/ shares[share].expires > now}]]
  /\ UNCHANGED <<now, sessions, logins, shares, created, jar>>

Step(q, r) == req' = [req EXCEPT ![q] = r] /\ UNCHANGED <<now, sessions, logins, shares, created, jar>>
Refuse(q) == Step(q, NoReq)

Known(r, who) == [r EXCEPT !.at = "known", !.who = who, !.share = 0, !.sound = @ \cap {who}]

\* authenticate: the session first, then the share token.
AuthenticateSession(q) ==
  /\ req[q].at = "arrived"
  /\ Step(q, IF SessionValid(req[q].session) THEN Known(req[q], "admin")
                                             ELSE [req[q] EXCEPT !.at = "stranger"])

AuthenticateShare(q) ==
  /\ req[q].at = "stranger"
  /\ IF ShareValid(req[q].share) THEN Step(q, Known(req[q], "share"))
                                 ELSE Refuse(q)

\* authorizeShareScope and csrf.
InScope(r) == r.who = "share" => r.op = "inventory"

Admit(q) ==
  LET r == req[q] IN
  /\ r.at = "known"
  /\ IF InScope(r) /\ (r.op \in Reads \/ (r.who # "share" /\ ValidateCSRF(r.session, r.csrf)))
     THEN Step(q, [r EXCEPT !.at = "admitted", !.csrf = 0])
     ELSE Refuse(q)

\* The handlers.  "inventory" and "settings" touch nothing kept here.
Done(q) == req' = [req EXCEPT ![q] = NoReq]

Serve(q) ==
  /\ req[q].at = "admitted"
  /\ req[q].op \in Reads
  /\ Done(q)
  /\ UNCHANGED <<now, sessions, logins, shares, created, jar>>

\* The cookie is cleared whether or not the row could be deleted.
Logout(q) ==
  /\ req[q].at = "admitted"
  /\ req[q].op = "logout"
  /\ Done(q)
  /\ sessions' \in {sessions, [sessions EXCEPT ![req[q].session] = Gone]}
  /\ jar' = [jar EXCEPT ![req[q].from].session = 0]
  /\ UNCHANGED <<now, logins, shares, created>>

CreateShare(q, expires) ==
  /\ req[q].at = "admitted"
  /\ req[q].op = "create"
  /\ created < MaxShare
  /\ expires = Never \/ expires > now
  /\ created' = created + 1
  /\ shares' = [shares EXCEPT ![created + 1] = [expires |-> expires, revoked |-> FALSE]]
  /\ Done(q)
  /\ UNCHANGED <<now, sessions, logins, jar>>

\* Revoke of a share that is listed, once more or for the first time.
RevokeShare(q, i) ==
  /\ req[q].at = "admitted"
  /\ req[q].op = "revoke"
  /\ i <= created
  /\ shares' = [shares EXCEPT ![i].revoked = TRUE]
  /\ Done(q)
  /\ UNCHANGED <<now, sessions, logins, created, jar>>

\* The client goes away, or the handler answers with an error.
Drop(q) == req[q].at # "none" /\ Refuse(q)

Next ==
  \/ Tick
  \/ \E b \in Browsers : Login(b)
  \/ \E b \in Browsers, i \in Shares : AcceptShare(b, i)
  \/ \E q \in Requests, b \in Browsers, op \in Ops, csrf \in 0..MaxSession, i \in 0..MaxShare :
       Arrive(q, b, op, csrf, i)
  \/ \E q \in Requests :
       \/ AuthenticateSession(q) \/ AuthenticateShare(q) \/ Admit(q)
       \/ Serve(q) \/ Logout(q) \/ Drop(q)
       \/ \E t \in Expiries : CreateShare(q, t)
       \/ \E i \in Shares : RevokeShare(q, i)

Spec == Init /\ [][Next]_vars

-----------------------------------------------------------------------------
Admitted(q) == req[q].at = "admitted"

\* authenticate: what is served to an admin was asked for while the session was
\* neither over nor logged out, and to a share while it was neither over nor revoked.
ServedWasLive ==
  \A q \in Requests : Admitted(q) => req[q].who \in req[q].sound

\* DASHBOARDS.md:28: a share token reads the inventory, "and every write is refused".
SharesOnlyRead == \A q \in Requests : Admitted(q) /\ req[q].who = "share" => req[q].op = "inventory"
=============================================================================
