----------------------------- MODULE ServerProofs -----------------------------
(***************************************************************************)
(* Proofs about what the HTTP server does with requests: Access and Broker *)
(* for any number of browsers, requests, streams and scans, LoginLimiter   *)
(* for any number of clients.                                              *)
(***************************************************************************)
EXTENDS MCServer, Sequences, FiniteSetTheorems, TLAPS

-----------------------------------------------------------------------------
\* Access: what is issued, and what is asked for with it.

Kinds == {"admin", "share"}
Share == [expires : Nat, revoked : BOOLEAN]
Request == [at : {"none", "arrived", "stranger", "known", "admitted"}, from : Browsers \cup {""},
            op : Ops, session : 0..logins, csrf : 0..logins, share : 0..created,
            who : Kinds \cup {""}, sound : SUBSET Kinds]

AccessType ==
  /\ now \in Nat
  /\ sessions \in [Sessions -> Nat]
  /\ logins \in 0..MaxSession
  /\ shares \in [Shares -> Share]
  /\ created \in 0..MaxShare
  /\ jar \in [Browsers -> [session : 0..logins, share : 0..created]]
  /\ req \in [Requests -> Request]

\* What is valid now was valid when the request came: nothing becomes valid again.
SoundSoFar ==
  \A q \in Requests :
    /\ req[q].at \in {"arrived", "stranger"} =>
         /\ SessionValid(req[q].session) => "admin" \in req[q].sound
         /\ ShareValid(req[q].share) => "share" \in req[q].sound
    /\ req[q].at \in {"known", "admitted"} => req[q].who \in req[q].sound

AccessInv == AccessType /\ SoundSoFar /\ SharesOnlyRead

LEMMA Bounds ==
  MaxSession \in Nat /\ MaxShare \in Nat /\ TTL \in Nat /\ Expiries \subseteq Nat
  BY BoundsAssumption

LEMMA Ranges == ASSUME AccessType PROVE logins \in Nat /\ created \in Nat
  BY Bounds DEF AccessType

LEMMA NoReqType == ASSUME AccessType PROVE NoReq \in Request
<1>1. 0 \in 0..logins /\ 0 \in 0..created
  BY Ranges
<1> QED
  BY <1>1 DEF NoReq, Request, Ops

\* Credentials stay in range when more are issued.
LEMMA Widened ==
  ASSUME AccessType, logins' \in {logins, logins + 1}, created' \in {created, created + 1}
  PROVE  /\ \A q \in Requests : req[q] \in Request'
         /\ \A b \in Browsers : jar[b] \in [session : 0..logins', share : 0..created']
<1>1. 0..logins \subseteq 0..logins' /\ 0..created \subseteq 0..created'
  BY Ranges
<1>2. Request \subseteq Request'
  BY <1>1 DEF Request
<1>3. \A b \in Browsers : jar[b].session \in 0..logins /\ jar[b].share \in 0..created
                           /\ jar[b] = [session |-> jar[b].session, share |-> jar[b].share]
  BY DEF AccessType
<1> QED
  BY <1>1, <1>2, <1>3 DEF AccessType

LEMMA AccessInit == Init => AccessInv
<1> SUFFICES ASSUME Init PROVE AccessInv
  OBVIOUS
<1>1. None \in Share
  BY DEF None, Share, Never
<1>0. NoReq \in Request
  <2>1. 0 \in 0..logins /\ 0 \in 0..created
    BY DEF Init
  <2> QED
    BY <2>1 DEF NoReq, Request, Ops
<1>2. AccessType
  BY <1>0, <1>1, Bounds DEF Init, AccessType, Gone
<1> QED
  BY <1>2 DEF Init, AccessInv, SoundSoFar, SharesOnlyRead, Admitted, NoReq

\* One request moves: what is left to show is about that request.
LEMMA OneRequest ==
  ASSUME AccessInv, NEW q \in Requests, NEW r \in Request,
         req' = [req EXCEPT ![q] = r],
         UNCHANGED <<now, sessions, logins, shares, created, jar>>,
         r.at \in {"arrived", "stranger"} =>
           /\ SessionValid(r.session) => "admin" \in r.sound
           /\ ShareValid(r.share) => "share" \in r.sound,
         r.at \in {"known", "admitted"} => r.who \in r.sound,
         r.at = "admitted" /\ r.who = "share" => r.op = "inventory"
  PROVE  AccessInv'
<1>1. req'[q] = r /\ \A p \in Requests \ {q} : req'[p] = req[p]
  BY DEF AccessInv, AccessType
<1>2. AccessType'
  BY DEF AccessInv, AccessType, Request
<1>3. \A s, i : (SessionValid(s)' <=> SessionValid(s)) /\ (ShareValid(i)' <=> ShareValid(i))
  BY DEF SessionValid, ShareValid
<1>4. SoundSoFar'
  BY <1>1, <1>3 DEF AccessInv, SoundSoFar
<1>5. SharesOnlyRead'
  BY <1>1 DEF AccessInv, SharesOnlyRead, Admitted
<1> QED
  BY <1>2, <1>4, <1>5 DEF AccessInv

\* Requests rest or are over: what is left to show is that nothing became valid.
LEMMA NothingRevives ==
  ASSUME AccessInv, AccessType',
         \A q \in Requests : req'[q] = req[q] \/ req'[q] = NoReq,
         \A s \in 1..logins : SessionValid(s)' => SessionValid(s),
         \A i \in 1..created : ShareValid(i)' => ShareValid(i)
  PROVE  AccessInv'
<1>1. \A q \in Requests : req[q].session \in 0..logins /\ req[q].share \in 0..created
  BY DEF AccessInv, AccessType, Request
<1>2. ~SessionValid(0)' /\ ~ShareValid(0)'
  BY DEF SessionValid, ShareValid
<1>3. \A s \in 0..logins : SessionValid(s)' => SessionValid(s)
  BY <1>2, Ranges DEF AccessInv
<1>4. \A i \in 0..created : ShareValid(i)' => ShareValid(i)
  BY <1>2, Ranges DEF AccessInv
<1>5. NoReq.at = "none"
  BY DEF NoReq
<1>6. SoundSoFar'
  <2> SUFFICES ASSUME NEW q \in Requests
               PROVE  /\ req'[q].at \in {"arrived", "stranger"} =>
                           /\ SessionValid(req[q].session)' => "admin" \in req'[q].sound
                           /\ ShareValid(req[q].share)' => "share" \in req'[q].sound
                      /\ req'[q].at \in {"known", "admitted"} => req'[q].who \in req'[q].sound
    BY DEF SoundSoFar
  <2>1. CASE req'[q] = NoReq
    BY <2>1, <1>5
  <2>2. CASE req'[q] = req[q]
    BY <2>2, <1>1, <1>3, <1>4 DEF AccessInv, SoundSoFar, SessionValid, ShareValid
  <2> QED
    BY <2>1, <2>2
<1>7. SharesOnlyRead'
  BY <1>5 DEF AccessInv, SharesOnlyRead, Admitted
<1> QED
  BY <1>6, <1>7 DEF AccessInv

-----------------------------------------------------------------------------
\* One step of a request.

LEMMA RequestFields ==
  ASSUME AccessInv, NEW q \in Requests
  PROVE  /\ req[q] \in Request
         /\ req[q].session \in 0..logins
         /\ req[q].share \in 0..created
  BY DEF AccessInv, AccessType, Request

LEMMA RefuseKeeps == ASSUME AccessInv, NEW q \in Requests, Refuse(q) PROVE AccessInv'
<1>1. NoReq \in Request
  BY NoReqType DEF AccessInv
<1>2. NoReq.at = "none"
  BY DEF NoReq
<1> QED
  BY <1>1, <1>2, OneRequest DEF Refuse, Step

LEMMA ArriveKeeps ==
  ASSUME AccessInv, NEW q \in Requests, NEW b \in Browsers, NEW op \in Ops,
         NEW csrf \in 0..MaxSession, NEW i \in 0..MaxShare, Arrive(q, b, op, csrf, i)
  PROVE  AccessInv'
<1> DEFINE s == jar[b].session
           share == IF jar[b].share # 0 THEN jar[b].share ELSE i
           sound == {who \in {"admin", "share"} :
                       IF who = "admin" THEN s # 0 /\ sessions[s] > now
                       ELSE /\ share # 0
                            /\ ~shares[share].revoked
                            /\ shares[share].expires = Never \/ shares[share].expires > now}
           r == [at |-> "arrived", from |-> b, op |-> op, session |-> s, csrf |-> csrf,
                 share |-> share, who |-> "", sound |-> sound]
<1>1. logins \in Nat /\ created \in Nat /\ csrf \in Nat /\ i \in Nat
  BY Ranges, Bounds DEF AccessInv
<1>2. jar[b].session \in 0..logins /\ jar[b].share \in 0..created
  BY DEF AccessInv, AccessType
<1>3. csrf \in 0..logins
  <2>1. csrf <= logins
    BY DEF Arrive
  <2> QED
    BY <1>1, <2>1
<1>4. share \in 0..created
  <2>1. i <= IF jar[b].share # 0 THEN 0 ELSE created
    BY DEF Arrive
  <2> QED
    BY <1>1, <1>2, <2>1
<1>5. req' = [req EXCEPT ![q] = r]
  BY DEF Arrive
<1>6. sound \in SUBSET Kinds
  BY DEF Kinds
<1> HIDE DEF sound
<1>7. s \in 0..logins
  BY <1>2
<1>8. r \in Request
  <2> HIDE DEF s, share
  <2> QED
    BY <1>3, <1>4, <1>6, <1>7 DEF Request
<1>9. /\ r.at = "arrived"
      /\ r.session = s
      /\ r.share = share
      /\ r.sound = sound
  OBVIOUS
<1> HIDE DEF r
<1>10. SessionValid(s) => "admin" \in sound
  BY DEF SessionValid, sound
<1>11. ShareValid(share) => "share" \in sound
  BY DEF ShareValid, sound
<1>12. UNCHANGED <<now, sessions, logins, shares, created, jar>>
  BY DEF Arrive
<1> QED
  BY <1>5, <1>8, <1>9, <1>10, <1>11, <1>12, OneRequest

\* What the request still has of its credentials, once it is known.
LEMMA KnownType ==
  ASSUME AccessInv, NEW r \in Request, NEW who \in Kinds
  PROVE  /\ Known(r, who) \in Request
         /\ Known(r, who).at = "known"
         /\ Known(r, who).who = who
         /\ who \in r.sound => who \in Known(r, who).sound
<1>1. 0 \in 0..created
  BY Ranges DEF AccessInv
<1>2. r.sound \cap {who} \in SUBSET Kinds
  BY DEF Request
<1>3. Known(r, who) \in Request
  <2>1. [r EXCEPT !.at = "known"] \in Request
    BY DEF Request
  <2>2. [r EXCEPT !.at = "known", !.who = who] \in Request
    BY <2>1 DEF Request, Kinds
  <2>3. [r EXCEPT !.at = "known", !.who = who, !.share = 0] \in Request
    BY <1>1, <2>2 DEF Request
  <2> QED
    BY <1>2, <2>3 DEF Request, Known
<1>4. /\ Known(r, who).at = "known"
      /\ Known(r, who).who = who
      /\ Known(r, who).sound = r.sound \cap {who}
  BY DEF Known, Request
<1> QED
  BY <1>3, <1>4

LEMMA AuthenticateSessionKeeps ==
  ASSUME AccessInv, NEW q \in Requests, AuthenticateSession(q) PROVE AccessInv'
<1> DEFINE stranger == [req[q] EXCEPT !.at = "stranger"]
<1>1. req[q] \in Request
  BY RequestFields
<1>2. req[q].at = "arrived"
  BY DEF AuthenticateSession
<1>3. /\ SessionValid(req[q].session) => "admin" \in req[q].sound
      /\ ShareValid(req[q].share) => "share" \in req[q].sound
  BY <1>2 DEF AccessInv, SoundSoFar
<1>4. CASE SessionValid(req[q].session)
  <2>1. Step(q, Known(req[q], "admin"))
    BY <1>4 DEF AuthenticateSession
  <2>2. "admin" \in Kinds
    BY DEF Kinds
  <2>3. /\ Known(req[q], "admin") \in Request
        /\ Known(req[q], "admin").at = "known"
        /\ Known(req[q], "admin").who = "admin"
        /\ "admin" \in Known(req[q], "admin").sound
    BY <1>1, <1>3, <1>4, <2>2, KnownType
  <2> HIDE DEF Known
  <2> QED
    BY <2>1, <2>3, OneRequest DEF Step
<1>5. CASE ~SessionValid(req[q].session)
  <2>1. Step(q, stranger)
    BY <1>5 DEF AuthenticateSession
  <2>3. /\ stranger \in Request
        /\ stranger.at = "stranger"
        /\ stranger.session = req[q].session
        /\ stranger.share = req[q].share
        /\ stranger.sound = req[q].sound
    BY <1>1 DEF Request
  <2> HIDE DEF stranger
  <2>4. /\ SessionValid(stranger.session) => "admin" \in stranger.sound
        /\ ShareValid(stranger.share) => "share" \in stranger.sound
    BY <1>3, <2>3
  <2> QED
    BY <2>1, <2>3, <2>4, OneRequest DEF Step
<1> QED
  BY <1>4, <1>5

LEMMA AuthenticateShareKeeps ==
  ASSUME AccessInv, NEW q \in Requests, AuthenticateShare(q) PROVE AccessInv'
<1>1. req[q] \in Request
  BY RequestFields
<1>2. req[q].at = "stranger"
  BY DEF AuthenticateShare
<1>3. ShareValid(req[q].share) => "share" \in req[q].sound
  BY <1>2 DEF AccessInv, SoundSoFar
<1>4. CASE ShareValid(req[q].share)
  <2>1. Step(q, Known(req[q], "share"))
    BY <1>4 DEF AuthenticateShare
  <2>2. "share" \in Kinds
    BY DEF Kinds
  <2>3. /\ Known(req[q], "share") \in Request
        /\ Known(req[q], "share").at = "known"
        /\ Known(req[q], "share").who = "share"
        /\ "share" \in Known(req[q], "share").sound
    BY <1>1, <1>3, <1>4, <2>2, KnownType
  <2> HIDE DEF Known
  <2> QED
    BY <2>1, <2>3, OneRequest DEF Step
<1>5. CASE ~ShareValid(req[q].share)
  BY <1>5, RefuseKeeps DEF AuthenticateShare
<1> QED
  BY <1>4, <1>5

LEMMA AdmitKeeps ==
  ASSUME AccessInv, NEW q \in Requests, Admit(q) PROVE AccessInv'
<1> DEFINE admitted == [req[q] EXCEPT !.at = "admitted", !.csrf = 0]
<1>1. req[q] \in Request /\ 0 \in 0..logins
  BY RequestFields, Ranges DEF AccessInv
<1>2. req[q].at = "known"
  BY DEF Admit
<1>3. req[q].who \in req[q].sound
  BY <1>2 DEF AccessInv, SoundSoFar
<1>4. CASE Refuse(q)
  BY <1>4, RefuseKeeps
<1>5. CASE InScope(req[q]) /\ Step(q, admitted)
  <2>1. [req[q] EXCEPT !.at = "admitted"] \in Request
    BY <1>1 DEF Request
  <2>2. /\ admitted \in Request
        /\ admitted.at = "admitted"
        /\ admitted.who \in admitted.sound
        /\ admitted.who = "share" => admitted.op = "inventory"
    BY <1>1, <1>3, <1>5, <2>1 DEF Request, InScope
  <2> HIDE DEF admitted
  <2> QED
    BY <1>5, <2>2, OneRequest DEF Step
<1> QED
  BY <1>4, <1>5 DEF Admit

-----------------------------------------------------------------------------
\* The clock, and what issues and revokes.

LEMMA TickKeeps == ASSUME AccessInv, Tick PROVE AccessInv'
<1>1. AccessType'
  <2>1. now' \in Nat
    BY DEF Tick, AccessInv, AccessType
  <2>2. UNCHANGED <<sessions, logins, shares, created, jar, req>>
    BY DEF Tick
  <2> QED
    BY <2>1, <2>2 DEF AccessInv, AccessType, Request
<1>2. now \in Nat /\ now' = now + 1 /\ UNCHANGED <<sessions, shares>>
  BY DEF Tick, AccessInv, AccessType
<1>3. sessions \in [Sessions -> Nat] /\ shares \in [Shares -> Share] /\ logins \in 0..MaxSession /\ created \in 0..MaxShare
  BY DEF AccessInv, AccessType
<1>4. \A s \in 1..logins : SessionValid(s)' => SessionValid(s)
  <2> TAKE s \in 1..logins
  <2>1. s \in Sessions
    BY <1>3, Bounds DEF Sessions
  <2>2. sessions[s] \in Nat
    BY <1>3, <2>1
  <2> QED
    BY <1>2, <2>2 DEF SessionValid
<1>5. \A i \in 1..created : ShareValid(i)' => ShareValid(i)
  <2> TAKE i \in 1..created
  <2>1. i \in Shares
    BY <1>3, Bounds DEF Shares
  <2>2. shares[i].expires \in Nat
    BY <1>3, <2>1 DEF Share
  <2> QED
    BY <1>2, <2>2 DEF ShareValid
<1>6. \A q \in Requests : req'[q] = req[q]
  BY DEF Tick
<1> QED
  BY <1>1, <1>4, <1>5, <1>6, NothingRevives

\* A session is new: no request carries it.
LEMMA LoginKeeps == ASSUME AccessInv, NEW b \in Browsers, Login(b) PROVE AccessInv'
<1>1. /\ logins \in Nat /\ logins + 1 \in Sessions /\ now + TTL \in Nat
      /\ logins' = logins + 1 /\ created' = created /\ logins' \in 0..MaxSession
      /\ sessions' = [sessions EXCEPT ![logins + 1] = now + TTL]
  BY Ranges, Bounds DEF Login, AccessInv, AccessType, Sessions
<1>2. /\ \A q \in Requests : req[q] \in Request'
      /\ \A c \in Browsers : jar[c] \in [session : 0..logins', share : 0..created']
  BY <1>1, Widened DEF AccessInv
<1>3. jar' \in [Browsers -> [session : 0..logins', share : 0..created']]
  <2>1. logins + 1 \in 0..logins'
    BY <1>1
  <2>2. jar \in [Browsers -> [session : 0..logins', share : 0..created']]
    BY <1>2 DEF AccessInv, AccessType
  <2> QED
    BY <2>1, <2>2 DEF Login
<1>4. req' \in [Requests -> Request']
  BY <1>2 DEF Login, AccessInv, AccessType
<1>5. AccessType'
  BY <1>1, <1>3, <1>4 DEF Login, AccessInv, AccessType
<1>6. \A s \in 1..logins : SessionValid(s)' => SessionValid(s)
  <2> TAKE s \in 1..logins
  <2>1. s # logins + 1
    BY <1>1
  <2>2. sessions'[s] = sessions[s]
    BY <1>1, <2>1 DEF AccessInv, AccessType
  <2>3. now' = now
    BY DEF Login
  <2> QED
    BY <2>2, <2>3 DEF SessionValid
<1>7. \A i \in 1..created : ShareValid(i)' => ShareValid(i)
  BY DEF Login, ShareValid
<1>8. \A q \in Requests : req'[q] = req[q]
  BY DEF Login
<1> QED
  BY <1>5, <1>6, <1>7, <1>8, NothingRevives

LEMMA AcceptShareKeeps ==
  ASSUME AccessInv, NEW b \in Browsers, NEW i \in Shares, AcceptShare(b, i) PROVE AccessInv'
<1>1. i \in 0..created
  BY Ranges, Bounds DEF AcceptShare, Shares, AccessInv
<1>2. UNCHANGED <<now, sessions, logins, shares, created, req>>
  BY DEF AcceptShare
<1>3. jar' \in [Browsers -> [session : 0..logins, share : 0..created]]
  BY <1>1 DEF AcceptShare, AccessInv, AccessType
<1>4. AccessType'
  BY <1>2, <1>3 DEF AccessInv, AccessType, Request
<1>5. \A s \in 1..logins : SessionValid(s)' => SessionValid(s)
  BY <1>2 DEF SessionValid
<1>6. \A j \in 1..created : ShareValid(j)' => ShareValid(j)
  BY <1>2 DEF ShareValid
<1> QED
  BY <1>2, <1>4, <1>5, <1>6, NothingRevives

\* A handler is done with its request.
LEMMA DoneRequests ==
  ASSUME AccessInv, NEW q \in Requests, Done(q)
  PROVE  /\ \A p \in Requests : req'[p] = req[p] \/ req'[p] = NoReq
         /\ req' \in [Requests -> Request]
<1>1. NoReq \in Request
  BY NoReqType DEF AccessInv
<1> QED
  BY <1>1 DEF Done, AccessInv, AccessType

LEMMA ServeKeeps == ASSUME AccessInv, NEW q \in Requests, Serve(q) PROVE AccessInv'
<1>1. Done(q) /\ UNCHANGED <<now, sessions, logins, shares, created, jar>>
  BY DEF Serve
<1>2. /\ \A p \in Requests : req'[p] = req[p] \/ req'[p] = NoReq
      /\ req' \in [Requests -> Request]
  BY <1>1, DoneRequests
<1>3. AccessType'
  BY <1>1, <1>2 DEF AccessInv, AccessType, Request
<1>4. \A s \in 1..logins : SessionValid(s)' => SessionValid(s)
  BY <1>1 DEF SessionValid
<1>5. \A j \in 1..created : ShareValid(j)' => ShareValid(j)
  BY <1>1 DEF ShareValid
<1> QED
  BY <1>2, <1>3, <1>4, <1>5, NothingRevives

LEMMA LogoutKeeps == ASSUME AccessInv, NEW q \in Requests, Logout(q) PROVE AccessInv'
<1>1. Done(q) /\ UNCHANGED <<now, logins, shares, created>>
  BY DEF Logout
<1>2. /\ \A p \in Requests : req'[p] = req[p] \/ req'[p] = NoReq
      /\ req' \in [Requests -> Request]
  BY <1>1, DoneRequests
<1>3. sessions' \in [Sessions -> Nat] /\ \A s \in Sessions : sessions'[s] \in {sessions[s], Gone}
  BY DEF Logout, AccessInv, AccessType, Gone
<1>4. jar' \in [Browsers -> [session : 0..logins, share : 0..created]]
  <2>1. 0 \in 0..logins
    BY Ranges DEF AccessInv
  <2> QED
    BY <2>1, ZenonT(60) DEF Logout, AccessInv, AccessType
<1>5. AccessType'
  BY <1>1, <1>2, <1>3, <1>4 DEF AccessInv, AccessType, Request
<1>6. \A s \in 1..logins : SessionValid(s)' => SessionValid(s)
  <2> TAKE s \in 1..logins
  <2>1. s \in Sessions
    BY Bounds DEF AccessInv, AccessType, Sessions
  <2> QED
    BY <1>1, <1>3, <2>1 DEF SessionValid
<1>7. \A j \in 1..created : ShareValid(j)' => ShareValid(j)
  BY <1>1 DEF ShareValid
<1> QED
  BY <1>2, <1>5, <1>6, <1>7, NothingRevives

LEMMA CreateShareKeeps ==
  ASSUME AccessInv, NEW q \in Requests, NEW t \in Expiries, CreateShare(q, t) PROVE AccessInv'
<1>1. Done(q) /\ UNCHANGED <<now, sessions, logins, jar>>
  BY DEF CreateShare
<1>2. /\ \A p \in Requests : req'[p] = req[p] \/ req'[p] = NoReq
      /\ req' \in [Requests -> Request]
  BY <1>1, DoneRequests
<1>3. /\ created \in Nat /\ created + 1 \in Shares
      /\ created' = created + 1 /\ created' \in 0..MaxShare
      /\ shares' = [shares EXCEPT ![created + 1] = [expires |-> t, revoked |-> FALSE]]
  BY Ranges, Bounds DEF CreateShare, AccessInv, AccessType, Shares
<1>4. shares' \in [Shares -> Share]
  BY <1>3, Bounds DEF AccessInv, AccessType, Share
<1>5. 0..created \subseteq 0..created' /\ logins' = logins
  BY <1>1, <1>3
<1>6. Request \subseteq Request'
  BY <1>5 DEF Request
<1>7. req' \in [Requests -> Request']
  BY <1>2, <1>6
<1>8. /\ \A c \in Browsers : jar[c] \in [session : 0..logins', share : 0..created']
  BY <1>3, <1>5, Widened DEF AccessInv
<1>9. jar' \in [Browsers -> [session : 0..logins', share : 0..created']]
  BY <1>1, <1>8 DEF AccessInv, AccessType
<1>10. AccessType'
  BY <1>1, <1>3, <1>4, <1>7, <1>9 DEF AccessInv, AccessType
<1>11. \A s \in 1..logins : SessionValid(s)' => SessionValid(s)
  BY <1>1 DEF SessionValid
<1>12. \A j \in 1..created : ShareValid(j)' => ShareValid(j)
  <2> TAKE j \in 1..created
  <2>1. j # created + 1
    BY <1>3
  <2>2. shares'[j] = shares[j]
    BY <1>3, <2>1 DEF AccessInv, AccessType
  <2> QED
    BY <1>1, <2>2 DEF ShareValid
<1> QED
  BY <1>2, <1>10, <1>11, <1>12, NothingRevives

LEMMA RevokeShareKeeps ==
  ASSUME AccessInv, NEW q \in Requests, NEW i \in Shares, RevokeShare(q, i) PROVE AccessInv'
<1>1. Done(q) /\ UNCHANGED <<now, sessions, logins, created, jar>>
  BY DEF RevokeShare
<1>2. /\ \A p \in Requests : req'[p] = req[p] \/ req'[p] = NoReq
      /\ req' \in [Requests -> Request]
  BY <1>1, DoneRequests
<1>3. shares' \in [Shares -> Share]
  BY DEF RevokeShare, AccessInv, AccessType, Share
<1>4. \A j \in Shares : shares'[j] = shares[j] \/ shares'[j].revoked
  BY DEF RevokeShare, AccessInv, AccessType, Share
<1>5. AccessType'
  BY <1>1, <1>2, <1>3 DEF AccessInv, AccessType, Request
<1>6. \A s \in 1..logins : SessionValid(s)' => SessionValid(s)
  BY <1>1 DEF SessionValid
<1>7. \A j \in 1..created : ShareValid(j)' => ShareValid(j)
  <2> TAKE j \in 1..created
  <2>1. j \in Shares
    BY Bounds DEF AccessInv, AccessType, Shares
  <2> QED
    BY <1>1, <1>4, <2>1 DEF ShareValid
<1> QED
  BY <1>2, <1>5, <1>6, <1>7, NothingRevives

-----------------------------------------------------------------------------

LEMMA AccessStep == AccessInv /\ [Next]_vars => AccessInv'
<1> SUFFICES ASSUME AccessInv, [Next]_vars PROVE AccessInv'
  OBVIOUS
<1>1. CASE Tick
  BY <1>1, TickKeeps
<1>2. CASE \E b \in Browsers : Login(b)
  BY <1>2, LoginKeeps
<1>3. CASE \E b \in Browsers, i \in Shares : AcceptShare(b, i)
  BY <1>3, AcceptShareKeeps
<1>4. CASE \E q \in Requests, b \in Browsers, op \in Ops, csrf \in 0..MaxSession, i \in 0..MaxShare :
             Arrive(q, b, op, csrf, i)
  BY <1>4, ArriveKeeps
<1>5. ASSUME NEW q \in Requests,
             \/ AuthenticateSession(q) \/ AuthenticateShare(q) \/ Admit(q)
             \/ Serve(q) \/ Logout(q) \/ Drop(q)
             \/ \E t \in Expiries : CreateShare(q, t)
             \/ \E i \in Shares : RevokeShare(q, i)
      PROVE AccessInv'
  <2>1. CASE AuthenticateSession(q)
    BY <2>1, AuthenticateSessionKeeps
  <2>2. CASE AuthenticateShare(q)
    BY <2>2, AuthenticateShareKeeps
  <2>3. CASE Admit(q)
    BY <2>3, AdmitKeeps
  <2>4. CASE Serve(q)
    BY <2>4, ServeKeeps
  <2>5. CASE Logout(q)
    BY <2>5, LogoutKeeps
  <2>6. CASE Drop(q)
    BY <2>6, RefuseKeeps DEF Drop
  <2>7. CASE \E t \in Expiries : CreateShare(q, t)
    BY <2>7, CreateShareKeeps
  <2>8. CASE \E i \in Shares : RevokeShare(q, i)
    BY <2>8, RevokeShareKeeps
  <2> QED
    BY <1>5, <2>1, <2>2, <2>3, <2>4, <2>5, <2>6, <2>7, <2>8
<1>6. CASE UNCHANGED vars
  <2>1. UNCHANGED <<now, sessions, logins, shares, created, jar, req>>
    BY <1>6 DEF vars
  <2> QED
    BY <2>1 DEF AccessInv, AccessType, Request, SoundSoFar, SharesOnlyRead, Admitted,
                SessionValid, ShareValid
<1> QED
  BY <1>1, <1>2, <1>3, <1>4, <1>5, <1>6 DEF Next

\* authenticate, authorizeShareScope, csrf: whom a request is taken for past each link of the
\* chain is whom its cookies proved to a lookup made while it was answered.
THEOREM AccessCorrect == Spec => []AccessInv
BY AccessInit, AccessStep, PTL DEF Spec

\* The run's specification moves one part at a time: for Access it is Access!Spec.
LEMMA PartsMoveAccess == PartsSpec => Spec
<1>1. PartsInit => Init
  BY DEF PartsInit
<1>2. [PartsNext]_<<part, vars, limiter, address, broker>> => [Next]_vars
  <2> SUFFICES ASSUME [PartsNext]_<<part, vars, limiter, address, broker>>, vars' # vars
               PROVE  Next
    OBVIOUS
  <2> QED
    BY DEF PartsNext
<1> QED
  BY <1>1, <1>2, PTL DEF PartsSpec, Spec

\* authenticate, authorizeShareScope (ServedRightly): who is served is who the request could
\* prove to be while it was being answered, and a share is served the inventory alone,
\* for any number of browsers, requests, logins, shares and ticks between the reads.
THEOREM OnlyTheLivingAreServed == PartsSpec => []ServedRightly
<1>1. AccessInv => ServedRightly
  BY DEF AccessInv, SoundSoFar, ServedRightly, ServedWasLive, Admitted
<1> QED
  BY <1>1, AccessCorrect, PartsMoveAccess, PTL

-----------------------------------------------------------------------------
\* Broker: who is sent to, and what is due.

BrokerType ==
  /\ clients \subseteq Streams
  /\ channel \in [Streams -> Seq(Publishers \X Nat)]
  /\ readers \subseteq Publishers
  /\ waiting \subseteq Publishers
  /\ todo \in [Publishers -> SUBSET Streams]
  /\ sent \in [Publishers -> Nat]
  /\ IsFiniteSet(taken)

\* The read lock keeps the map as it is while a publisher ranges over it.
LockedRange ==
  /\ clients \cap closed = {}
  /\ said \subseteq clients \cup closed
  /\ \A p \in Publishers :
       /\ todo[p] \subseteq clients
       /\ p \notin readers => todo[p] = {}

\* Who asks for the write lock is over, or has yet to begin; who waits for the read lock
\* does not hold it.
InLine ==
  /\ locking \cap closed = {}
  /\ locking \cap clients \subseteq leaving
  /\ waiting \cap readers = {}

\* Whoever is due an event has it, had no room for it, or is about to be sent it.
DueIsSent ==
  \A p \in Publishers, n \in Nat, s \in Streams :
    <<<<p, n>>, s>> \in due =>
      /\ n <= sent[p]
      /\ \/ <<<<p, n>>, s>> \in taken \cup full
         \/ n = sent[p] /\ s \in todo[p]

\* An event that has yet to be sent to a channel was not put in it before.
TakenOnce ==
  \A p \in Publishers, n \in Nat, s \in Streams :
    <<<<p, n>>, s>> \in taken =>
      /\ n <= sent[p]
      /\ n = sent[p] => s \notin todo[p] /\ p \notin waiting

TakenBy(s) == {x \in taken : x[2] = s}

\* What lies in a channel was put there, and so it was when an event found it full.
RoomIsTaken ==
  /\ \A s \in Streams : Len(channel[s]) <= Cardinality(TakenBy(s))
  /\ \A lost \in full : Capacity <= Cardinality(TakenBy(lost[2]))

BrokerInv == BrokerType /\ LockedRange /\ InLine /\ DueIsSent /\ TakenOnce /\ RoomIsTaken /\ ~panicked

LEMMA SameCount == \A S : B!Cardinality(S) = Cardinality(S)
BY DEF B!Cardinality, Cardinality

LEMMA BrokerInit == B!Init => BrokerInv
<1> SUFFICES ASSUME B!Init PROVE BrokerInv
  OBVIOUS
<1>1. /\ taken = {} /\ full = {} /\ due = {} /\ channel = [s \in Streams |-> <<>>]
      /\ clients = {} /\ closed = {} /\ said = {} /\ locking = {} /\ waiting = {} /\ readers = {}
      /\ todo = [p \in Publishers |-> {}] /\ sent = [p \in Publishers |-> 0]
  BY DEF B!Init
<1>2. ~panicked
  BY DEF B!Init
<1>3. BrokerType
  <2>1. IsFiniteSet(taken)
    BY <1>1, FS_EmptySet
  <2> QED
    BY <1>1, <2>1 DEF BrokerType
<1>4. RoomIsTaken
  <2>1. \A s \in Streams : TakenBy(s) = {} /\ Len(channel[s]) = 0
    BY <1>1 DEF TakenBy
  <2> QED
    BY <1>1, <2>1, FS_EmptySet DEF RoomIsTaken
<1>5. LockedRange /\ InLine
  BY <1>1 DEF LockedRange, InLine
<1>6. DueIsSent /\ TakenOnce
  BY <1>1 DEF DueIsSent, TakenOnce
<1> QED
  BY <1>2, <1>3, <1>4, <1>5, <1>6 DEF BrokerInv

\* A step that sends nothing leaves what is in the channels, or was, alone.
LEMMA RoomRests ==
  ASSUME RoomIsTaken, UNCHANGED <<taken, full>>,
         \A s \in Streams : channel'[s] = channel[s]
  PROVE  RoomIsTaken'
BY DEF RoomIsTaken, TakenBy

\* What is about to be sent, once publishers ps have the lock while the map is cs.
LEMMA AcquireKeeps ==
  ASSUME BrokerInv, NEW ps \in SUBSET Publishers, NEW cs \in SUBSET Streams, B!Acquire(ps, cs),
         sent' \in [Publishers -> Nat],
         \A p \in ps : p \notin readers,
         \A p \in Publishers : sent'[p] = sent[p] \/ (p \in ps /\ sent'[p] = sent[p] + 1),
         \A p \in ps : p \in waiting \/ sent'[p] = sent[p] + 1,
         waiting' \subseteq waiting \ ps,
         readers = {} \/ cs = clients,
         said \ (leaving \cup closed) \subseteq cs,
         UNCHANGED <<taken, full>>
  PROVE  /\ todo' \in [Publishers -> SUBSET Streams]
         /\ readers' \subseteq Publishers
         /\ \A p \in Publishers : todo'[p] \subseteq cs /\ (p \notin readers' => todo'[p] = {})
         /\ DueIsSent' /\ TakenOnce'
<1>1. /\ readers' = readers \cup ps
      /\ todo' = [p \in Publishers |-> IF p \in ps THEN cs ELSE todo[p]]
      /\ due' = due \cup {<<<<p, sent'[p]>>, s>> : p \in ps, s \in said \ (leaving \cup closed)}
  BY DEF B!Acquire
<1>2. todo' \in [Publishers -> SUBSET Streams] /\ readers' \subseteq Publishers
  BY <1>1 DEF BrokerInv, BrokerType
<1>3. \A p \in Publishers : todo'[p] \subseteq cs /\ (p \notin readers' => todo'[p] = {})
  BY <1>1 DEF BrokerInv, LockedRange
<1>4. DueIsSent'
  <2> SUFFICES ASSUME NEW p \in Publishers, NEW n \in Nat, NEW s \in Streams,
                      <<<<p, n>>, s>> \in due'
               PROVE  /\ n <= sent'[p]
                      /\ \/ <<<<p, n>>, s>> \in taken \cup full
                         \/ n = sent'[p] /\ s \in todo'[p]
    BY DEF DueIsSent
  <2>0. sent[p] \in Nat /\ sent'[p] \in Nat
    BY DEF BrokerInv, BrokerType
  <2>1. CASE <<<<p, n>>, s>> \in due
    <3>1. n <= sent[p] /\ (<<<<p, n>>, s>> \in taken \cup full \/ (n = sent[p] /\ s \in todo[p]))
      BY <2>1 DEF BrokerInv, DueIsSent
    <3>2. p \in ps => todo[p] = {}
      BY DEF BrokerInv, LockedRange
    <3>3. p \notin ps => sent'[p] = sent[p] /\ todo'[p] = todo[p]
      BY <1>1, <2>0
    <3>4. n <= sent'[p]
      BY <3>1, <2>0
    <3> QED
      BY <3>1, <3>2, <3>3, <3>4
  <2>2. CASE <<<<p, n>>, s>> \notin due
    <3>1. p \in ps /\ n = sent'[p] /\ s \in said \ (leaving \cup closed)
      BY <2>2, <1>1
    <3> QED
      BY <3>1, <1>1, <2>0
  <2> QED
    BY <2>1, <2>2
<1>5. TakenOnce'
  <2> SUFFICES ASSUME NEW p \in Publishers, NEW n \in Nat, NEW s \in Streams,
                      <<<<p, n>>, s>> \in taken
               PROVE  n <= sent'[p] /\ (n = sent'[p] => s \notin todo'[p] /\ p \notin waiting')
    BY DEF TakenOnce
  <2>1. sent[p] \in Nat /\ sent'[p] \in Nat
    BY DEF BrokerInv, BrokerType
  <2>2. n <= sent[p] /\ (n = sent[p] => s \notin todo[p] /\ p \notin waiting)
    BY DEF BrokerInv, TakenOnce
  <2>3. CASE p \in ps
    <3>1. n < sent'[p]
      BY <2>1, <2>2, <2>3
    <3> QED
      BY <3>1, <2>1
  <2>4. CASE p \notin ps
    <3>1. sent'[p] = sent[p] /\ todo'[p] = todo[p]
      BY <2>4, <1>1
    <3> QED
      BY <3>1, <2>2
  <2> QED
    BY <2>3, <2>4
<1> QED
  BY <1>2, <1>3, <1>4, <1>5

LEMMA PublishKeeps ==
  ASSUME BrokerInv, NEW p \in Publishers, B!Publish(p) PROVE BrokerInv'
<1>1. /\ p \notin readers /\ p \notin waiting
      /\ sent' = [sent EXCEPT ![p] = @ + 1]
      /\ UNCHANGED <<clients, channel, closed, said, leaving, locking, taken, full>>
      /\ UNCHANGED panicked
  BY DEF B!Publish, B!Publishing
<1>2. /\ sent' \in [Publishers -> Nat] /\ sent'[p] = sent[p] + 1 /\ sent[p] \in Nat
      /\ \A o \in Publishers \ {p} : sent'[o] = sent[o]
  BY <1>1 DEF BrokerInv, BrokerType
<1>3. RoomIsTaken'
  BY <1>1, RoomRests DEF BrokerInv
<1>4. CASE locking = {}
  <2>1. B!Acquire({p}, clients) /\ waiting' = waiting
    BY <1>4 DEF B!Publish
  <2>2. said \ (leaving \cup closed) \subseteq clients /\ clients \subseteq Streams
    BY DEF BrokerInv, LockedRange, BrokerType
  <2>3. readers' = readers \cup {p}
    BY <2>1 DEF B!Acquire
  <2>4. /\ todo' \in [Publishers -> SUBSET Streams] /\ readers' \subseteq Publishers
        /\ \A o \in Publishers : todo'[o] \subseteq clients /\ (o \notin readers' => todo'[o] = {})
        /\ DueIsSent' /\ TakenOnce'
    BY <1>1, <1>2, <2>1, <2>2, AcquireKeeps
  <2>5. BrokerType' /\ InLine' /\ LockedRange'
    BY <1>1, <1>2, <2>1, <2>3, <2>4 DEF BrokerInv, BrokerType, InLine, LockedRange
  <2> QED
    BY <1>1, <1>3, <2>4, <2>5 DEF BrokerInv
<1>5. CASE locking # {}
  <2>1. waiting' = waiting \cup {p} /\ UNCHANGED <<readers, todo, due>>
    BY <1>5 DEF B!Publish
  <2>2. BrokerType' /\ InLine' /\ LockedRange'
    BY <1>1, <1>2, <2>1 DEF BrokerInv, BrokerType, InLine, LockedRange
  <2>3. todo[p] = {}
    BY <1>1 DEF BrokerInv, LockedRange
  <2>4. DueIsSent'
    <3> SUFFICES ASSUME NEW o \in Publishers, NEW n \in Nat, NEW s \in Streams, <<<<o, n>>, s>> \in due
                 PROVE  /\ n <= sent'[o]
                        /\ \/ <<<<o, n>>, s>> \in taken \cup full
                           \/ n = sent'[o] /\ s \in todo[o]
      BY <1>1, <2>1 DEF DueIsSent
    <3>1. n <= sent[o] /\ (<<<<o, n>>, s>> \in taken \cup full \/ (n = sent[o] /\ s \in todo[o]))
      BY DEF BrokerInv, DueIsSent
    <3> QED
      BY <3>1, <2>3, <1>2
  <2>5. TakenOnce'
    <3> SUFFICES ASSUME NEW o \in Publishers, NEW n \in Nat, NEW s \in Streams, <<<<o, n>>, s>> \in taken
                 PROVE  n <= sent'[o] /\ (n = sent'[o] => s \notin todo[o] /\ o \notin waiting')
      BY <1>1, <2>1 DEF TakenOnce
    <3>1. n <= sent[o] /\ (n = sent[o] => s \notin todo[o] /\ o \notin waiting)
      BY DEF BrokerInv, TakenOnce
    <3> QED
      BY <3>1, <2>1, <1>2
  <2> QED
    BY <1>1, <1>3, <2>2, <2>4, <2>5 DEF BrokerInv
<1> QED
  BY <1>4, <1>5

\* Subscribe and cancel: the map changes while nobody ranges over it, and those that waited
\* range over what it is then.
LEMMA UnlockKeeps ==
  ASSUME BrokerInv, NEW s \in Streams, B!Subscribe(s) \/ B!Unsubscribe(s) PROVE BrokerInv'
<1>1. /\ s \in locking /\ readers = {} /\ UNCHANGED sent
      /\ locking' = {} /\ waiting' = {} /\ B!Acquire(waiting, clients')
      /\ UNCHANGED <<channel, said, leaving, taken, full>> /\ UNCHANGED panicked
  BY DEF B!Subscribe, B!Unsubscribe, B!Unlock
<1>2. \/ clients' = clients \cup {s} /\ closed' = closed
      \/ clients' = clients \ {s} /\ closed' = closed \cup {s} /\ s \in clients
  BY DEF B!Subscribe, B!Unsubscribe
<1>3. /\ clients' \in SUBSET Streams /\ clients' \cap closed' = {} /\ said \subseteq clients' \cup closed'
      /\ said \ (leaving \cup closed) \subseteq clients'
  BY <1>1, <1>2 DEF BrokerInv, BrokerType, LockedRange, InLine
<1>4. waiting \in SUBSET Publishers /\ \A p \in waiting : p \notin readers
  BY <1>1 DEF BrokerInv, BrokerType
<1>5. sent' \in [Publishers -> Nat] /\ \A p \in Publishers : sent'[p] = sent[p]
  BY <1>1 DEF BrokerInv, BrokerType
<1>6. PICK cs \in SUBSET Streams : cs = clients'
  BY <1>3
<1>7. /\ todo' \in [Publishers -> SUBSET Streams] /\ readers' \subseteq Publishers
      /\ \A o \in Publishers : todo'[o] \subseteq cs /\ (o \notin readers' => todo'[o] = {})
      /\ DueIsSent' /\ TakenOnce'
  BY <1>1, <1>3, <1>4, <1>5, <1>6, AcquireKeeps
<1>8. BrokerType' /\ LockedRange' /\ InLine'
  BY <1>1, <1>3, <1>5, <1>6, <1>7 DEF BrokerInv, BrokerType, LockedRange, InLine
<1> QED
  BY <1>1, <1>7, <1>8, RoomRests DEF BrokerInv

LEMMA SendKeeps ==
  ASSUME BrokerInv, NEW p \in Publishers, NEW s \in Streams, B!Send(p, s) PROVE BrokerInv'
<1>1. /\ s \in todo[p]
      /\ todo' = [todo EXCEPT ![p] = @ \ {s}]
      /\ UNCHANGED <<clients, closed, said, leaving, locking, waiting, readers, sent, due>>
  BY DEF B!Send, B!lock
<1>2. \/ /\ Len(channel[s]) < Capacity
         /\ channel' = [channel EXCEPT ![s] = Append(@, <<p, sent[p]>>)]
         /\ taken' = taken \cup {<<<<p, sent[p]>>, s>>} /\ full' = full
      \/ /\ ~(Len(channel[s]) < Capacity)
         /\ full' = full \cup {<<<<p, sent[p]>>, s>>} /\ channel' = channel /\ taken' = taken
  BY DEF B!Send, B!Event
<1>3. s \notin closed
  BY <1>1 DEF BrokerInv, LockedRange
<1>4. ~panicked'
  BY <1>3 DEF B!Send, BrokerInv
<1>5. <<p, sent[p]>> \in Publishers \X Nat /\ channel[s] \in Seq(Publishers \X Nat)
  BY DEF BrokerInv, BrokerType
<1>6. BrokerType'
  <2>1. IsFiniteSet(taken')
    <3>1. IsFiniteSet(taken) /\ IsFiniteSet(taken \cup {<<<<p, sent[p]>>, s>>})
      BY FS_AddElement DEF BrokerInv, BrokerType
    <3> QED
      BY <3>1, <1>2
  <2>2. channel' \in [Streams -> Seq(Publishers \X Nat)]
    <3>1. channel \in [Streams -> Seq(Publishers \X Nat)]
      BY DEF BrokerInv, BrokerType
    <3>2. Append(channel[s], <<p, sent[p]>>) \in Seq(Publishers \X Nat)
      BY <1>5
    <3> QED
      BY <3>1, <3>2, <1>2
  <2> QED
    BY <1>1, <2>1, <2>2 DEF BrokerInv, BrokerType
<1>7. todo'[p] = todo[p] \ {s} /\ \A o \in Publishers \ {p} : todo'[o] = todo[o]
  BY <1>1 DEF BrokerInv, BrokerType
<1>8. LockedRange' /\ InLine'
  BY <1>1, <1>7 DEF BrokerInv, LockedRange, InLine
<1>9. DueIsSent'
  <2> SUFFICES ASSUME NEW o \in Publishers, NEW n \in Nat, NEW t \in Streams,
                      <<<<o, n>>, t>> \in due
               PROVE  /\ n <= sent[o]
                      /\ \/ <<<<o, n>>, t>> \in taken' \cup full'
                         \/ n = sent[o] /\ t \in todo'[o]
    BY <1>1 DEF DueIsSent
  <2>1. n <= sent[o] /\ (<<<<o, n>>, t>> \in taken \cup full \/ (n = sent[o] /\ t \in todo[o]))
    BY DEF BrokerInv, DueIsSent
  <2>2. CASE o = p /\ t = s
    BY <2>1, <2>2, <1>2
  <2>3. CASE ~(o = p /\ t = s)
    BY <2>1, <2>3, <1>2, <1>7
  <2> QED
    BY <2>2, <2>3
<1>10. TakenOnce'
  <2>1. p \in readers /\ p \notin waiting
    BY <1>1 DEF BrokerInv, LockedRange, InLine
  <2> SUFFICES ASSUME NEW o \in Publishers, NEW n \in Nat, NEW t \in Streams, <<<<o, n>>, t>> \in taken'
               PROVE  n <= sent[o] /\ (n = sent[o] => t \notin todo'[o] /\ o \notin waiting)
    BY <1>1 DEF TakenOnce
  <2>2. sent[o] \in Nat
    BY DEF BrokerInv, BrokerType
  <2>3. CASE <<<<o, n>>, t>> \in taken
    BY <2>3, <1>7 DEF BrokerInv, TakenOnce
  <2>4. CASE <<<<o, n>>, t>> \notin taken
    <3>1. o = p /\ n = sent[p] /\ t = s
      BY <2>4, <1>2
    <3> QED
      BY <3>1, <2>1, <2>2, <1>7
  <2> QED
    BY <2>3, <2>4
<1>11. RoomIsTaken'
  <2>1. \A t : IsFiniteSet(TakenBy(t)) /\ Cardinality(TakenBy(t)) \in Nat
    <3> TAKE t
    <3>1. TakenBy(t) \subseteq taken
      BY DEF TakenBy
    <3> QED
      BY <3>1, FS_Subset, FS_CardinalityType DEF BrokerInv, BrokerType
  <2>2. Len(channel[s]) \in Nat /\ Len(channel[s]) <= Cardinality(TakenBy(s))
    BY <1>5 DEF BrokerInv, RoomIsTaken
  <2>3. CASE taken' = taken
    <3>1. \A t : TakenBy(t)' = TakenBy(t)
      BY <2>3 DEF TakenBy
    <3>2. CASE channel' = channel /\ full' = full \cup {<<<<p, sent[p]>>, s>>} /\ ~(Len(channel[s]) < Capacity)
      <4>1. Capacity <= Cardinality(TakenBy(s))
        BY <3>2, <2>1, <2>2, BrokerAssumption
      <4>2. \A lost \in full' : Capacity <= Cardinality(TakenBy(lost[2]))
        BY <3>2, <4>1 DEF BrokerInv, RoomIsTaken
      <4>3. \A t \in Streams : Len(channel'[t]) <= Cardinality(TakenBy(t))
        BY <3>2 DEF BrokerInv, RoomIsTaken
      <4> QED
        BY <3>1, <4>2, <4>3 DEF RoomIsTaken
    <3>3. <<<<p, sent[p]>>, s>> \notin taken
      BY <1>1, <1>5 DEF BrokerInv, TakenOnce
    <3> QED
      BY <3>2, <3>3, <2>3, <1>2
  <2>4. CASE taken' # taken
    <3>1. /\ channel' = [channel EXCEPT ![s] = Append(@, <<p, sent[p]>>)]
          /\ taken' = taken \cup {<<<<p, sent[p]>>, s>>} /\ full' = full
      BY <2>4, <1>2
    <3>2. <<<<p, sent[p]>>, s>> \notin taken
      BY <1>1, <1>5 DEF BrokerInv, TakenOnce
    <3>3. TakenBy(s)' = TakenBy(s) \cup {<<<<p, sent[p]>>, s>>} /\ <<<<p, sent[p]>>, s>> \notin TakenBy(s)
      BY <3>1, <3>2 DEF TakenBy
    <3>4. PICK after : after = TakenBy(s)'
      OBVIOUS
    <3>5. Cardinality(after) = Cardinality(TakenBy(s)) + 1
      BY <3>3, <3>4, <2>1, FS_AddElement
    <3>6. \A t : t # s => TakenBy(t)' = TakenBy(t)
      BY <3>1 DEF TakenBy
    <3>7. Len(channel'[s]) = Len(channel[s]) + 1 /\ \A t \in Streams \ {s} : channel'[t] = channel[t]
      BY <3>1, <1>5 DEF BrokerInv, BrokerType
    <3>8. Len(channel'[s]) <= Cardinality(TakenBy(s)')
      BY <3>4, <3>5, <3>7, <2>1, <2>2
    <3>9. \A t \in Streams : Len(channel'[t]) <= Cardinality(TakenBy(t)')
      BY <3>6, <3>7, <3>8 DEF BrokerInv, RoomIsTaken
    <3>10. ASSUME NEW lost \in full PROVE Capacity <= Cardinality(TakenBy(lost[2])')
      <4>1. Capacity <= Cardinality(TakenBy(lost[2]))
        BY DEF BrokerInv, RoomIsTaken
      <4>2. CASE lost[2] = s
        BY <4>1, <4>2, <3>4, <3>5, <2>1, BrokerAssumption
      <4>3. CASE lost[2] # s
        BY <4>1, <4>3, <3>6
      <4> QED
        BY <4>2, <4>3
    <3> QED
      BY <3>1, <3>9, <3>10 DEF RoomIsTaken
  <2> QED
    BY <2>3, <2>4
<1> QED
  BY <1>4, <1>6, <1>8, <1>9, <1>10, <1>11 DEF BrokerInv

LEMMA BrokerStep == BrokerInv /\ [B!Next]_broker => BrokerInv'
<1> SUFFICES ASSUME BrokerInv, [B!Next]_broker PROVE BrokerInv'
  OBVIOUS
\* Neither the events nor who is sent them change.
<1> DEFINE Aside == UNCHANGED <<clients, closed, waiting, todo, sent, due, taken, full>> /\ UNCHANGED panicked
<1>1. ASSUME Aside, UNCHANGED channel, BrokerType', LockedRange', InLine' PROVE BrokerInv'
  <2>1. DueIsSent' /\ TakenOnce'
    BY <1>1 DEF BrokerInv, DueIsSent, TakenOnce
  <2>2. RoomIsTaken'
    BY <1>1, RoomRests DEF BrokerInv
  <2> QED
    BY <1>1, <2>1, <2>2 DEF BrokerInv
<1>2. ASSUME NEW s \in Streams, B!Lock(s) PROVE BrokerInv'
  <2>1. /\ locking' = {s} /\ (s \notin clients \cup closed \/ s \in clients \cap leaving)
        /\ Aside /\ UNCHANGED <<channel, said, leaving, readers>>
    BY <1>2 DEF B!Lock, B!history
  <2>2. BrokerType' /\ LockedRange' /\ InLine'
    BY <2>1 DEF BrokerInv, BrokerType, LockedRange, InLine
  <2> QED
    BY <2>1, <2>2, <1>1
<1>3. ASSUME NEW s \in Streams, B!Ready(s) PROVE BrokerInv'
  <2>1. /\ s \in clients /\ said' = said \cup {s}
        /\ Aside /\ UNCHANGED <<channel, leaving, locking, readers>>
    BY <1>3 DEF B!Ready, B!history, B!lock
  <2>2. BrokerType' /\ LockedRange' /\ InLine'
    BY <2>1 DEF BrokerInv, BrokerType, LockedRange, InLine
  <2> QED
    BY <2>1, <2>2, <1>1
<1>4. ASSUME NEW s \in Streams, B!Leave(s) PROVE BrokerInv'
  <2>1. leaving' = leaving \cup {s} /\ Aside /\ UNCHANGED <<channel, said, locking, readers>>
    BY <1>4 DEF B!Leave, B!history, B!lock
  <2>2. BrokerType' /\ LockedRange' /\ InLine'
    BY <2>1 DEF BrokerInv, BrokerType, LockedRange, InLine
  <2> QED
    BY <2>1, <2>2, <1>1
<1>5. ASSUME NEW p \in Publishers, B!Published(p) PROVE BrokerInv'
  <2>1. /\ todo[p] = {} /\ readers' = readers \ {p}
        /\ Aside /\ UNCHANGED <<channel, said, leaving, locking>>
    BY <1>5 DEF B!Published, B!history
  <2>2. BrokerType' /\ LockedRange' /\ InLine'
    BY <2>1 DEF BrokerInv, BrokerType, LockedRange, InLine
  <2> QED
    BY <2>1, <2>2, <1>1
<1>6. ASSUME NEW s \in Streams, B!Forward(s) PROVE BrokerInv'
  <2>1. /\ channel[s] # <<>> /\ channel' = [channel EXCEPT ![s] = Tail(@)]
        /\ Aside /\ UNCHANGED <<said, leaving, locking, readers>>
    BY <1>6 DEF B!Forward, B!history, B!lock
  <2>2. /\ channel[s] \in Seq(Publishers \X Nat)
        /\ channel'[s] = Tail(channel[s]) /\ \A t \in Streams \ {s} : channel'[t] = channel[t]
    BY <2>1 DEF BrokerInv, BrokerType
  <2>3. Tail(channel[s]) \in Seq(Publishers \X Nat) /\ Len(Tail(channel[s])) = Len(channel[s]) - 1
    BY <2>1, <2>2
  <2>4. BrokerType' /\ LockedRange' /\ InLine'
    BY <2>1, <2>3 DEF BrokerInv, BrokerType, LockedRange, InLine
  <2>5. \A t : TakenBy(t)' = TakenBy(t) /\ Cardinality(TakenBy(t)) \in Nat
    <3> TAKE t
    <3>1. TakenBy(t) \subseteq taken
      BY DEF TakenBy
    <3>2. Cardinality(TakenBy(t)) \in Nat
      BY <3>1, FS_Subset, FS_CardinalityType DEF BrokerInv, BrokerType
    <3> QED
      BY <2>1, <3>2 DEF TakenBy
  <2>6. \A t \in Streams : Len(channel'[t]) <= Cardinality(TakenBy(t))
    <3> SUFFICES ASSUME NEW t \in Streams PROVE Len(channel'[t]) <= Cardinality(TakenBy(t))
      OBVIOUS
    <3>1. Len(channel[t]) <= Cardinality(TakenBy(t)) /\ Len(channel[s]) \in Nat
      BY <2>2 DEF BrokerInv, RoomIsTaken
    <3>2. Cardinality(TakenBy(t)) \in Nat
      BY <2>5
    <3>3. CASE t = s
      <4>1. Len(channel'[s]) = Len(channel[s]) - 1
        BY <2>2, <2>3
      <4> QED
        BY <4>1, <3>1, <3>2, <3>3
    <3>4. CASE t # s
      BY <3>1, <3>4, <2>2
    <3> QED
      BY <3>3, <3>4
  <2>7. RoomIsTaken'
    BY <2>1, <2>5, <2>6 DEF BrokerInv, RoomIsTaken
  <2>8. DueIsSent' /\ TakenOnce'
    BY <2>1 DEF BrokerInv, DueIsSent, TakenOnce
  <2> QED
    BY <2>1, <2>4, <2>7, <2>8 DEF BrokerInv
<1>7. ASSUME UNCHANGED broker PROVE BrokerInv'
  <2>1. Aside /\ UNCHANGED <<channel, said, leaving, locking, readers>>
    BY <1>7 DEF broker
  <2>2. BrokerType' /\ LockedRange' /\ InLine'
    BY <2>1 DEF BrokerInv, BrokerType, LockedRange, InLine
  <2> QED
    BY <2>1, <2>2, <1>1
<1> QED
  BY <1>2, <1>3, <1>4, <1>5, <1>6, <1>7, UnlockKeeps, PublishKeeps, SendKeeps DEF B!Next

LEMMA PartsMoveBroker == PartsSpec => B!Init /\ [][B!Next]_broker
<1>1. PartsInit => B!Init
  BY DEF PartsInit
<1>2. [PartsNext]_<<part, vars, limiter, address, broker>> => [B!Next]_broker
  <2> SUFFICES ASSUME [PartsNext]_<<part, vars, limiter, address, broker>>, broker' # broker
               PROVE  B!Next
    OBVIOUS
  <2> QED
    BY DEF PartsNext
<1> QED
  BY <1>1, <1>2, PTL DEF PartsSpec

\* Subscribe, Publish (EventsArrive): no publisher sends on a channel that cancel has closed,
\* and what is published after a client was told "ready" is put in its channel unless that
\* was full, in which case as many others had been put in it as it holds, for any number of
\* scans and streams and for every size of the channel.
THEOREM NoEventIsLost == PartsSpec => []EventsArrive
<1>1. BrokerInv => B!NoSendOnClosed
  BY DEF BrokerInv, LockedRange, B!NoSendOnClosed
<1>2. BrokerInv => B!NothingMissed
  <2> SUFFICES ASSUME BrokerInv PROVE B!NothingMissed
    OBVIOUS
  <2>1. ASSUME NEW p \in Publishers, NEW n \in 1..MaxEvents, NEW s \in Streams,
               <<<<p, n>>, s>> \in due, sent[p] > n \/ (sent[p] = n /\ ~B!Publishing(p))
        PROVE  <<<<p, n>>, s>> \in taken \cup full
    <3>1. n \in Nat /\ sent[p] \in Nat
      BY BrokerAssumption DEF BrokerInv, BrokerType
    <3>2. \/ <<<<p, n>>, s>> \in taken \cup full
          \/ n = sent[p] /\ s \in todo[p]
      BY <2>1, <3>1 DEF BrokerInv, DueIsSent
    <3> QED
      BY <2>1, <3>1, <3>2 DEF BrokerInv, LockedRange, B!Publishing
  <2>2. \A lost \in full : Capacity <= B!Cardinality({other \in taken : other[2] = lost[2]})
    BY SameCount DEF BrokerInv, RoomIsTaken, TakenBy
  <2> QED
    BY <2>1, <2>2 DEF B!NothingMissed
<1> QED
  BY <1>1, <1>2, BrokerInit, BrokerStep, PartsMoveBroker, PTL DEF EventsArrive

-----------------------------------------------------------------------------
\* LoginLimiter: the shared bucket takes the last place in the map.

RoomForOverflow ==
  /\ IsFiniteSet(DOMAIN buckets)
  /\ Cardinality(DOMAIN buckets \ {Overflow}) <= maxBuckets - 1

LEMMA SameCardinality == \A S : L!Cardinality(S) = Cardinality(S)
BY DEF L!Cardinality, Cardinality

\* A map that has room for the shared bucket has room for the bucket of an attempt.
LEMMA BucketFits ==
  ASSUME NEW D, IsFiniteSet(D), Cardinality(D \ {Overflow}) <= maxBuckets - 1,
         NEW b, b \in D \/ b = Overflow \/ Cardinality(D) < maxBuckets - 1
  PROVE  /\ IsFiniteSet(D \cup {b})
         /\ Cardinality((D \cup {b}) \ {Overflow}) <= maxBuckets - 1
<1>1. IsFiniteSet(D \cup {b})
  BY FS_AddElement
<1>2. CASE b \in D
  <2>1. D \cup {b} = D
    BY <1>2
  <2> QED
    BY <1>1, <2>1
<1>3. CASE b = Overflow
  <2>1. (D \cup {b}) \ {Overflow} = D \ {Overflow}
    BY <1>3
  <2> QED
    BY <1>1, <2>1
<1>4. CASE b \notin D /\ Cardinality(D) < maxBuckets - 1
  <2>1. Cardinality(D \cup {b}) = Cardinality(D) + 1
    BY <1>4, FS_AddElement
  <2>2. (D \cup {b}) \ {Overflow} \subseteq D \cup {b}
    OBVIOUS
  <2>3. Cardinality((D \cup {b}) \ {Overflow}) <= Cardinality(D \cup {b})
    BY <1>1, <2>2, FS_Subset
  <2>4. /\ Cardinality(D) \in Nat /\ Cardinality(D \cup {b}) \in Nat
        /\ Cardinality((D \cup {b}) \ {Overflow}) \in Nat
    BY <1>1, <2>2, FS_CardinalityType, FS_Subset
  <2> QED
    BY <1>1, <1>4, <2>1, <2>3, <2>4, LimiterAssumption
<1> QED
  BY <1>2, <1>3, <1>4

LEMMA AllowKeeps ==
  ASSUME RoomForOverflow, NEW client, NEW t, L!allow(client, t) PROVE RoomForOverflow'
<1> DEFINE swept == IF L!NeedsCleanup(t) THEN L!cleanup(buckets, t) ELSE buckets
           b == L!BucketOf(swept, client)
<1>1. DOMAIN L!cleanup(buckets, t) \subseteq DOMAIN buckets
  BY DEF L!cleanup, L!Restrict
<1>2. DOMAIN swept \subseteq DOMAIN buckets
  BY <1>1
<1>3. DOMAIN buckets' = DOMAIN swept \cup {b}
  BY DEF L!allow
<1>4. b \in DOMAIN swept \/ b = Overflow \/ ~(Cardinality(DOMAIN swept) >= maxBuckets - 1)
  BY SameCardinality DEF L!BucketOf
<1> HIDE DEF swept, b
<1>5. IsFiniteSet(DOMAIN swept)
  BY <1>2, FS_Subset DEF RoomForOverflow
<1>6. IsFiniteSet(DOMAIN buckets \ {Overflow})
  BY FS_Subset DEF RoomForOverflow
<1>7. DOMAIN swept \ {Overflow} \subseteq DOMAIN buckets \ {Overflow}
  BY <1>2
<1>8. /\ Cardinality(DOMAIN swept \ {Overflow}) <= Cardinality(DOMAIN buckets \ {Overflow})
      /\ IsFiniteSet(DOMAIN swept \ {Overflow})
  BY <1>6, <1>7, FS_Subset
<1>9. /\ Cardinality(DOMAIN swept) \in Nat /\ Cardinality(DOMAIN buckets \ {Overflow}) \in Nat
      /\ Cardinality(DOMAIN swept \ {Overflow}) \in Nat
  BY <1>5, <1>6, <1>8, FS_CardinalityType
<1>10. Cardinality(DOMAIN swept \ {Overflow}) <= maxBuckets - 1
  BY <1>8, <1>9, LimiterAssumption DEF RoomForOverflow
<1>11. b \in DOMAIN swept \/ b = Overflow \/ Cardinality(DOMAIN swept) < maxBuckets - 1
  BY <1>4, <1>9, LimiterAssumption
<1> QED
  BY <1>3, <1>5, <1>10, <1>11, BucketFits DEF RoomForOverflow

\* What the buckets hold, and what was granted to whom.
LimiterType ==
  /\ clock \in Nat
  /\ IsFiniteSet(granted)
  /\ \A g \in granted : g.time \in Nat /\ g.time <= clock

\* No bucket holds more than the allowance, and nothing granted is forgotten before it has
\* left every window.
SmallBuckets ==
  \A c \in DOMAIN buckets : IsFiniteSet(buckets[c]) /\ Cardinality(buckets[c]) <= maxAttempts
GrantsAreKept ==
  \A g \in granted : g.time + window > clock =>
    \E c \in {g.client, Overflow} \cap DOMAIN buckets : g \in buckets[c]

\* The grants of a client in a span that is shorter than a window by Skew.
Rush(c, t) == {a \in granted : a.client = c /\ a.time > t - (window - Skew) /\ a.time <= t}
RushIsBounded == \A c \in Clients, t \in 0..LoginTime : Cardinality(Rush(c, t)) <= 2 * maxAttempts

LimiterInv == RoomForOverflow /\ LimiterType /\ SmallBuckets /\ GrantsAreKept /\ RushIsBounded

\* What fits into two buckets is at most twice the allowance.
LEMMA TwoBuckets ==
  ASSUME NEW S, NEW X, NEW Y, IsFiniteSet(X), IsFiniteSet(Y), S \subseteq X \cup Y,
         Cardinality(X) <= maxAttempts, Cardinality(Y) <= maxAttempts
  PROVE  Cardinality(S) <= 2 * maxAttempts
<1>1. IsFiniteSet(X \cup Y) /\ IsFiniteSet(X \cap Y)
      /\ Cardinality(X \cup Y) = Cardinality(X) + Cardinality(Y) - Cardinality(X \cap Y)
  BY FS_Union, FS_Intersection
<1>2. Cardinality(S) <= Cardinality(X \cup Y) /\ IsFiniteSet(S)
  BY <1>1, FS_Subset
<1>3. /\ Cardinality(X) \in Nat /\ Cardinality(Y) \in Nat /\ Cardinality(X \cap Y) \in Nat
      /\ Cardinality(S) \in Nat /\ Cardinality(X \cup Y) \in Nat
  BY <1>1, <1>2, FS_CardinalityType
<1> QED
  BY <1>1, <1>2, <1>3, LimiterAssumption

\* What an attempt leaves in the buckets: all that is in the window of its time, and itself
\* if it is let through.
Attempted(client, t, b, a) ==
  /\ a.client = client /\ a.time = t
  /\ b \in DOMAIN buckets'
  /\ SmallBuckets'
  /\ \A c \in DOMAIN buckets : \A g \in buckets[c] :
       g.time > t - window => c \in DOMAIN buckets' /\ g \in buckets'[c]
  /\ \/ granted' = granted
     \/ granted' = granted \cup {a} /\ a \in buckets'[b]
  /\ UNCHANGED clock

LEMMA AllowDoes ==
  ASSUME LimiterInv, NEW client \in Clients, NEW t \in Nat, t <= clock, L!allow(client, t)
  PROVE  \E b \in {client, Overflow} : \E a : Attempted(client, t, b, a)
<1> DEFINE swept == IF L!NeedsCleanup(t) THEN L!cleanup(buckets, t) ELSE buckets
           b == L!BucketOf(swept, client)
           attempts == L!activeAttempts(IF b \in DOMAIN swept THEN swept[b] ELSE {}, t - window)
           ok == L!Cardinality(attempts) < maxAttempts
           before == {x \in granted : x.client = client /\ x.time = t}
           a == [client |-> client, time |-> t, no |-> L!Cardinality(before)]
           bucket == IF ok THEN attempts \cup {a} ELSE attempts
<1>1. /\ buckets' = [c \in DOMAIN swept \cup {b} |-> IF c = b THEN bucket ELSE swept[c]]
      /\ granted' = IF ok THEN granted \cup {a} ELSE granted
      /\ UNCHANGED clock
  BY DEF L!allow
<1>2. /\ \A c \in DOMAIN swept : c \in DOMAIN buckets /\ swept[c] \subseteq buckets[c]
      /\ \A c \in DOMAIN buckets : \A g \in buckets[c] :
           g.time > t - window => c \in DOMAIN swept /\ g \in swept[c]
  <2>1. CASE L!NeedsCleanup(t)
    <3> DEFINE kept == [c \in DOMAIN buckets |-> L!activeAttempts(buckets[c], t - window)]
    <3>1. swept = [c \in {d \in DOMAIN kept : kept[d] # {}} |-> kept[c]]
      BY <2>1 DEF L!cleanup, L!Restrict
    <3>2. \A c \in DOMAIN buckets : kept[c] = {g \in buckets[c] : g.time > t - window}
      BY DEF L!activeAttempts
    <3> HIDE DEF swept, kept
    <3>3. DOMAIN kept = DOMAIN buckets
      BY DEF kept
    <3> QED
      BY <3>1, <3>2, <3>3
  <2>2. CASE ~L!NeedsCleanup(t)
    BY <2>2
  <2> QED
    BY <2>1, <2>2
<1>3. b \in {client, Overflow}
  BY DEF L!BucketOf
<1>4. a.client = client /\ a.time = t
  OBVIOUS
<1> HIDE DEF swept, b, a
<1>5. /\ attempts \subseteq (IF b \in DOMAIN swept THEN swept[b] ELSE {})
      /\ b \in DOMAIN swept => \A g \in swept[b] : g.time > t - window => g \in attempts
  BY DEF L!activeAttempts
<1>6. IsFiniteSet(attempts) /\ Cardinality(attempts) \in Nat /\ Cardinality(attempts) <= maxAttempts
  <2>1. CASE b \in DOMAIN swept
    <3>1. b \in DOMAIN buckets /\ attempts \in SUBSET buckets[b]
      BY <1>2, <1>5, <2>1
    <3>2. IsFiniteSet(buckets[b]) /\ Cardinality(buckets[b]) <= maxAttempts
      BY <3>1 DEF LimiterInv, SmallBuckets
    <3> HIDE DEF attempts
    <3> QED
      BY <3>1, <3>2, FS_Subset, FS_CardinalityType, LimiterAssumption
  <2>2. CASE b \notin DOMAIN swept
    <3>1. attempts = {}
      BY <1>5, <2>2
    <3> HIDE DEF attempts
    <3> QED
      BY <3>1, FS_EmptySet, LimiterAssumption
  <2> QED
    BY <2>1, <2>2
<1> HIDE DEF attempts
<1>7. IsFiniteSet(bucket) /\ Cardinality(bucket) <= maxAttempts
  <2>1. CASE ok
    <3>1. Cardinality(attempts) < maxAttempts
      BY <2>1, SameCardinality
    <3>2. IsFiniteSet(attempts \cup {a}) /\ Cardinality(attempts \cup {a}) <= Cardinality(attempts) + 1
      BY <1>6, FS_AddElement
    <3>3. Cardinality(attempts \cup {a}) \in Nat
      BY <3>2, FS_CardinalityType
    <3> QED
      BY <1>6, <2>1, <3>1, <3>2, <3>3, LimiterAssumption
  <2>2. CASE ~ok
    BY <1>6, <2>2
  <2> QED
    BY <2>1, <2>2
<1>8. attempts \subseteq bucket /\ (ok => a \in bucket)
  OBVIOUS
<1> HIDE DEF bucket
<1>9. DOMAIN buckets' = DOMAIN swept \cup {b} /\ buckets'[b] = bucket
      /\ \A c \in DOMAIN swept : c # b => buckets'[c] = swept[c]
  BY <1>1
<1>10. SmallBuckets'
  <2> SUFFICES ASSUME NEW c \in DOMAIN buckets'
               PROVE  IsFiniteSet(buckets'[c]) /\ Cardinality(buckets'[c]) <= maxAttempts
    BY DEF SmallBuckets
  <2>1. CASE c = b
    BY <1>7, <1>9, <2>1
  <2>2. CASE c # b
    <3>1. c \in DOMAIN buckets /\ buckets'[c] \in SUBSET buckets[c]
      BY <1>2, <1>9, <2>2
    <3>2. IsFiniteSet(buckets[c]) /\ Cardinality(buckets[c]) <= maxAttempts
      BY <3>1 DEF LimiterInv, SmallBuckets
    <3> QED
      BY <3>1, <3>2, FS_Subset, FS_CardinalityType, LimiterAssumption
  <2> QED
    BY <2>1, <2>2
<1>11. ASSUME NEW c \in DOMAIN buckets, NEW g \in buckets[c], g.time > t - window
       PROVE  c \in DOMAIN buckets' /\ g \in buckets'[c]
  BY <1>2, <1>5, <1>8, <1>9, <1>11
<1>12. granted' = granted \/ (granted' = granted \cup {a} /\ a \in buckets'[b])
  BY <1>1, <1>8, <1>9
<1> HIDE DEF ok
<1>13. Attempted(client, t, b, a)
  BY <1>1, <1>4, <1>9, <1>10, <1>11, <1>12 DEF Attempted
<1> QED
  BY <1>3, <1>13

LEMMA AllowBounds ==
  ASSUME LimiterInv, NEW client \in Clients, NEW t \in Nat, t <= clock, t >= clock - Skew,
         L!allow(client, t)
  PROVE  LimiterInv'
<1>0. PICK b \in {client, Overflow} : \E a : Attempted(client, t, b, a)
  BY AllowDoes
<1>1. PICK a : Attempted(client, t, b, a)
  BY <1>0
<1>2. window \in Nat /\ Skew \in Nat /\ clock \in Nat /\ maxAttempts \in Nat
  BY LimiterAssumption DEF LimiterInv, LimiterType
<1> USE DEF Attempted
<1>3. RoomForOverflow'
  BY AllowKeeps DEF LimiterInv
<1>4. LimiterType'
  <2>1. IsFiniteSet(granted')
    BY <1>1, FS_AddElement DEF LimiterInv, LimiterType
  <2> QED
    BY <1>1, <2>1 DEF LimiterInv, LimiterType
<1>5. GrantsAreKept'
  <2> SUFFICES ASSUME NEW g \in granted', g.time + window > clock
               PROVE  \E c \in {g.client, Overflow} \cap DOMAIN buckets' : g \in buckets'[c]
    BY <1>1 DEF GrantsAreKept
  <2>1. CASE g \in granted
    <3>1. PICK c \in {g.client, Overflow} \cap DOMAIN buckets : g \in buckets[c]
      BY <2>1 DEF LimiterInv, GrantsAreKept
    <3>2. g.time \in Nat
      BY <2>1 DEF LimiterInv, LimiterType
    <3>3. g.time > t - window
      BY <1>2, <3>2
    <3> QED
      BY <1>1, <3>1, <3>3
  <2>2. CASE g \notin granted
    BY <1>1, <2>2
  <2> QED
    BY <2>1, <2>2
<1>6. RushIsBounded'
  <2> SUFFICES ASSUME NEW c \in Clients, NEW s \in 0..LoginTime
               PROVE  Cardinality(Rush(c, s)') <= 2 * maxAttempts
    BY DEF RushIsBounded
  <2>1. s \in Nat
    BY LimiterAssumption
  <2>2. CASE granted' = granted \/ ~(c = client /\ t > s - (window - Skew) /\ t <= s)
    <3>1. Rush(c, s)' = Rush(c, s)
      BY <1>1, <2>2 DEF Rush
    <3> QED
      BY <3>1 DEF LimiterInv, RushIsBounded
  <2>3. CASE c = client /\ t > s - (window - Skew) /\ t <= s
    <3>1. \A g \in Rush(c, s)' : g \in granted' /\ g.client = client /\ g.time + window > clock
      <4> SUFFICES ASSUME NEW g \in granted', g.client = c, g.time > s - (window - Skew)
                   PROVE  g.time + window > clock
        BY <2>3 DEF Rush
      <4>1. g.time \in Nat
        BY <1>4 DEF LimiterType
      <4> QED
        BY <1>2, <2>1, <2>3, <4>1
    <3> DEFINE of(d) == IF d \in DOMAIN buckets' THEN buckets'[d] ELSE {}
    <3>2. \A g \in Rush(c, s)' : g \in of(client) \cup of(Overflow)
      BY <1>1, <1>5, <3>1 DEF GrantsAreKept
    <3>3. \A d : IsFiniteSet(of(d)) /\ Cardinality(of(d)) <= maxAttempts
      BY <1>1, <1>2, FS_EmptySet DEF SmallBuckets
    <3> HIDE DEF of
    <3> QED
      BY <3>2, <3>3, TwoBuckets
  <2> QED
    BY <2>2, <2>3
<1> QED
  BY <1>1, <1>3, <1>4, <1>5, <1>6 DEF LimiterInv

LEMMA LimiterInvInit == L!Init => LimiterInv
<1> SUFFICES ASSUME L!Init PROVE LimiterInv
  OBVIOUS
<1>1. DOMAIN buckets = {} /\ DOMAIN buckets \ {Overflow} = {} /\ granted = {} /\ clock = 0
  BY DEF L!Init
<1>2. \A c, t : Rush(c, t) = {}
  BY <1>1 DEF Rush
<1>3. RushIsBounded
  BY <1>2, FS_EmptySet, LimiterAssumption DEF RushIsBounded
<1> QED
  BY <1>1, <1>3, FS_EmptySet, LimiterAssumption
  DEF LimiterInv, RoomForOverflow, LimiterType, SmallBuckets, GrantsAreKept

LEMMA LimiterInvStep == LimiterInv /\ [L!Next]_limiter => LimiterInv'
<1> SUFFICES ASSUME LimiterInv, [L!Next]_limiter PROVE LimiterInv'
  OBVIOUS
<1>1. CASE L!Tick \/ UNCHANGED limiter
  <2>1. UNCHANGED <<buckets, granted>> /\ (clock' = clock + 1 \/ clock' = clock)
    BY <1>1 DEF L!Tick, limiter
  <2>2. clock \in Nat /\ \A g \in granted : g.time \in Nat /\ g.time <= clock
    BY DEF LimiterInv, LimiterType
  <2>3. GrantsAreKept'
    <3>1. \A g \in granted : g.time + window > clock' => g.time + window > clock
      BY <2>1, <2>2, LimiterAssumption
    <3> QED
      BY <2>1, <3>1 DEF LimiterInv, GrantsAreKept
  <2>4. LimiterType'
    BY <2>1, <2>2 DEF LimiterInv, LimiterType
  <2> QED
    BY <2>1, <2>3, <2>4 DEF LimiterInv, RoomForOverflow, SmallBuckets, RushIsBounded, Rush
<1>2. ASSUME NEW client \in Clients,
             NEW t \in {u \in 0..LoginTime : u <= clock /\ u >= clock - Skew}, L!allow(client, t)
      PROVE  LimiterInv'
  <2>1. t \in Nat /\ t <= clock /\ t >= clock - Skew
    BY LimiterAssumption
  <2> QED
    BY <1>2, <2>1, AllowBounds
<1> QED
  BY <1>1, <1>2 DEF L!Next

LEMMA RoomSuffices == RoomForOverflow => L!BucketsAreBounded
<1> SUFFICES ASSUME RoomForOverflow PROVE Cardinality(DOMAIN buckets) <= maxBuckets
  BY SameCardinality DEF L!BucketsAreBounded
<1> DEFINE D == DOMAIN buckets \ {Overflow}
<1>1. IsFiniteSet(D)
  BY FS_Subset DEF RoomForOverflow
<1>2. /\ IsFiniteSet(D \cup {Overflow})
      /\ Cardinality(D \cup {Overflow}) = Cardinality(D) + 1
  BY <1>1, FS_AddElement
<1>3. DOMAIN buckets \subseteq D \cup {Overflow}
  OBVIOUS
<1>4. Cardinality(DOMAIN buckets) <= Cardinality(D \cup {Overflow})
  BY <1>2, <1>3, FS_Subset
<1>5. Cardinality(D) \in Nat /\ Cardinality(DOMAIN buckets) \in Nat
  BY <1>1, FS_CardinalityType DEF RoomForOverflow
<1>6. Cardinality(D) <= maxBuckets - 1
  BY DEF RoomForOverflow
<1> QED
  BY <1>2, <1>4, <1>5, <1>6, LimiterAssumption

LEMMA PartsMoveLimiter == PartsSpec => L!Init /\ [][L!Next]_limiter
<1>1. PartsInit => L!Init
  BY DEF PartsInit
<1>2. [PartsNext]_<<part, vars, limiter, address, broker>> => [L!Next]_limiter
  <2> SUFFICES ASSUME [PartsNext]_<<part, vars, limiter, address, broker>>, limiter' # limiter
               PROVE  L!Next
    OBVIOUS
  <2> QED
    BY DEF PartsNext
<1> QED
  BY <1>1, <1>2, PTL DEF PartsSpec

-----------------------------------------------------------------------------
\* ClientAddress: what the headers say of the way since the last stranger.

Strangers == {i \in DOMAIN path : path[i] \notin Trusted}

\* Each proxy since m appended whom it was called by.
Appended(m) ==
  /\ Len(path) - m <= Len(forwarded)
  /\ \A k \in 1..(Len(path) - m) :
       /\ forwarded[Len(forwarded) - k + 1] \in C!Spellings
       /\ C!Unmap(forwarded[Len(forwarded) - k + 1]) = path[Len(path) - k]

\* The first proxy since m named it, and none of them left another header.
Named(m) ==
  m # Len(path) => forwarded = <<>> /\ realIP \in C!Spellings /\ C!Unmap(realIP) = path[m]

\* After the last stranger come trusted proxies only, and the headers tell who it is.
Vouched(m) ==
  /\ m \in Strangers
  /\ \A i \in DOMAIN path : i > m => path[i] \in Trusted
  /\ speaks = "X-Forwarded-For" => Appended(m)
  /\ speaks = "X-Real-IP" => Named(m)

AddressInv ==
  /\ speaks \in {"X-Forwarded-For", "X-Real-IP"}
  /\ from \in C!Spellings
  /\ forwarded \in Seq(C!Texts)
  /\ path \in Seq(Hosts) /\ path # <<>> /\ path[Len(path)] = C!Unmap(from)
  /\ \E m \in Nat : Vouched(m)

LEMMA SpellingIs == ASSUME NEW a \in C!Spellings PROVE C!Unmap(a) \in Hosts /\ a \in C!Texts
BY DEF C!Spellings, C!Unmap, C!Texts

LEMMA AddressInit == C!Init => AddressInv
<1> SUFFICES ASSUME C!Init PROVE AddressInv
  OBVIOUS
<1>1. /\ from \in C!Spellings /\ C!Unmap(from) \notin Trusted /\ path = <<C!Unmap(from)>>
      /\ forwarded \in C!Forgeries
  BY DEF C!Init
<1>2. C!Unmap(from) \in Hosts
  BY <1>1, SpellingIs
<1>3. forwarded \in Seq(C!Texts)
  <2>1. PICK n \in 0..MaxChain : forwarded \in [1..n -> C!Texts]
    BY <1>1 DEF C!Forgeries
  <2> QED
    BY <2>1
<1>4. path \in Seq(Hosts) /\ Len(path) = 1 /\ path[1] = C!Unmap(from) /\ DOMAIN path = {1}
  BY <1>1, <1>2
<1>5. Vouched(1)
  BY <1>1, <1>3, <1>4 DEF Vouched, Strangers, Appended, Named
<1>6. speaks \in {"X-Forwarded-For", "X-Real-IP"}
  BY DEF C!Init
<1> QED
  BY <1>1, <1>3, <1>4, <1>5, <1>6 DEF AddressInv

\* One more on the way.
LEMMA PathGrows ==
  ASSUME AddressInv, NEW p \in C!Spellings, path' = Append(path, C!Unmap(p)), from' = p
  PROVE  /\ from' \in C!Spellings /\ path' \in Seq(Hosts) /\ path' # <<>>
         /\ path'[Len(path')] = C!Unmap(from')
         /\ Len(path) \in Nat /\ Len(path') = Len(path) + 1 /\ DOMAIN path' = 1..(Len(path) + 1)
         /\ DOMAIN path = 1..Len(path) /\ \A i \in DOMAIN path : path'[i] = path[i]
         /\ path'[Len(path) + 1] = C!Unmap(p)
<1>1. C!Unmap(p) \in Hosts /\ path \in Seq(Hosts)
  BY SpellingIs DEF AddressInv
<1> QED
  BY <1>1

\* A trusted proxy is one more on the way since the last stranger.
LEMMA StrangerStays ==
  ASSUME AddressInv, NEW p \in C!Spellings, C!Forward(p), NEW m \in Nat, Vouched(m)
  PROVE  m \in Strangers' /\ \A i \in DOMAIN path' : i > m => path'[i] \in Trusted
<1>1. /\ C!Unmap(p) \in Trusted /\ from' = p /\ path' = Append(path, C!Unmap(p))
  BY DEF C!Forward
<1>2. /\ Len(path) \in Nat /\ DOMAIN path' = 1..(Len(path) + 1)
      /\ DOMAIN path = 1..Len(path) /\ \A i \in DOMAIN path : path'[i] = path[i]
      /\ path'[Len(path) + 1] = C!Unmap(p)
  BY <1>1, PathGrows
<1> DEFINE n == Len(path)
<1>3. m \in 1..n /\ path[m] \notin Trusted
  BY <1>2 DEF Vouched, Strangers
<1>4. m \in Strangers'
  BY <1>2, <1>3 DEF Strangers
<1>5. ASSUME NEW i \in 1..(n + 1), i > m PROVE path'[i] \in Trusted
  <2>1. CASE i = n + 1
    BY <1>1, <1>2, <2>1
  <2>2. CASE i # n + 1
    BY <1>2, <1>5, <2>2 DEF Vouched
  <2> QED
    BY <2>1, <2>2
<1> QED
  BY <1>2, <1>4, <1>5

LEMMA AppendKeeps ==
  ASSUME AddressInv, NEW p \in C!Spellings, C!Forward(p), speaks = "X-Forwarded-For"
  PROVE  AddressInv'
<1>1. /\ C!Unmap(p) \in Trusted /\ forwarded' = Append(forwarded, from) /\ from' = p
      /\ path' = Append(path, C!Unmap(p)) /\ speaks' = speaks
  BY DEF C!Forward
<1>2. /\ from' \in C!Spellings /\ path' \in Seq(Hosts) /\ path' # <<>>
      /\ path'[Len(path')] = C!Unmap(from')
      /\ Len(path) \in Nat /\ Len(path') = Len(path) + 1 /\ DOMAIN path' = 1..(Len(path) + 1)
      /\ DOMAIN path = 1..Len(path) /\ \A i \in DOMAIN path : path'[i] = path[i]
      /\ path'[Len(path) + 1] = C!Unmap(p)
  BY <1>1, PathGrows
<1>3. forwarded \in Seq(C!Texts) /\ from \in C!Texts /\ from \in C!Spellings
  BY SpellingIs DEF AddressInv
<1>4. /\ forwarded' \in Seq(C!Texts) /\ Len(forwarded) \in Nat /\ Len(forwarded') = Len(forwarded) + 1
      /\ \A i \in 1..Len(forwarded) : forwarded'[i] = forwarded[i]
      /\ forwarded'[Len(forwarded) + 1] = from
  BY <1>1, <1>3
<1>5. path[Len(path)] = C!Unmap(from) /\ Len(path) >= 1
  <2>1. path \in Seq(Hosts) /\ path # <<>>
    BY DEF AddressInv
  <2> QED
    BY <2>1 DEF AddressInv
<1>6. PICK m \in Nat : Vouched(m)
  BY DEF AddressInv
<1> DEFINE n == Len(path)
           l == Len(forwarded)
<1>7. m \in 1..n /\ path[m] \notin Trusted
  BY <1>2, <1>6 DEF Vouched, Strangers
<1>8. m \in Strangers' /\ \A i \in DOMAIN path' : i > m => path'[i] \in Trusted
  BY <1>6, StrangerStays
<1>9. Appended(m)
  BY <1>6 DEF Vouched
<1>10. ASSUME NEW k \in 1..((n + 1) - m)
       PROVE  /\ forwarded'[(l + 1) - k + 1] \in C!Spellings
              /\ C!Unmap(forwarded'[(l + 1) - k + 1]) = path'[(n + 1) - k]
  <2>1. CASE k = 1
    <3>1. (l + 1) - k + 1 = l + 1 /\ (n + 1) - k = n /\ n \in DOMAIN path
      BY <1>2, <1>4, <1>5, <2>1
    <3> QED
      BY <1>2, <1>3, <1>4, <1>5, <3>1
  <2>2. CASE k # 1
    <3>1. k - 1 \in 1..(n - m)
      BY <1>2, <1>7, <2>2
    <3>2. /\ forwarded[l - (k - 1) + 1] \in C!Spellings
          /\ C!Unmap(forwarded[l - (k - 1) + 1]) = path[n - (k - 1)]
          /\ n - m <= l
      BY <1>9, <3>1 DEF Appended
    <3>3. /\ l - (k - 1) + 1 = (l + 1) - k + 1 /\ n - (k - 1) = (n + 1) - k
          /\ (l + 1) - k + 1 \in 1..l /\ (n + 1) - k \in 1..n
      <4>1. n \in Nat /\ l \in Nat /\ n - m <= l /\ m \in 1..n
        BY <1>2, <1>4, <1>7, <3>2
      <4> HIDE DEF n, l
      <4> QED
        BY <2>2, <4>1
    <3> QED
      BY <1>2, <1>4, <3>2, <3>3
  <2> QED
    BY <2>1, <2>2
<1>11. Len(path') - m <= Len(forwarded')
  BY <1>2, <1>4, <1>9, <1>7 DEF Appended
<1>12. Appended(m)'
  BY <1>2, <1>4, <1>10, <1>11 DEF Appended
<1>13. Vouched(m)'
  BY <1>1, <1>8, <1>12 DEF Vouched
<1> QED
  BY <1>1, <1>2, <1>4, <1>13 DEF AddressInv

LEMMA NameKeeps ==
  ASSUME AddressInv, NEW p \in C!Spellings, C!Forward(p), speaks = "X-Real-IP"
  PROVE  AddressInv'
<1>1. /\ forwarded' = <<>> /\ from' = p /\ path' = Append(path, C!Unmap(p)) /\ speaks' = speaks
      /\ realIP' = IF C!Unmap(from) \in Trusted THEN realIP ELSE from
  BY DEF C!Forward, C!contains
<1>2. /\ from' \in C!Spellings /\ path' \in Seq(Hosts) /\ path' # <<>>
      /\ path'[Len(path')] = C!Unmap(from')
      /\ Len(path) \in Nat /\ Len(path') = Len(path) + 1
      /\ DOMAIN path = 1..Len(path) /\ \A i \in DOMAIN path : path'[i] = path[i]
  BY <1>1, PathGrows
<1>3. forwarded' \in Seq(C!Texts)
  BY <1>1
<1>4. PICK m \in Nat : Vouched(m)
  BY DEF AddressInv
<1>5. m \in Strangers' /\ \A i \in DOMAIN path' : i > m => path'[i] \in Trusted
  BY <1>4, StrangerStays
<1>6. /\ path[Len(path)] = C!Unmap(from) /\ from \in C!Spellings
      /\ m \in DOMAIN path /\ path[m] \notin Trusted /\ Named(m)
      /\ \A i \in DOMAIN path : i > m => path[i] \in Trusted
  BY <1>4 DEF AddressInv, Vouched, Strangers
<1>7. realIP' \in C!Spellings /\ C!Unmap(realIP') = path[m]
  <2>1. CASE m = Len(path)
    BY <1>1, <1>6, <2>1
  <2>2. CASE m # Len(path)
    <3>1. Len(path) \in DOMAIN path /\ Len(path) > m
      <4> DEFINE n == Len(path)
      <4>1. n \in Nat /\ m \in 1..n /\ m # n /\ DOMAIN path = 1..n
        BY <1>2, <1>6, <2>2
      <4> HIDE DEF n
      <4>2. n > m /\ n \in 1..n
        BY <4>1
      <4> QED
        BY <4>1, <4>2 DEF n
    <3>2. C!Unmap(from) \in Trusted
      BY <1>6, <3>1
    <3> QED
      BY <1>1, <1>6, <2>2, <3>2 DEF Named
  <2> QED
    BY <2>1, <2>2
<1>8. Named(m)'
  BY <1>1, <1>2, <1>6, <1>7 DEF Named
<1>9. Vouched(m)'
  BY <1>1, <1>5, <1>8 DEF Vouched
<1> QED
  BY <1>1, <1>2, <1>3, <1>9 DEF AddressInv

LEMMA ForwardKeeps ==
  ASSUME AddressInv, NEW p \in C!Spellings, C!Forward(p) PROVE AddressInv'
BY AppendKeeps, NameKeeps DEF AddressInv

LEMMA RelayKeeps ==
  ASSUME AddressInv, NEW p \in C!Spellings, C!Relay(p) PROVE AddressInv'
<1>1. /\ C!Unmap(p) \notin Trusted /\ forwarded' \in {Append(forwarded, from), <<>>} /\ from' = p
      /\ path' = Append(path, C!Unmap(p)) /\ speaks' = speaks
  BY DEF C!Relay
<1>2. /\ from' \in C!Spellings /\ path' \in Seq(Hosts) /\ path' # <<>>
      /\ path'[Len(path')] = C!Unmap(from')
      /\ Len(path) \in Nat /\ Len(path') = Len(path) + 1 /\ DOMAIN path' = 1..(Len(path) + 1)
      /\ path'[Len(path) + 1] = C!Unmap(p)
  BY <1>1, PathGrows
<1>3. forwarded' \in Seq(C!Texts)
  <2>1. forwarded \in Seq(C!Texts) /\ from \in C!Texts
    BY SpellingIs DEF AddressInv
  <2>2. Append(forwarded, from) \in Seq(C!Texts) /\ << >> \in Seq(C!Texts)
    BY <2>1
  <2> QED
    BY <1>1, <2>2
<1>4. Len(forwarded') \in Nat
  BY <1>3
<1>5. PICK m \in Nat : m = Len(path) + 1
  BY <1>2
<1>6. Vouched(m)'
  <2>1. m \in Strangers'
    BY <1>1, <1>2, <1>5 DEF Strangers
  <2>2. \A i \in DOMAIN path' : ~(i > m)
    BY <1>2, <1>5
  <2>3. Len(path') - m = 0
    BY <1>2, <1>5
  <2>4. Len(path') - m <= Len(forwarded') /\ 1..(Len(path') - m) = {}
    BY <1>4, <2>3
  <2>5. Appended(m)'
    BY <2>4 DEF Appended
  <2>6. Named(m)'
    BY <1>2, <1>5 DEF Named
  <2> QED
    BY <2>1, <2>2, <2>5, <2>6 DEF Vouched
<1> QED
  BY <1>1, <1>2, <1>3, <1>6 DEF AddressInv

LEMMA AddressStep == AddressInv /\ [C!Next]_address => AddressInv'
<1> SUFFICES ASSUME AddressInv, [C!Next]_address PROVE AddressInv'
  OBVIOUS
<1>1. CASE UNCHANGED address
  BY <1>1 DEF address, AddressInv, Vouched, Strangers, Appended, Named
<1> QED
  BY <1>1, ForwardKeeps, RelayKeeps DEF C!Next

\* From the right, the first that is not trusted is the last stranger.
LEMMA WalkFindsStranger ==
  ASSUME AddressInv, NEW m \in Nat, Vouched(m), Appended(m), m # Len(path)
  PROVE  C!walk(C!Unmap(from), C!parseForwardedChain(forwarded)) = path[m]
<1> DEFINE chain == C!parseForwardedChain(forwarded)
           spoken == <<C!Unmap(from)>> \o C!Reverse(chain)
           stop == {i \in DOMAIN spoken : ~C!contains(spoken[i])}
           n == Len(path)
           l == Len(forwarded)
<1>1. forwarded \in Seq(C!Texts) /\ l \in Nat /\ path \in Seq(Hosts) /\ n \in Nat
      /\ path[n] = C!Unmap(from) /\ m \in 1..n /\ path[m] \notin Trusted
      /\ DOMAIN forwarded = 1..l /\ DOMAIN path = 1..n
  BY DEF AddressInv, Vouched, Strangers
<1>2. \A i \in 1..l : C!Unmap(forwarded[i]) \in Hosts \cup {""}
  <2> SUFFICES ASSUME NEW i \in 1..l PROVE C!Unmap(forwarded[i]) \in Hosts \cup {""}
    OBVIOUS
  <2>1. forwarded[i] \in C!Texts
    <3>0. forwarded \in Seq(C!Texts)
      BY <1>1
    <3>1. \A j \in 1..Len(forwarded) : forwarded[j] \in C!Texts
      BY ONLY <3>0
    <3> QED
      BY <3>1
  <2>2. CASE forwarded[i] \in C!Spellings
    BY <2>2, SpellingIs
  <2>3. CASE forwarded[i] = C!Garbage
    <3>1. C!Unmap(C!Garbage) = ""
      BY DEF C!Garbage, C!Unmap
    <3> QED
      BY <2>3, <3>1
  <2> QED
    BY <2>1, <2>2, <2>3 DEF C!Texts
<1>3. chain \in Seq(Hosts \cup {""}) /\ Len(chain) = l /\ \A i \in 1..l : chain[i] = C!Unmap(forwarded[i])
  <2>1. chain = [i \in 1..l |-> C!Unmap(forwarded[i])]
    BY <1>1 DEF C!parseForwardedChain
  <2> HIDE DEF l, chain
  <2>2. chain \in [1..l -> Hosts \cup {""}]
    BY <1>2, <2>1
  <2>3. chain \in Seq(Hosts \cup {""}) /\ Len(chain) = l
    <3> DEFINE S == Hosts \cup {""}
    <3>1. chain \in [1..l -> S] /\ l \in Nat
      BY <1>1, <2>2
    <3> HIDE DEF S
    <3>2. chain \in Seq(S) /\ Len(chain) = l
      BY <3>1
    <3> QED
      BY <3>2 DEF S
  <2> QED
    BY <2>1, <2>3
<1> HIDE DEF chain
<1>4. /\ C!Reverse(chain) \in Seq(Hosts \cup {""}) /\ Len(C!Reverse(chain)) = l
      /\ \A i \in 1..l : C!Reverse(chain)[i] = chain[(l - i) + 1]
  <2>1. C!Reverse(chain) = [i \in 1..l |-> chain[(l - i) + 1]]
    BY <1>3 DEF C!Reverse
  <2> HIDE DEF l
  <2>2. l \in Nat
    BY <1>1
  <2>3. \A i \in 1..l : (l - i) + 1 \in 1..l
    BY <2>2
  <2> DEFINE S == Hosts \cup {""}
  <2>4. chain \in Seq(S) /\ Len(chain) = l
    BY <1>3
  <2> HIDE DEF S
  <2>5. \A i \in 1..l : chain[i] \in S
    BY <2>4
  <2>6. C!Reverse(chain) \in [1..l -> S]
    BY <2>1, <2>3, <2>5
  <2>7. C!Reverse(chain) \in Seq(S) /\ Len(C!Reverse(chain)) = l
    BY <2>2, <2>6
  <2> QED
    BY <2>1, <2>7 DEF S
<1>5. C!Unmap(from) \in Hosts
  BY SpellingIs DEF AddressInv
<1>6. /\ DOMAIN spoken = 1..(l + 1) /\ spoken[1] = path[n]
      /\ \A i \in 1..l : spoken[i + 1] = chain[(l - i) + 1]
  <2> DEFINE S == Hosts \cup {""}
             r == C!Reverse(chain)
             a == C!Unmap(from)
  <2>1. a \in S /\ r \in Seq(S) /\ Len(r) = l /\ l \in Nat
    BY <1>1, <1>4, <1>5
  <2>2. r = C!Reverse(chain) /\ a = path[n]
    BY <1>1
  <2> HIDE DEF S, l, r, a
  <2>3. Len(<<a>> \o r) = l + 1
    BY <2>1
  <2>4. (<<a>> \o r) \in Seq(S)
    BY <2>1
  <2>5. DOMAIN (<<a>> \o r) = 1..(l + 1)
    BY <2>1, <2>3, <2>4
  <2>6. (<<a>> \o r)[1] = a
    BY <2>1
  <2>7. \A i \in 1..l : (<<a>> \o r)[i + 1] = r[i]
    BY <2>1
  <2> QED
    BY <1>4, <2>2, <2>5, <2>6, <2>7 DEF r, a
<1> HIDE DEF spoken
<1>a. n - m <= l /\ m # n
  BY DEF Appended
<1>b. /\ \A i \in 1..n : i > m => path[i] \in Trusted
      /\ \A k \in 1..(n - m) : C!Unmap(forwarded[l - k + 1]) = path[n - k]
  BY <1>1 DEF Vouched, Appended
<1> HIDE DEF n, l
<1>7. n - m <= l /\ n - m >= 1
  BY <1>1, <1>a
<1>8. \A k \in 0..(n - m) : spoken[k + 1] = path[n - k]
  <2> SUFFICES ASSUME NEW k \in 0..(n - m) PROVE spoken[k + 1] = path[n - k]
    OBVIOUS
  <2>1. CASE k = 0
    BY <1>1, <1>6, <2>1
  <2>2. CASE k # 0
    <3>1. k \in 1..(n - m) /\ k \in 1..l /\ (l - k) + 1 \in 1..l
      BY <1>1, <1>7, <2>2
    <3>2. C!Unmap(forwarded[l - k + 1]) = path[n - k]
      BY <1>b, <3>1
    <3>3. (l - k) + 1 = l - k + 1
      BY <1>1, <3>1
    <3> QED
      BY <1>3, <1>6, <3>1, <3>2, <3>3
  <2> QED
    BY <2>1, <2>2
<1>9. (n - m) + 1 \in stop
  <2>1. (n - m) + 1 \in 1..(l + 1) /\ n - m \in 0..(n - m) /\ n - (n - m) = m
    BY <1>1, <1>7
  <2>2. spoken[(n - m) + 1] = path[m]
    BY <1>8, <2>1
  <2> QED
    BY <1>1, <1>6, <2>1, <2>2 DEF C!contains
<1>10. \A j \in stop : (n - m) + 1 <= j
  <2> SUFFICES ASSUME NEW j \in stop, ~((n - m) + 1 <= j) PROVE FALSE
    OBVIOUS
  <2>1. j \in 1..(l + 1) /\ spoken[j] \notin Trusted
    BY <1>6 DEF C!contains
  <2>2. j - 1 \in 0..(n - m) /\ n - (j - 1) \in 1..n /\ n - (j - 1) > m /\ (j - 1) + 1 = j
    BY <1>1, <2>1
  <2>3. spoken[j] = path[n - (j - 1)]
    BY <1>8, <2>2
  <2>4. path[n - (j - 1)] \in Trusted
    BY <1>b, <2>2
  <2> QED
    BY <2>1, <2>3, <2>4
<1>11. stop \subseteq Nat
  BY <1>1, <1>6
<1> DEFINE first == CHOOSE i \in stop : \A j \in stop : i <= j
<1>12. first = (n - m) + 1
  <2> HIDE DEF stop
  <2>1. first \in stop /\ \A j \in stop : first <= j
    BY <1>9, <1>10
  <2> HIDE DEF first
  <2>2. first <= (n - m) + 1 /\ (n - m) + 1 <= first /\ first \in Nat
    BY <1>9, <1>10, <1>11, <2>1
  <2> QED
    BY <1>1, <1>7, <2>2
<1>13. spoken[first] = path[m]
  <2>1. n - m \in 0..(n - m) /\ n - (n - m) = m
    BY <1>1, <1>7
  <2> QED
    BY <1>8, <1>12, <2>1
<1>14. stop # {}
  BY <1>9
<1>15. C!walk(C!Unmap(from), chain) = spoken[first]
  BY <1>14 DEF C!walk, spoken
<1> QED
  BY <1>13, <1>15 DEF chain

LEMMA NobodyPosesHolds == AddressInv => C!NobodyPoses
<1> SUFFICES ASSUME AddressInv PROVE C!NobodyPoses
  OBVIOUS
<1>1. PICK m \in Nat : Vouched(m)
  BY DEF AddressInv
<1> DEFINE last == CHOOSE i \in Strangers : \A j \in Strangers : j <= i
<1>2. /\ path \in Seq(Hosts) /\ path # <<>> /\ DOMAIN path = 1..Len(path) /\ Len(path) \in Nat
      /\ path[Len(path)] = C!Unmap(from) /\ m \in Strangers
  BY <1>1 DEF AddressInv, Vouched
<1>3. \A j \in Strangers : j \in Nat /\ j <= m /\ j <= Len(path)
  BY <1>1, <1>2 DEF Vouched, Strangers
<1>4. last = m
  <2>1. m \in Strangers /\ \A j \in Strangers : j <= m
    BY <1>2, <1>3
  <2>2. last \in Strangers /\ \A j \in Strangers : j <= last
    BY <2>1
  <2> HIDE DEF last
  <2>3. last <= m /\ m <= last /\ last \in Nat
    BY <1>3, <2>1, <2>2
  <2> QED
    BY <2>3
<1>5. C!Last(path) = C!Unmap(from)
  BY <1>2 DEF C!Last
<1> HIDE DEF last
<1>6. C!clientIP = IF C!Garbage \in C!Range(forwarded) THEN C!Last(path) ELSE path[m]
  <2>1. CASE m = Len(path)
    <3>1. ~C!contains(C!Unmap(from)) /\ path[m] = C!Unmap(from)
      BY <1>2, <2>1 DEF C!contains, Strangers
    <3> QED
      BY <1>5, <3>1 DEF C!clientIP
  <2>2. CASE m # Len(path)
    <3>1. Len(path) > m /\ Len(path) \in DOMAIN path
      <4> DEFINE n == Len(path)
      <4>1. n \in Nat /\ m <= n /\ m # n /\ DOMAIN path = 1..n
        BY <1>2, <1>3, <2>2
      <4> HIDE DEF n
      <4>2. n > m /\ n \in 1..n
        BY <4>1
      <4> QED
        BY <4>1, <4>2 DEF n
    <3>2. C!contains(C!Unmap(from))
      BY <1>1, <1>2, <3>1 DEF C!contains, Vouched
    <3>3. CASE speaks = "X-Forwarded-For"
      <4>1. Appended(m)
        BY <1>1, <3>3 DEF Vouched
      <4>2. forwarded # <<>>
        <5>1. Len(path) - m <= Len(forwarded) /\ Len(path) - m >= 1
          BY <1>1, <1>2, <3>1, <4>1 DEF Appended
        <5> QED
          BY <1>2, <5>1
      <4>3. C!walk(C!Unmap(from), C!parseForwardedChain(forwarded)) = path[m]
        BY <1>1, <2>2, <4>1, WalkFindsStranger
      <4> QED
        BY <1>5, <3>2, <4>2, <4>3 DEF C!clientIP
    <3>4. CASE speaks = "X-Real-IP"
      <4>1. forwarded = <<>> /\ realIP \in C!Spellings /\ C!Unmap(realIP) = path[m]
        BY <1>1, <2>2, <3>4 DEF Vouched, Named
      <4>2. C!Garbage \notin C!Range(forwarded)
        BY <4>1 DEF C!Range
      <4> QED
        BY <3>2, <4>1, <4>2 DEF C!clientIP
    <3> QED
      BY <3>3, <3>4 DEF AddressInv
  <2> QED
    BY <2>1, <2>2
<1>7. C!clientIP = IF C!Garbage \in C!Range(forwarded) THEN C!Last(path) ELSE path[last]
  BY <1>4, <1>6
<1> QED
  BY <1>7 DEF C!NobodyPoses, Strangers, last

\* allow, cleanup, clientIP (LoginsAreCounted): the map of attempts never outgrows maxBuckets;
\* nobody gets more than twice the allowance in a window, less by what clocks differ, by
\* moving between buckets or through a sweep; and an attempt counts for the last sender
\* nobody vouches for, for any number of clients, addresses, proxies and forged headers.
THEOREM LoginsCounted == PartsSpec => []LoginsAreCounted
<1>1. LimiterInv => L!BucketsAreBounded /\ L!NobodyRushes
  <2>1. RushIsBounded => L!NobodyRushes
    BY SameCardinality DEF RushIsBounded, Rush, L!NobodyRushes
  <2> QED
    BY <2>1, RoomSuffices DEF LimiterInv
<1> DEFINE Inv == part = "address" => AddressInv
<1>2. PartsInit => Inv
  BY AddressInit DEF PartsInit
<1>3. Inv /\ [PartsNext]_<<part, vars, limiter, address, broker>> => Inv'
  <2> SUFFICES ASSUME Inv, [PartsNext]_<<part, vars, limiter, address, broker>>, part' = "address"
               PROVE  AddressInv'
    OBVIOUS
  <2>1. part = "address" /\ [C!Next]_address
    BY DEF PartsNext
  <2> QED
    BY <2>1, AddressStep
<1>4. LimiterInv /\ Inv => LoginsAreCounted
  BY <1>1, NobodyPosesHolds DEF LoginsAreCounted
<1> HIDE DEF Inv
<1> QED
  BY <1>2, <1>3, <1>4, LimiterInvInit, LimiterInvStep, PartsMoveLimiter, PTL DEF PartsSpec
=============================================================================
