---------------------------- MODULE ClientAddress ----------------------------
(***************************************************************************)
(* TrustedProxySet.clientIP, by which logins are counted: a request comes  *)
(* with whatever headers its sender wrote, and passes proxies.  The        *)
(* trusted ones append the address they were called from to                *)
(* X-Forwarded-For, or, in other installations, drop that header and name  *)
(* the client in X-Real-IP.                                                *)
(***************************************************************************)
EXTENDS Naturals, Sequences, SequencesExt

CONSTANTS
  Hosts,   \* addresses
  Trusted, \* HOMEDEX_TRUSTED_PROXIES
  MaxChain,\* bound on what a sender forges
  MaxHops  \* bound on the proxies on the way

VARIABLES
  speaks,    \* the header the trusted proxies of this installation write
  from,      \* who sends the request on, as a socket peer: a spelling of its address
  forwarded, \* X-Forwarded-For, all its values joined
  realIP,    \* X-Real-IP, or Absent
  path       \* history: who has sent it on so far, the origin first

vars == <<speaks, from, forwarded, realIP, path>>

\* An IPv4 address may be written as IPv6.
Spellings == {<<form, h>> : form \in {"plain", "mapped"}, h \in Hosts}
Unmap(a) == a[2]
Garbage == <<"garbage", "">>
Absent == <<"absent", "">>
Texts == Spellings \cup {Garbage}

contains(h) == h \in Trusted

\* From the right, as long as the one who speaks is trusted.
walk(client, chain) ==
  LET spoken == <<client>> \o Reverse(chain)
      stop == {i \in DOMAIN spoken : ~contains(spoken[i])}
  IN IF stop = {} THEN Last(spoken) ELSE spoken[CHOOSE i \in stop : \A j \in stop : i <= j]

parseForwardedChain(texts) == [i \in DOMAIN texts |-> Unmap(texts[i])]

clientIP ==
  LET peer == Unmap(from) IN
  CASE ~contains(peer) -> peer
    [] contains(peer) /\ forwarded # <<>> ->
         IF Garbage \in Range(forwarded) THEN peer ELSE walk(peer, parseForwardedChain(forwarded))
    [] contains(peer) /\ forwarded = <<>> /\ realIP \in Spellings -> Unmap(realIP)
    [] OTHER -> peer

-----------------------------------------------------------------------------

Forgeries == UNION {[1..n -> Texts] : n \in 0..MaxChain}

\* Somebody who is no trusted proxy sends a request with headers of any kind.
Init ==
  /\ speaks \in {"X-Forwarded-For", "X-Real-IP"}
  /\ from \in {a \in Spellings : Unmap(a) \notin Trusted}
  /\ forwarded \in Forgeries
  /\ realIP \in Texts \cup {Absent}
  /\ path = <<Unmap(from)>>

\* A trusted proxy tells whom it was called by: it appends the address, or names it,
\* unless it was called by another trusted one, which has named the client already.
Forward(p) ==
  /\ Len(path) <= MaxHops
  /\ Unmap(p) \in Trusted
  /\ \/ /\ speaks = "X-Forwarded-For"
        /\ forwarded' = Append(forwarded, from)
        /\ UNCHANGED realIP
     \/ /\ speaks = "X-Real-IP"
        /\ forwarded' = <<>>
        /\ realIP' = IF contains(Unmap(from)) THEN realIP ELSE from
  /\ from' = p
  /\ path' = Append(path, Unmap(p))
  /\ UNCHANGED speaks

\* Anybody else may do as it pleases with the headers: it appends too, or starts anew,
\* and names whom it likes.
Relay(h) ==
  /\ Len(path) <= MaxHops
  /\ Unmap(h) \notin Trusted
  /\ forwarded' \in {Append(forwarded, from), <<>>}
  /\ from' = h
  /\ realIP' \in Texts \cup {Absent}
  /\ path' = Append(path, Unmap(h))
  /\ UNCHANGED speaks

Next == \E a \in Spellings : Forward(a) \/ Relay(a)

Spec == Init /\ [][Next]_vars

-----------------------------------------------------------------------------

\* clientIP: logins are counted for the last sender nobody vouches for, whatever that
\* sender wrote into the headers and whatever the address looks like; a chain that
\* cannot be parsed counts for the proxy in front.
NobodyPoses ==
  LET strangers == {i \in DOMAIN path : path[i] \notin Trusted} IN
    clientIP = IF Garbage \in Range(forwarded) THEN Last(path)
               ELSE path[CHOOSE i \in strangers : \A j \in strangers : j <= i]
=============================================================================
