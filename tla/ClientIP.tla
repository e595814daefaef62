------------------------------ MODULE ClientIP ------------------------------
(***************************************************************************)
(* clientIP: the address under which the rate limiter counts a request,    *)
(* found from the peer of the connection and the headers that proxies      *)
(* (external) add on the way.  The key of RateLimiter's allow.             *)
(*                                                                         *)
(* An item of X-Forwarded-For is an address in one of its two spellings    *)
(* (IPv4, or IPv4 mapped into IPv6), Blank or Junk.  A missing header is   *)
(* the list of one Blank, as strings.Split makes it.                       *)
(***************************************************************************)
EXTENDS Integers, Sequences, FiniteSetsExt, SequencesExt

CONSTANTS
    Address,
    Trusted,        \* addresses within TRUSTED_PROXIES
    Blank, Junk,
    MaxItems,       \* bound on the items a client writes
    MaxHops         \* bound on the proxies on the way

VARIABLES
    sender,         \* the address the request comes from
    peer,           \* request.RemoteAddr
    forwarded,      \* X-Forwarded-For
    realIP,         \* X-Real-IP
    hops

vars == <<sender, peer, forwarded, realIP, hops>>

Spelled == [address : Address, mapped : BOOLEAN]
Item == Spelled \cup {Blank, Junk}
Spellings(a) == {s \in Spelled : s.address = a}
Missing == <<Blank>>

-----------------------------------------------------------------------------
Parses(item) == item \in Spelled

\* Mutant: an address keeps the spelling it came in.
AsSpelled(s) == IF s.mapped THEN s ELSE s.address

Unmap(s) == s.address

ipInPrefixes(a) == a \in Trusted

\* The last address of the chain that is no proxy of ours, or the first one.
LastUntrusted(chain) ==
    LET untrusted == {i \in DOMAIN chain : ~ipInPrefixes(chain[i])}
    IN  IF untrusted = {} THEN chain[1] ELSE chain[Max(untrusted)]

parseRemoteIP == IF Parses(peer) THEN Unmap(peer) ELSE Junk

clientIP ==
    CASE parseRemoteIP = Junk -> "unknown"
      [] parseRemoteIP # Junk /\ ~ipInPrefixes(parseRemoteIP) -> parseRemoteIP
      [] ipInPrefixes(parseRemoteIP) /\ forwarded = Missing ->
            IF Parses(realIP) THEN Unmap(realIP) ELSE parseRemoteIP
      [] OTHER ->
            IF \A i \in DOMAIN forwarded : Parses(forwarded[i])
            THEN LastUntrusted([i \in DOMAIN forwarded |-> Unmap(forwarded[i])])
            ELSE parseRemoteIP

-----------------------------------------------------------------------------
\* The client writes what it likes into the headers.
Init ==
    /\ sender \in Address
    /\ peer \in Spellings(sender)
    /\ forwarded \in BoundedSeq(Item, MaxItems) \ {<<>>}
    /\ realIP \in Item
    /\ hops = 0

\* A proxy at address p hands the request on and appends its own peer.
Forward(p) ==
    /\ forwarded' = IF forwarded = Missing THEN <<peer>> ELSE Append(forwarded, peer)
    /\ peer' \in Spellings(p)
    /\ UNCHANGED realIP

\* A proxy that knows X-Real-IP only.
ForwardRealIP(p) ==
    /\ forwarded' = Missing
    /\ realIP' = peer
    /\ peer' \in Spellings(p)

Next ==
    /\ hops < MaxHops
    /\ hops' = hops + 1
    /\ UNCHANGED sender
    /\ \E p \in Trusted : Forward(p) \/ ForwardRealIP(p)

Spec == Init /\ [][Next]_vars

-----------------------------------------------------------------------------
\* Whatever a client outside the trusted networks writes into the headers, and
\* through whichever trusted proxies its request comes, it is counted under its
\* own address or one of ours, never under one it chose: it can neither escape
\* its bucket by inventing addresses nor fill another client's.  When every
\* proxy appends to the chain and the client wrote no unreadable item, it is
\* counted under its own, in every spelling of the addresses on the way.
CountedAsItself ==
    sender \notin Trusted =>
        /\ clientIP \in {sender} \cup Trusted
        /\ hops = 0 \/ (/\ Len(forwarded) >= hops
                        /\ \A i \in DOMAIN forwarded : Parses(forwarded[i]))
              => clientIP = sender
=============================================================================
