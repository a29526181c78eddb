--------------------------- MODULE SocketGateway ---------------------------
(***************************************************************************)
(* The clients: a socket shows a token, is authenticated by three queries, *)
(* asks for the sales of a taxonomy term, gets a snapshot and joins the    *)
(* term's room.  Every pod broadcasts every sales message it hears to the  *)
(* room, and the Socket.IO adapter relays it to the members on the other   *)
(* pods.                                                                   *)
(*                                                                         *)
(*   link:     new -> open -> closed | dropped                             *)
(*   check:    jti -> token -> user -> done                                *)
(*   request:  idle -> term -> sessions -> get -> join -> idle             *)
(*                                                                         *)
(* A socket may go away at any await; what awaits for it goes on.          *)
(***************************************************************************)
EXTENDS SalesChannel, FiniteSets

CONSTANTS
  Sockets,     \* the connections; a client that reconnects is another one
  Users,       \* each with one token
  BadToken,    \* a token that does not verify
  NoToken,     \* nothing to take a token from
  Handshakes,  \* what a socket can present: sequences of tokens, best source first
  MaxSold,     \* bound: how many sales happen
  MaxAsked,    \* bound: how many requests are made
  Homes,       \* which pod a socket may be on: functions from Sockets to Pods
  Events,      \* what may come in between: faults "db", "redis", "lost", and "bar", "change"
  MaxEvents    \* bound: how often that happens in a behaviour

ASSUME ConstantsAssumption ==
  /\ BadToken \notin Users /\ NoToken \notin Users /\ BadToken # NoToken
  /\ Handshakes \subseteq Seq(Users \cup {BadToken, NoToken}) /\ IsFiniteSet(Sockets)
  /\ MaxSession \in Nat /\ MaxSold \in Nat /\ MaxAsked \in Nat
  /\ Homes \subseteq [Sockets -> Pods]
  /\ Events \subseteq {"db", "redis", "lost", "bar", "change"} /\ MaxEvents \in Nat

VARIABLES
  made,     \* history: made[s] sales of session s, each one INCR
  offer,    \* the counts its sellers have yet to publish
  upcoming, \* the sessions with status UPCOMING
  term,     \* the taxonomy term: "enabled" for sales, "disabled" or "inactive"
  revoked,  \* the entries <<u, by>> of the blacklist: the token of u, by its jti or as it is
  barred,   \* the users who are inactive, deleted or blocked until later
  link,     \* link[c] of a socket; "dropped": it went away during its validation
  home,     \* home[c]: its pod
  token,    \* token[c]: the token it was taken to present
  check,    \* check[c]: the next step of its validation
  barredAtConnect, \* history: the sockets whose token or user was not to get in
  user,     \* the sockets with client.user
  count,    \* count[p]: connectionCount of the gateway on pod p
  request,  \* request[c]: the next step of its request
  found,    \* found[c]: the session the request has read, 0 for none
  seen,     \* seen[c]: the count the request has read
  asked,    \* how many requests have been made
  room,     \* the sockets in the room of the term
  emitting, \* emitting[p]: the messages pod p has stored and has yet to broadcast
  relay,    \* relay[p]: the broadcasts of other pods on their way to pod p
  shown,    \* shown[c]: the count the client shows, NoKey at first
  events

shop    == <<made, offer, upcoming, term>>
account == <<revoked, barred>>
socket  == <<link, home, token, check, barredAtConnect, user, count>>
asking  == <<request, found, seen, asked>>
wire    == <<emitting, relay>>
vars    == <<sales, chan, shop, account, socket, asking, room, wire, shown, events>>

Tokens   == Users \cup {BadToken, NoToken}
Owner(c) == token[c]
Open     == {c \in Sockets : link[c] = "open"}

\* Whose token is blacklisted, or who is not to get in whatever the token.
Barred(u) == u \in barred \/ \E by \in {"jti", "token"} : <<u, by>> \in revoked

\* The sockets in the room of a user.
UserRoom(u) == {c \in Open \cap user : Owner(c) = u}

TypeOK ==
  /\ SalesOK
  /\ made \in [Sessions -> 0..MaxSold] /\ offer \subseteq Message
  /\ upcoming \subseteq Sessions /\ term \in {"enabled", "disabled", "inactive"}
  /\ revoked \subseteq Users \X {"jti", "token"} /\ barred \subseteq Users
  /\ link \in [Sockets -> {"new", "open", "closed", "dropped"}]
  /\ home \in [Sockets -> Pods] /\ token \in [Sockets -> Tokens]
  /\ check \in [Sockets -> {"none", "jti", "token", "user", "done"}]
  /\ barredAtConnect \subseteq Sockets /\ user \subseteq Sockets
  /\ count \in [Pods -> Nat]
  /\ request \in [Sockets -> {"idle", "term", "sessions", "get", "join"}]
  /\ found \in [Sockets -> {0} \cup Sessions] /\ seen \in [Sockets -> Nat] /\ asked \in 0..MaxAsked
  /\ room \subseteq Sockets
  /\ emitting \in [Pods -> Seq(Message)] /\ relay \in [Pods -> Seq(Message)]
  /\ shown \in [Sockets -> {NoKey} \cup Nat] /\ events \in 0..MaxEvents

(***************************************************************************)
(* Wrong variants of the definitions below, each the slip a change to the  *)
(* code could make; README.md says which property notices which.           *)
(***************************************************************************)
ByJtiOnly(c, by) == by = "jti" /\ <<Owner(c), by>> \in revoked
KeepsCounting(p) == count[p]
BelowZero(p)     == count[p] - 1
LocalOnly(p, q)  == q = p

(***************************************************************************)
(* Decisions of the code                                                   *)
(***************************************************************************)
\* extractTokenFromSocket: auth.token, other keys of auth, headers, any header, the query;
\* t is the first token there is.
Extracts(handshake, t) ==
  LET before(n) == \A i \in 1..(n - 1) : handshake[i] = NoToken IN
  IF t = NoToken THEN before(Len(handshake) + 1)
                 ELSE \E i \in 1..Len(handshake) : handshake[i] = t /\ before(i)

\* An entry that has not expired, found by jti or else by the token itself.
Blacklisted(c, by) == <<Owner(c), by>> \in revoked

\* isAuthenticatedSocket.
MayAsk(c) == c \in Open \cap user

\* Math.max(0, connectionCount - 1), for every socket that goes.
Decremented(p) == IF count[p] = 0 THEN 0 ELSE count[p] - 1

\* The adapter hands a broadcast of pod p to the members on pod q.
Reaches(p, q) == TRUE

\* The first of the sessions, which are numbered by priority.
FirstUpcoming(s) == IF upcoming = {} THEN s = 0 ELSE s \in upcoming /\ \A x \in upcoming : s <= x

(***************************************************************************)
(* handleConnection and handleDisconnect                                   *)
(***************************************************************************)
Init ==
  /\ sales = [s \in Sessions |-> NoKey] /\ chan = [p \in Pods |-> <<>>]
  /\ made = [s \in Sessions |-> 0] /\ offer = {} /\ upcoming = Sessions /\ term = "enabled"
  /\ revoked = {} /\ barred = {}
  /\ link = [c \in Sockets |-> "new"] /\ home \in Homes
  /\ token = [c \in Sockets |-> NoToken] /\ check = [c \in Sockets |-> "none"]
  /\ barredAtConnect = {} /\ user = {} /\ count = [p \in Pods |-> 0]
  /\ request = [c \in Sockets |-> "idle"] /\ found = [c \in Sockets |-> 0]
  /\ seen = [c \in Sockets |-> 0] /\ asked = 0 /\ room = {}
  /\ emitting = [p \in Pods |-> <<>>] /\ relay = [p \in Pods |-> <<>>]
  /\ shown = [c \in Sockets |-> NoKey] /\ events = 0

\* A socket that closes leaves its rooms.
Close(c, how) ==
  /\ link' = [link EXCEPT ![c] = how] /\ room' = room \ {c}
  /\ count' = [count EXCEPT ![home[c]] = Decremented(home[c])]

Reject(c) ==
  /\ check' = [check EXCEPT ![c] = "done"] /\ UNCHANGED <<home, token, barredAtConnect, user>>
  /\ IF link[c] = "open" THEN Close(c, "closed") ELSE UNCHANGED <<link, count, room>>

\* Up to the first query.  A socket without a token is refused before anything listens to
\* its disconnection.
Connect(c) ==
  /\ link[c] = "new"
  /\ \E handshake \in Handshakes, t \in Tokens :
       /\ Extracts(handshake, t) /\ token' = [token EXCEPT ![c] = t]
       /\ barredAtConnect' = barredAtConnect \cup (IF Barred(t) THEN {c} ELSE {})
       /\ IF t = NoToken
            THEN link' = [link EXCEPT ![c] = "closed"] /\ check' = [check EXCEPT ![c] = "done"]
            ELSE link' = [link EXCEPT ![c] = "open"] /\ check' = [check EXCEPT ![c] = "jti"]
  /\ UNCHANGED <<sales, chan, shop, account, home, user, count, asking, room, wire, shown, events>>

\* verify, then the entry of the token's jti.
CheckJti(c) ==
  /\ check[c] = "jti"
  /\ IF Owner(c) = BadToken \/ Blacklisted(c, "jti")
       THEN Reject(c)
       ELSE /\ check' = [check EXCEPT ![c] = "token"]
            /\ UNCHANGED <<link, home, token, barredAtConnect, user, count, room>>
  /\ UNCHANGED <<sales, chan, shop, account, asking, wire, shown, events>>

\* No entry: the one of the token itself.
CheckToken(c) ==
  /\ check[c] = "token"
  /\ IF Blacklisted(c, "token")
       THEN Reject(c)
       ELSE /\ check' = [check EXCEPT ![c] = "user"]
            /\ UNCHANGED <<link, home, token, barredAtConnect, user, count, room>>
  /\ UNCHANGED <<sales, chan, shop, account, asking, wire, shown, events>>

\* The user's row, client.user, the rooms of the user and the counter, also when the socket
\* has gone meanwhile.
CheckUser(c) ==
  /\ check[c] = "user"
  /\ IF Owner(c) \in barred
       THEN Reject(c)
       ELSE /\ check' = [check EXCEPT ![c] = "done"] /\ user' = user \cup {c}
            /\ count' = [count EXCEPT ![home[c]] = @ + 1]
            /\ UNCHANGED <<link, home, token, barredAtConnect, room>>
  /\ UNCHANGED <<sales, chan, shop, account, asking, wire, shown, events>>

HandleDisconnect(c) ==
  /\ c \in Open
  /\ Close(c, IF check[c] = "done" THEN "closed" ELSE "dropped")
  /\ UNCHANGED <<sales, chan, shop, account, home, token, check, barredAtConnect, user, asking,
                 wire, shown, events>>

(***************************************************************************)
(* handleSessionSales                                                      *)
(***************************************************************************)
Goto(c, step) == request' = [request EXCEPT ![c] = step]
End(c) ==
  /\ Goto(c, "idle") /\ found' = [found EXCEPT ![c] = 0] /\ seen' = [seen EXCEPT ![c] = 0]

\* Not yet authenticated: an error, and the request is over.
Ask(c) ==
  /\ c \in Open /\ request[c] = "idle" /\ asked < MaxAsked /\ asked' = asked + 1
  /\ IF MayAsk(c) THEN Goto(c, "term") ELSE UNCHANGED request
  /\ UNCHANGED <<sales, chan, shop, account, socket, found, seen, room, wire, shown, events>>

\* NotFoundException, a snapshot of nothing, or on to the sessions.
ReadTerm(c) ==
  /\ request[c] = "term"
  /\ \/ term = "inactive" /\ End(c)
     \/ term = "disabled" /\ Goto(c, "join") /\ UNCHANGED <<found, seen>>
     \/ term = "enabled" /\ Goto(c, "sessions") /\ UNCHANGED <<found, seen>>
  /\ UNCHANGED <<sales, chan, shop, account, socket, asked, room, wire, shown, events>>

ReadSessions(c) ==
  /\ request[c] = "sessions" /\ Goto(c, "get")
  /\ \E s \in {0} \cup upcoming : FirstUpcoming(s) /\ found' = [found EXCEPT ![c] = s]
  /\ UNCHANGED <<sales, chan, shop, account, socket, seen, asked, room, wire, shown, events>>

\* getSalesCount.  Without a session it is the key of the term, which nobody writes.
GetCount(c) ==
  /\ request[c] = "get" /\ Goto(c, "join")
  /\ seen' = [seen EXCEPT ![c] = IF found[c] = 0 THEN 0 ELSE Count(found[c])]
  /\ UNCHANGED <<sales, chan, shop, account, socket, found, asked, room, wire, shown, events>>

\* join does nothing on a closed socket; the snapshot also goes to the other sockets of the user.
JoinRoom(c) ==
  /\ request[c] = "join" /\ End(c)
  /\ room' = room \cup ({c} \cap Open)
  /\ shown' = [d \in Sockets |->
       IF d \in UserRoom(Owner(c)) \cup ({c} \cap Open) THEN seen[c] ELSE shown[d]]
  /\ UNCHANGED <<sales, chan, shop, account, socket, asked, wire, events>>

(***************************************************************************)
(* Sales messages: stored, then broadcast by every pod                     *)
(***************************************************************************)
Members(p) == {c \in room : home[c] = p}

StoreSale(p) ==
  /\ HandleSalesUpdate(p)
  /\ emitting' = [emitting EXCEPT ![p] = Append(@, Head(chan[p]))]
  /\ UNCHANGED <<shop, account, socket, asking, room, relay, shown, events>>

\* broadcastSalesCountUpdate.
Broadcast(p) ==
  /\ emitting[p] # <<>>
  /\ LET m == Head(emitting[p]) IN
       /\ shown' = [c \in Sockets |-> IF c \in Members(p) THEN m.count ELSE shown[c]]
       /\ relay' = [q \in Pods |-> IF q # p /\ Reaches(p, q) THEN Append(relay[q], m) ELSE relay[q]]
  /\ emitting' = [emitting EXCEPT ![p] = Tail(@)]
  /\ UNCHANGED <<sales, chan, shop, account, socket, asking, room, events>>

Deliver(p) ==
  /\ relay[p] # <<>> /\ relay' = [relay EXCEPT ![p] = Tail(@)]
  /\ shown' = [c \in Sockets |-> IF c \in Members(p) THEN Head(relay[p]).count ELSE shown[c]]
  /\ UNCHANGED <<sales, chan, shop, account, socket, asking, room, emitting, events>>

(***************************************************************************)
(* Faults and the environment                                              *)
(***************************************************************************)
Event(kind) == kind \in Events /\ events < MaxEvents /\ events' = events + 1

\* A failing query: the socket is refused, or the request ends in an exception.
QueryFails(c) ==
  /\ Event("db")
  /\ \/ check[c] \in {"jti", "token", "user"} /\ Reject(c) /\ UNCHANGED asking
     \/ request[c] \in {"term", "sessions"} /\ End(c) /\ UNCHANGED <<socket, room, asked>>
  /\ UNCHANGED <<sales, chan, shop, account, wire, shown>>

\* A failing GET counts as 0.
GetFails(c) ==
  /\ Event("redis") /\ request[c] = "get" /\ Goto(c, "join")
  /\ UNCHANGED <<sales, chan, shop, account, socket, found, seen, asked, room, wire, shown>>

\* A failing SET is logged and the message broadcast all the same.
SetFails(p) ==
  /\ Event("redis") /\ StoreFails(p)
  /\ emitting' = [emitting EXCEPT ![p] = Append(@, Head(chan[p]))]
  /\ UNCHANGED <<shop, account, socket, asking, room, relay, shown>>

SubscriberFails(p) ==
  /\ Event("lost") /\ Disconnect(p)
  /\ UNCHANGED <<shop, account, socket, asking, room, wire, shown>>

RelayFails(p) ==
  /\ Event("lost") /\ relay[p] # <<>> /\ relay' = [relay EXCEPT ![p] = <<>>]
  /\ UNCHANGED <<sales, chan, shop, account, socket, asking, room, emitting, shown>>

\* A seller counts, and publishes later.
Sell(s) ==
  /\ s \in upcoming /\ made[s] < MaxSold
  /\ Incr(s) /\ made' = [made EXCEPT ![s] = @ + 1]
  /\ offer' = offer \cup {[session |-> s, count |-> Count(s) + 1]}
  /\ UNCHANGED <<chan, upcoming, term, account, socket, asking, room, wire, shown, events>>

Publish(m) ==
  /\ m \in offer /\ PublishTo(Pods, m.session, m.count) /\ offer' = offer \ {m}
  /\ UNCHANGED <<sales, made, upcoming, term, account, socket, asking, room, wire, shown, events>>

\* A session starts; the sales of its term are disabled, or the term is.
Change ==
  /\ Event("change")
  /\ \/ \E s \in upcoming : upcoming' = upcoming \ {s} /\ UNCHANGED term
     \/ /\ term = "enabled" /\ term' \in {"disabled", "inactive"} /\ UNCHANGED upcoming
  /\ UNCHANGED <<sales, chan, made, offer, account, socket, asking, room, wire, shown>>

\* The shop revokes a token, or bars a user.
Bar(u) ==
  /\ Event("bar")
  /\ ~Barred(u)
  /\ \/ \E by \in {"jti", "token"} : revoked' = revoked \cup {<<u, by>>} /\ UNCHANGED barred
     \/ barred' = barred \cup {u} /\ UNCHANGED revoked
  /\ UNCHANGED <<sales, chan, shop, socket, asking, room, wire, shown>>

Validate(c) == CheckJti(c) \/ CheckToken(c) \/ CheckUser(c)
Serve(c)    == ReadTerm(c) \/ ReadSessions(c) \/ GetCount(c) \/ JoinRoom(c)
Fail ==
  \/ \E c \in Sockets : QueryFails(c) \/ GetFails(c)
  \/ \E p \in Pods : SetFails(p) \/ SubscriberFails(p) \/ RelayFails(p)

Next ==
  \/ \E c \in Sockets : Connect(c) \/ Validate(c) \/ HandleDisconnect(c) \/ Ask(c) \/ Serve(c)
  \/ \E p \in Pods : StoreSale(p) \/ Broadcast(p) \/ Deliver(p)
  \/ \E s \in Sessions : Sell(s)
  \/ \E m \in offer : Publish(m)
  \/ Change \/ \E u \in Users : Bar(u)
  \/ Fail

Spec == Init /\ [][Next]_vars

\* What has begun goes on: the pods' connections deliver, and a broadcast is one synchronous call.
Fairness == \A p \in Pods : WF_vars(StoreSale(p)) /\ WF_vars(Broadcast(p)) /\ WF_vars(Deliver(p))
FairSpec == Spec /\ Fairness

(***************************************************************************)
(* Properties                                                              *)
(***************************************************************************)
\* The numbers on the screens.  Stored, read, broadcast, relayed and repeated to other tabs, a
\* count never exceeds what was sold (handleSalesUpdate, broadcastSalesCountUpdate).
NeverShowsUnsold == \A c \in Sockets : shown[c] > 0 => \E s \in Sessions : shown[c] <= made[s]

\* Only who was let in.  Whatever awaited when a socket went away or was refused, the members
\* of the room are open and authenticated (handleSessionSales, rejectConnection); a token
\* revoked, or a user barred, before the connection is never authenticated (validateToken).
AdmittedOnly ==
  /\ room \subseteq Open \cap user
  /\ user \cap barredAtConnect = {}

Live(p)   == {c \in Open \cap user : home[c] = p}
Ghosts(p) == {c \in user : home[c] = p /\ link[c] = "dropped"}

\* connectionCount counts at most the authenticated sockets, and those that left while they
\* were validated, which nobody takes off again (handleConnection, handleDisconnect).
NeverCountsMore == \A p \in Pods : count[p] <= Cardinality(Live(p) \cup Ghosts(p))

\* "WebSocket connection milestone: ... total connections (authenticated)"
\* (socket.gateway.ts:376).
CountsAuthenticated == \A p \in Pods : count[p] = Cardinality(Live(p))

Asking(u) == \E c \in Sockets : Owner(c) = u /\ request[c] # "idle"
OnItsWay(m) == \A p \in Pods : \E i \in DOMAIN chan[p] : chan[p][i] = m

\* Real-time updates.  A count published while a socket is in the room is shown to it, even if
\* one pod's subscriber or one relay loses it, unless the user asks for a snapshot meanwhile.
PublishedIsShown ==
  \A c \in Sockets, m \in [session : Sessions, count : 1..MaxSold] :
    (c \in room /\ OnItsWay(m)) ~> (shown[c] = m.count \/ c \notin room \/ Asking(Owner(c)))
=============================================================================
