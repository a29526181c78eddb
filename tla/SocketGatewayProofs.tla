------------------------ MODULE SocketGatewayProofs ------------------------
(***************************************************************************)
(* Proofs about SocketGateway for any pods, sockets, users, sessions and   *)
(* events.                                                                 *)
(***************************************************************************)
EXTENDS SocketGateway, TLAPS, FiniteSetTheorems, SequenceTheorems

(***************************************************************************)
(* Types                                                                   *)
(***************************************************************************)
LEMMA InitTypes == Init => TypeOK
<1> SUFFICES ASSUME Init PROVE TypeOK
  OBVIOUS
<1>1. <<>> \in Seq(Message)
  BY EmptySeq
<1>2. 0 \in 0..MaxSold /\ 0 \in 0..MaxAsked /\ 0 \in 0..MaxEvents /\ home \in [Sockets -> Pods]
  BY ConstantsAssumption DEF Init, ConstantsAssumption
<1> QED
  BY <1>1, <1>2 DEF Init, TypeOK, SalesOK, Tokens

LEMMA CountType ==
  ASSUME SalesOK, NEW s \in Sessions
  PROVE  Count(s) \in Nat
BY DEF SalesOK, Count, NoKey

LEMMA TailType ==
  ASSUME NEW s \in Seq(Message), s # <<>>
  PROVE  Tail(s) \in Seq(Message) /\ Head(s) \in Message
BY HeadTailProperties

LEMMA AppendType ==
  ASSUME NEW s \in Seq(Message), NEW m \in Message
  PROVE  Append(s, m) \in Seq(Message)
BY AppendProperties

LEMMA CloseType ==
  ASSUME TypeOK, NEW c \in Sockets, NEW how \in {"closed", "dropped"}, Close(c, how)
  PROVE  /\ link' \in [Sockets -> {"new", "open", "closed", "dropped"}]
         /\ room' \subseteq Sockets /\ count' \in [Pods -> Nat]
<1>1. home[c] \in Pods /\ count[home[c]] \in Nat
  BY DEF TypeOK
<1>2. Decremented(home[c]) \in Nat
  BY <1>1 DEF Decremented
<1> QED
  BY <1>1, <1>2 DEF Close, TypeOK

LEMMA RejectType ==
  ASSUME TypeOK, NEW c \in Sockets, Reject(c)
  PROVE  /\ link' \in [Sockets -> {"new", "open", "closed", "dropped"}]
         /\ room' \subseteq Sockets /\ count' \in [Pods -> Nat]
         /\ check' \in [Sockets -> {"none", "jti", "token", "user", "done"}]
         /\ UNCHANGED <<home, token, barredAtConnect, user>>
<1>1. CASE link[c] = "open"
  BY <1>1, CloseType DEF Reject, TypeOK
<1>2. CASE link[c] # "open"
  BY <1>2 DEF Reject, TypeOK
<1> QED
  BY <1>1, <1>2

\* The actions on a socket, those on a request, those on messages.
SocketStep(c) ==
  \/ Connect(c) \/ Validate(c) \/ HandleDisconnect(c)
  \/ QueryFails(c) /\ check[c] \in {"jti", "token", "user"} /\ Reject(c) /\ UNCHANGED asking
RequestStep(c) ==
  \/ Ask(c) \/ Serve(c) \/ GetFails(c)
  \/ QueryFails(c) /\ End(c) /\ UNCHANGED <<socket, room, asked>>
WireStep(p) ==
  StoreSale(p) \/ Broadcast(p) \/ Deliver(p) \/ SetFails(p) \/ SubscriberFails(p) \/ RelayFails(p)

LEMMA Kinds ==
  ASSUME [Next]_vars
  PROVE  \/ \E c \in Sockets : SocketStep(c) \/ RequestStep(c)
         \/ \E p \in Pods : WireStep(p)
         \/ \E s \in Sessions : Sell(s)
         \/ \E m \in offer : Publish(m)
         \/ Change \/ \E u \in Users : Bar(u)
         \/ UNCHANGED vars
<1>1. ASSUME NEW c \in Sockets, QueryFails(c) PROVE SocketStep(c) \/ RequestStep(c)
  BY <1>1 DEF QueryFails, SocketStep, RequestStep
<1> QED
  BY <1>1 DEF Next, Fail, SocketStep, RequestStep, WireStep

\* What an action on a socket leaves alone.
LEMMA SocketFrame ==
  ASSUME NEW c \in Sockets, SocketStep(c)
  PROVE  UNCHANGED <<sales, chan, shop, account, asking, wire, shown, home>>
BY DEF SocketStep, Connect, Validate, CheckJti, CheckToken, CheckUser, HandleDisconnect, QueryFails,
       Reject, socket, asking

LEMMA EventType ==
  ASSUME TypeOK, NEW kind, Event(kind)
  PROVE  events' \in 0..MaxEvents
BY ConstantsAssumption DEF Event, TypeOK, ConstantsAssumption

LEMMA SocketTypes ==
  ASSUME TypeOK, NEW c \in Sockets, SocketStep(c)
  PROVE  /\ link' \in [Sockets -> {"new", "open", "closed", "dropped"}]
         /\ room' \subseteq Sockets /\ count' \in [Pods -> Nat]
         /\ check' \in [Sockets -> {"none", "jti", "token", "user", "done"}]
         /\ token' \in [Sockets -> Tokens]
         /\ barredAtConnect' \subseteq Sockets /\ user' \subseteq Sockets
         /\ events' \in 0..MaxEvents
<1>1. CASE Connect(c)
  <2>1. PICK t \in Tokens :
          /\ token' = [token EXCEPT ![c] = t]
          /\ barredAtConnect' = barredAtConnect \cup (IF Barred(t) THEN {c} ELSE {})
          /\ \/ link' = [link EXCEPT ![c] = "closed"] /\ check' = [check EXCEPT ![c] = "done"]
             \/ link' = [link EXCEPT ![c] = "open"] /\ check' = [check EXCEPT ![c] = "jti"]
    BY <1>1 DEF Connect
  <2>2. UNCHANGED <<user, count, room, events>>
    BY <1>1 DEF Connect
  <2> QED
    BY <2>1, <2>2 DEF TypeOK
<1>2. CASE CheckJti(c)
  BY <1>2, RejectType DEF CheckJti, TypeOK
<1>3. CASE CheckToken(c)
  BY <1>3, RejectType DEF CheckToken, TypeOK
<1>4. CASE CheckUser(c)
  <2>1. home[c] \in Pods /\ count[home[c]] + 1 \in Nat
    BY DEF TypeOK
  <2>2. UNCHANGED events
    BY <1>4 DEF CheckUser
  <2>3. CASE Owner(c) \in barred
    BY <1>4, <2>2, <2>3, RejectType DEF CheckUser, TypeOK
  <2>4. CASE Owner(c) \notin barred
    <3>1. /\ check' = [check EXCEPT ![c] = "done"] /\ user' = user \cup {c}
          /\ count' = [count EXCEPT ![home[c]] = @ + 1]
          /\ UNCHANGED <<link, token, barredAtConnect, room>>
      BY <1>4, <2>4 DEF CheckUser
    <3>2. count' \in [Pods -> Nat]
      BY <2>1, <3>1 DEF TypeOK
    <3> QED
      BY <2>2, <3>1, <3>2 DEF TypeOK
  <2> QED
    BY <2>3, <2>4
<1>5. CASE HandleDisconnect(c)
  BY <1>5, CloseType DEF HandleDisconnect, TypeOK
<1>6. CASE QueryFails(c) /\ Reject(c)
  BY <1>6, RejectType, EventType DEF QueryFails, TypeOK
<1> QED
  BY <1>1, <1>2, <1>3, <1>4, <1>5, <1>6 DEF SocketStep, Validate

LEMMA RequestTypes ==
  ASSUME TypeOK, NEW c \in Sockets, RequestStep(c)
  PROVE  TypeOK'
<1> USE DEF TypeOK, SalesOK, shop, account, socket, wire
<1>1. CASE Ask(c)
  <2>1. asked' \in 0..MaxAsked
    BY <1>1, ConstantsAssumption DEF Ask, ConstantsAssumption
  <2> QED
    BY <1>1, <2>1 DEF Ask, Goto
<1>2. CASE ReadTerm(c)
  <2>1. 0 \in {0} \cup Sessions /\ 0 \in Nat
    OBVIOUS
  <2>2. CASE End(c)
    BY <1>2, <2>1, <2>2 DEF ReadTerm, Goto, End
  <2>3. CASE ~End(c)
    BY <1>2, <2>3 DEF ReadTerm, Goto
  <2> QED
    BY <2>2, <2>3
<1>3. CASE ReadSessions(c)
  BY <1>3 DEF ReadSessions, Goto
<1>4. CASE GetCount(c)
  <2>1. found[c] # 0 => Count(found[c]) \in Nat
    BY CountType
  <2> QED
    BY <1>4, <2>1 DEF GetCount, Goto
<1>5. CASE JoinRoom(c)
  BY <1>5 DEF JoinRoom, Goto, End, Open
<1>6. CASE GetFails(c)
  BY <1>6, EventType DEF GetFails, Goto
<1>7. CASE QueryFails(c) /\ End(c) /\ UNCHANGED <<socket, room, asked>>
  BY <1>7, EventType DEF QueryFails, End, Goto
<1> QED
  BY <1>1, <1>2, <1>3, <1>4, <1>5, <1>6, <1>7 DEF RequestStep, Serve

LEMMA ChannelTypes ==
  ASSUME TypeOK, NEW p \in Pods, HandleSalesUpdate(p) \/ StoreFails(p) \/ Disconnect(p)
  PROVE  SalesOK' /\ chan[p] # <<>> /\ Head(chan[p]) \in Message
<1>1. chan[p] # <<>> /\ chan[p] \in Seq(Message)
  BY DEF HandleSalesUpdate, StoreFails, Disconnect, TypeOK, SalesOK
<1>2. Tail(chan[p]) \in Seq(Message) /\ Head(chan[p]) \in Message /\ <<>> \in Seq(Message)
  BY <1>1, TailType, EmptySeq
<1> QED
  <2>1. CASE HandleSalesUpdate(p)
    BY <1>1, <1>2, <2>1 DEF HandleSalesUpdate, Overwrite, TypeOK, SalesOK, Message
  <2>2. CASE StoreFails(p)
    BY <1>1, <1>2, <2>2 DEF StoreFails, TypeOK, SalesOK
  <2>3. CASE Disconnect(p)
    BY <1>1, <1>2, <2>3 DEF Disconnect, TypeOK, SalesOK
  <2> QED
    BY <2>1, <2>2, <2>3

LEMMA WireTypes ==
  ASSUME TypeOK, NEW p \in Pods, WireStep(p)
  PROVE  TypeOK'
<1> USE DEF shop, account, socket, asking
<1>1. CASE StoreSale(p) \/ SetFails(p)
  <2>1. SalesOK' /\ Head(chan[p]) \in Message
    BY <1>1, ChannelTypes DEF StoreSale, SetFails
  <2>2. emitting' \in [Pods -> Seq(Message)]
    <3>1. Append(emitting[p], Head(chan[p])) \in Seq(Message)
      BY <2>1, AppendType DEF TypeOK
    <3> QED
      BY <1>1, <3>1 DEF StoreSale, SetFails, TypeOK
  <2>3. events' \in 0..MaxEvents
    BY <1>1, EventType DEF StoreSale, SetFails, TypeOK
  <2> QED
    BY <1>1, <2>1, <2>2, <2>3 DEF StoreSale, SetFails, TypeOK
<1>2. CASE SubscriberFails(p)
  BY <1>2, ChannelTypes, EventType DEF SubscriberFails, TypeOK, wire
<1>3. CASE Broadcast(p)
  <2>1. emitting[p] # <<>> /\ Head(emitting[p]) \in Message /\ Tail(emitting[p]) \in Seq(Message)
    BY <1>3, TailType DEF Broadcast, TypeOK
  <2>2. Head(emitting[p]).count \in Nat
    BY <2>1 DEF Message
  <2>3. emitting' \in [Pods -> Seq(Message)] /\ shown' \in [Sockets -> {NoKey} \cup Nat]
    BY <1>3, <2>1, <2>2 DEF Broadcast, TypeOK
  <2>4. relay' \in [Pods -> Seq(Message)]
    <3>1. \A q \in Pods : Append(relay[q], Head(emitting[p])) \in Seq(Message)
      BY <2>1, AppendType DEF TypeOK
    <3> QED
      BY <1>3, <3>1 DEF Broadcast, TypeOK
  <2> QED
    BY <1>3, <2>3, <2>4 DEF Broadcast, TypeOK, SalesOK
<1>4. CASE Deliver(p)
  <2>1. relay[p] # <<>> /\ Head(relay[p]) \in Message /\ Tail(relay[p]) \in Seq(Message)
    BY <1>4, TailType DEF Deliver, TypeOK
  <2>2. Head(relay[p]).count \in Nat
    BY <2>1 DEF Message
  <2> QED
    BY <1>4, <2>1, <2>2 DEF Deliver, TypeOK, SalesOK
<1>5. CASE RelayFails(p)
  BY <1>5, EventType, EmptySeq DEF RelayFails, TypeOK, SalesOK
<1> QED
  BY <1>1, <1>2, <1>3, <1>4, <1>5 DEF WireStep

LEMMA ShopTypes ==
  ASSUME TypeOK,
         \/ \E s \in Sessions : Sell(s)
         \/ \E m \in offer : Publish(m)
         \/ Change \/ \E u \in Users : Bar(u)
  PROVE  TypeOK'
<1> USE DEF account, socket, asking, wire, shop
<1>1. ASSUME NEW s \in Sessions, Sell(s) PROVE TypeOK'
  <2>1. Count(s) \in Nat
    BY CountType DEF TypeOK
  <2>2. [session |-> s, count |-> Count(s) + 1] \in Message
    BY <2>1 DEF Message
  <2>3. made' \in [Sessions -> 0..MaxSold]
    BY <1>1, ConstantsAssumption DEF Sell, TypeOK, ConstantsAssumption
  <2> QED
    BY <1>1, <2>1, <2>2, <2>3 DEF Sell, Incr, TypeOK, SalesOK
<1>2. ASSUME NEW m \in offer, Publish(m) PROVE TypeOK'
  <2>1. m \in Message /\ m = [session |-> m.session, count |-> m.count]
    BY DEF TypeOK, Message
  <2>2. \A p \in Pods : chan'[p] = Append(chan[p], m) /\ Append(chan[p], m) \in Seq(Message)
    BY <1>2, <2>1, AppendType DEF Publish, PublishTo, TypeOK, SalesOK
  <2> QED
    BY <1>2, <2>2 DEF Publish, PublishTo, TypeOK, SalesOK
<1>3. CASE Change
  BY <1>3, EventType DEF Change, TypeOK, SalesOK
<1>4. ASSUME NEW u \in Users, Bar(u) PROVE TypeOK'
  <2>1. revoked' \subseteq Users \X {"jti", "token"} /\ barred' \subseteq Users
    BY <1>4 DEF Bar, TypeOK
  <2> QED
    BY <1>4, <2>1, EventType, SMTT(30) DEF Bar, TypeOK, SalesOK
<1> QED
  BY <1>1, <1>2, <1>3, <1>4

LEMMA StepTypes == TypeOK /\ [Next]_vars => TypeOK'
<1> SUFFICES ASSUME TypeOK, [Next]_vars PROVE TypeOK'
  OBVIOUS
<1>1. ASSUME NEW c \in Sockets, SocketStep(c) PROVE TypeOK'
  BY <1>1, SocketFrame, SocketTypes DEF TypeOK, SalesOK, shop, account, asking, wire
<1>2. CASE UNCHANGED vars
  BY <1>2 DEF vars, TypeOK, SalesOK, shop, account, socket, asking, wire
<1> QED
  BY <1>1, <1>2, Kinds, RequestTypes, WireTypes, ShopTypes

\* Every variable keeps its type, whatever comes and goes.
THEOREM TypeCorrect == Spec => []TypeOK
BY InitTypes, StepTypes, PTL DEF Spec

(***************************************************************************)
(* Who gets in.  From the connection on, an entry that bars a socket is    *)
(* found by one of the queries still to come; none disappears.             *)
(***************************************************************************)
WillRefuse(c) ==
  /\ check[c] = "jti" => Barred(Owner(c))
  /\ check[c] = "token" => Owner(c) \in barred \/ <<Owner(c), "token">> \in revoked
  /\ check[c] = "user" => Owner(c) \in barred
  /\ check[c] # "none" /\ link[c] # "new" /\ c \notin user

Checking(c) == check[c] \in {"jti", "token", "user"}

AdmitInv ==
  /\ room \subseteq Open \cap user
  /\ \A c \in Sockets : request[c] # "idle" => c \in user
  /\ \A c \in Sockets : link[c] = "new" <=> check[c] = "none"
  /\ \A c \in Sockets : check[c] = "none" \/ Checking(c) => c \notin user
  /\ \A c \in Sockets : Checking(c) => link[c] \in {"open", "dropped"}
  /\ \A c \in barredAtConnect : WillRefuse(c)

\* What an action on socket c does to all the others.
LEMMA OtherSockets ==
  ASSUME TypeOK, NEW c \in Sockets, SocketStep(c), NEW d \in Sockets, d # c
  PROVE  /\ check'[d] = check[d] /\ link'[d] = link[d] /\ token'[d] = token[d]
         /\ d \in user' <=> d \in user
         /\ d \in room' <=> d \in room
         /\ d \in barredAtConnect' <=> d \in barredAtConnect
<1>1. CASE Connect(c)
  BY <1>1 DEF Connect, TypeOK
<1>2. CASE Validate(c)
  BY <1>2 DEF Validate, CheckJti, CheckToken, CheckUser, Reject, Close, TypeOK
<1>3. CASE HandleDisconnect(c)
  BY <1>3 DEF HandleDisconnect, Close, TypeOK
<1>4. CASE Reject(c)
  BY <1>4 DEF Reject, Close, TypeOK
<1> QED
  BY <1>1, <1>2, <1>3, <1>4 DEF SocketStep

\* Refused is refused: neither authenticated, nor open, nor in the room.
LEMMA Refused ==
  ASSUME TypeOK, AdmitInv, NEW c \in Sockets, Checking(c), Reject(c)
  PROVE  /\ check'[c] = "done" /\ c \notin user' /\ c \notin room' /\ link'[c] # "new"
         /\ c \in barredAtConnect' <=> c \in barredAtConnect
BY DEF Reject, Close, TypeOK, AdmitInv, Checking

\* What an action on socket c does to c.
LEMMA ThisSocket ==
  ASSUME TypeOK, AdmitInv, NEW c \in Sockets, SocketStep(c)
  PROVE  /\ c \in room' => c \in user' /\ link'[c] = "open"
         /\ c \in user => c \in user'
         /\ link'[c] # "new" /\ check'[c] # "none"
         /\ check'[c] \in {"jti", "token", "user"} => c \notin user' /\ link'[c] \in {"open", "dropped"}
         /\ c \in barredAtConnect' => WillRefuse(c)'
<1>0. UNCHANGED <<revoked, barred>>
  BY SocketFrame DEF account
<1>1. CASE Connect(c)
  <2>1. PICK t \in Tokens :
          /\ token' = [token EXCEPT ![c] = t]
          /\ barredAtConnect' = barredAtConnect \cup (IF Barred(t) THEN {c} ELSE {})
          /\ \/ link' = [link EXCEPT ![c] = "closed"] /\ check' = [check EXCEPT ![c] = "done"]
             \/ link' = [link EXCEPT ![c] = "open"] /\ check' = [check EXCEPT ![c] = "jti"]
    BY <1>1 DEF Connect
  <2>2. link[c] = "new" /\ c \notin user /\ c \notin barredAtConnect /\ c \notin room /\ UNCHANGED <<user, room>>
    BY <1>1 DEF Connect, AdmitInv, WillRefuse, Open
  <2>3. Owner(c)' = t /\ (Barred(t)' <=> Barred(t)) /\ (c \in barredAtConnect' => Barred(t))
    BY <1>0, <2>1, <2>2 DEF Owner, Barred, TypeOK
  <2> QED
    BY <2>1, <2>2, <2>3 DEF WillRefuse, Barred, Owner, TypeOK
<1>2. CASE Checking(c) /\ Reject(c)
  BY <1>2, Refused DEF WillRefuse, AdmitInv, Checking
<1>3. CASE CheckJti(c) /\ ~Reject(c)
  <2>1. /\ ~Blacklisted(c, "jti") /\ check' = [check EXCEPT ![c] = "token"] /\ check[c] = "jti"
        /\ UNCHANGED <<link, token, barredAtConnect, user, room>>
    BY <1>3 DEF CheckJti
  <2> QED
    BY <1>0, <2>1 DEF AdmitInv, Checking, WillRefuse, Barred, Blacklisted, Owner, TypeOK, Open
<1>4. CASE CheckToken(c) /\ ~Reject(c)
  <2>1. /\ ~Blacklisted(c, "token") /\ check' = [check EXCEPT ![c] = "user"] /\ check[c] = "token"
        /\ UNCHANGED <<link, token, barredAtConnect, user, room>>
    BY <1>4 DEF CheckToken
  <2> QED
    BY <1>0, <2>1 DEF AdmitInv, Checking, WillRefuse, Barred, Blacklisted, Owner, TypeOK, Open
<1>5. CASE CheckUser(c) /\ ~Reject(c)
  <2>1. /\ Owner(c) \notin barred /\ check' = [check EXCEPT ![c] = "done"] /\ check[c] = "user"
        /\ user' = user \cup {c} /\ UNCHANGED <<link, token, barredAtConnect, room>>
    BY <1>5 DEF CheckUser
  <2> QED
    BY <1>0, <2>1 DEF AdmitInv, Checking, WillRefuse, Owner, TypeOK, Open
<1>6. CASE HandleDisconnect(c)
  <2>1. /\ link[c] = "open" /\ link'[c] = IF check[c] = "done" THEN "closed" ELSE "dropped"
        /\ c \notin room' /\ UNCHANGED <<token, check, barredAtConnect, user>>
    BY <1>6 DEF HandleDisconnect, Close, Open, TypeOK
  <2> QED
    BY <1>0, <2>1 DEF AdmitInv, Checking, WillRefuse, Barred, Owner, TypeOK
<1> QED
  BY <1>1, <1>2, <1>3, <1>4, <1>5, <1>6
     DEF SocketStep, Validate, CheckJti, CheckToken, CheckUser, Checking

LEMMA SocketAdmits ==
  ASSUME TypeOK, AdmitInv, NEW c \in Sockets, SocketStep(c)
  PROVE  AdmitInv'
<1>1. UNCHANGED <<request, revoked, barred>>
  BY SocketFrame DEF asking, account
<1>2. room' \subseteq Sockets /\ user' \subseteq Sockets /\ barredAtConnect' \subseteq Sockets
  BY SocketTypes
<1>3. ASSUME NEW d \in Sockets
      PROVE  /\ d \in room' => d \in user' /\ link'[d] = "open"
             /\ request'[d] # "idle" => d \in user'
             /\ link'[d] = "new" <=> check'[d] = "none"
             /\ check'[d] = "none" \/ Checking(d)' => d \notin user'
             /\ Checking(d)' => link'[d] \in {"open", "dropped"}
             /\ d \in barredAtConnect' => WillRefuse(d)'
  <2>1. CASE d = c
    BY <1>1, <2>1, ThisSocket DEF AdmitInv, Checking
  <2>2. CASE d # c
    BY <1>1, <2>2, OtherSockets DEF AdmitInv, Checking, WillRefuse, Open, Owner, Barred
  <2> QED
    BY <2>1, <2>2
<1> QED
  BY <1>2, <1>3 DEF AdmitInv, Open

LEMMA RequestAdmits ==
  ASSUME TypeOK, AdmitInv, NEW c \in Sockets, RequestStep(c)
  PROVE  AdmitInv'
<1>1. UNCHANGED <<link, check, token, user, barredAtConnect, revoked, barred>>
  BY DEF RequestStep, Ask, Serve, ReadTerm, ReadSessions, GetCount, JoinRoom, GetFails, QueryFails,
         socket, account
<1>2. \A d \in Sockets : request'[d] # "idle" => d \in user
  BY DEF RequestStep, Ask, Serve, ReadTerm, ReadSessions, GetCount, JoinRoom, GetFails, QueryFails,
         Goto, End, MayAsk, AdmitInv, TypeOK, Open
<1>3. room' \subseteq Open \cap user
  <2>1. CASE JoinRoom(c)
    BY <2>1 DEF JoinRoom, AdmitInv
  <2>2. CASE ~JoinRoom(c)
    BY <2>2 DEF RequestStep, Ask, Serve, ReadTerm, ReadSessions, GetCount, GetFails, QueryFails,
                AdmitInv
  <2> QED
    BY <2>1, <2>2
<1> QED
  BY <1>1, <1>2, <1>3 DEF AdmitInv, Open, Checking, WillRefuse, Barred, Owner

LEMMA StepAdmits == TypeOK /\ AdmitInv /\ [Next]_vars => AdmitInv'
<1> SUFFICES ASSUME TypeOK, AdmitInv, [Next]_vars PROVE AdmitInv'
  OBVIOUS
<1>1. ASSUME UNCHANGED <<link, check, token, user, barredAtConnect, room, request>>,
             revoked \subseteq revoked', barred \subseteq barred'
      PROVE  AdmitInv'
  BY <1>1 DEF AdmitInv, Open, Checking, WillRefuse, Barred, Owner
<1>2. ASSUME NEW p \in Pods, WireStep(p) PROVE AdmitInv'
  BY <1>1, <1>2 DEF WireStep, StoreSale, Broadcast, Deliver, SetFails, SubscriberFails, RelayFails,
                    socket, asking, account
<1>3. ASSUME NEW s \in Sessions, Sell(s) PROVE AdmitInv'
  BY <1>1, <1>3 DEF Sell, socket, asking, account
<1>4. ASSUME NEW m \in offer, Publish(m) PROVE AdmitInv'
  BY <1>1, <1>4 DEF Publish, socket, asking, account
<1>5. CASE Change
  BY <1>1, <1>5 DEF Change, socket, asking, account
<1>6. ASSUME NEW u \in Users, Bar(u) PROVE AdmitInv'
  BY <1>1, <1>6 DEF Bar, socket, asking
<1>7. CASE UNCHANGED vars
  BY <1>1, <1>7 DEF vars, socket, asking, account
<1> QED
  BY <1>2, <1>3, <1>4, <1>5, <1>6, <1>7, Kinds, SocketAdmits, RequestAdmits

LEMMA AlwaysAdmits == Spec => [](TypeOK /\ AdmitInv)
<1>1. Init => AdmitInv
  BY DEF Init, AdmitInv, Checking
<1> QED
  BY <1>1, InitTypes, StepTypes, StepAdmits, PTL DEF Spec

\* Whatever awaited when a socket went away or was refused, the members of the room are open
\* and authenticated, and nobody barred before the connection ever is.
THEOREM OnlyAdmitted == Spec => []AdmittedOnly
<1>1. AdmitInv => AdmittedOnly
  BY DEF AdmitInv, AdmittedOnly, WillRefuse
<1> QED
  BY <1>1, AlwaysAdmits, PTL

(***************************************************************************)
(* connectionCount                                                         *)
(***************************************************************************)
Counted(p) == Live(p) \cup Ghosts(p)

LEMMA CountedMember ==
  ASSUME TypeOK, NEW p \in Pods
  PROVE  /\ IsFiniteSet(Counted(p)) /\ Counted(p) \in SUBSET Sockets
         /\ \A c \in Sockets : c \in Counted(p) <=>
              c \in user /\ home[c] = p /\ link[c] \in {"open", "dropped"}
<1>1. /\ Counted(p) \in SUBSET Sockets
      /\ \A c \in Sockets : c \in Counted(p) <=>
           c \in user /\ home[c] = p /\ link[c] \in {"open", "dropped"}
  BY DEF Counted, Live, Ghosts, Open, TypeOK
<1> QED
  BY <1>1, FS_Subset, ConstantsAssumption DEF ConstantsAssumption

LEMMA StepCounts == TypeOK /\ AdmitInv /\ NeverCountsMore /\ [Next]_vars => NeverCountsMore'
<1> SUFFICES ASSUME TypeOK, AdmitInv, NeverCountsMore, [Next]_vars, NEW p \in Pods
             PROVE  count'[p] <= Cardinality(Counted(p)')
  BY DEF NeverCountsMore, Counted
<1>0. /\ TypeOK' /\ IsFiniteSet(Counted(p)) /\ count[p] \in Nat /\ count'[p] \in Nat
      /\ Cardinality(Counted(p)) \in Nat /\ count[p] <= Cardinality(Counted(p))
  <2>1. TypeOK'
    BY StepTypes
  <2>2. count[p] \in Nat /\ count'[p] \in Nat
    BY <2>1 DEF TypeOK
  <2>3. IsFiniteSet(Counted(p)) /\ Cardinality(Counted(p)) \in Nat
    BY CountedMember, FS_CardinalityType
  <2>4. count[p] <= Cardinality(Counted(p))
    BY DEF NeverCountsMore, Counted
  <2> QED
    BY <2>1, <2>2, <2>3, <2>4
<1>1. ASSUME UNCHANGED <<user, home, link, count>>
      PROVE  count'[p] <= Cardinality(Counted(p)')
  <2>1. Counted(p)' = Counted(p)
    BY <1>1 DEF Counted, Live, Ghosts, Open
  <2> QED
    BY <1>0, <1>1, <2>1
<1>2. ASSUME NEW c \in Sockets, SocketStep(c)
      PROVE  count'[p] <= Cardinality(Counted(p)')
  <2>0. /\ home' = home /\ Counted(p) \subseteq Sockets /\ (Counted(p)') \subseteq Sockets
        /\ \A d \in Sockets : d \in Counted(p) <=>
             d \in user /\ home[d] = p /\ link[d] \in {"open", "dropped"}
        /\ \A d \in Sockets : d \in Counted(p)' <=>
             d \in user' /\ home'[d] = p /\ link'[d] \in {"open", "dropped"}
    <3>1. home' = home
      BY <1>2, SocketFrame
    <3>2. user' \subseteq Sockets
      BY <1>2, SocketTypes
    <3> QED
      BY <3>1, <3>2, CountedMember DEF Counted, Live, Ghosts, Open
  <2>1. \A d \in Sockets : d # c => (d \in Counted(p)' <=> d \in Counted(p))
    BY <1>2, <2>0, OtherSockets
  <2>2. ASSUME count'[p] <= count[p], c \in Counted(p) => c \in Counted(p)' \/ count[p] = 0 \/ count'[p] < count[p]
        PROVE  count'[p] <= Cardinality(Counted(p)')
    <3>1. CASE c \in Counted(p) /\ c \notin Counted(p)'
      <4>1. Counted(p)' = Counted(p) \ {c}
        BY <2>0, <2>1, <3>1
      <4>2. Cardinality(Counted(p) \ {c}) = Cardinality(Counted(p)) - 1
        BY <1>0, <3>1, FS_RemoveElement
      <4>3. Cardinality(Counted(p)) # 0
        BY <1>0, <3>1, FS_EmptySet
      <4> QED
        BY <1>0, <2>2, <3>1, <4>1, <4>2, <4>3
    <3>2. CASE c \in Counted(p) <=> c \in Counted(p)'
      <4>1. Counted(p)' = Counted(p)
        BY <2>0, <2>1, <3>2
      <4> QED
        BY <1>0, <2>2, <4>1
    <3>3. CASE c \notin Counted(p) /\ c \in Counted(p)'
      <4>1. Counted(p)' = Counted(p) \cup {c}
        BY <2>0, <2>1, <3>3
      <4>2. Cardinality(Counted(p) \cup {c}) = Cardinality(Counted(p)) + 1
        BY <1>0, <3>3, FS_AddElement
      <4> QED
        BY <1>0, <2>2, <4>1, <4>2
    <3> QED
      BY <3>1, <3>2, <3>3
  <2>3. ASSUME Close(c, "closed") \/ Close(c, "dropped"), c \in Open
        PROVE  /\ count'[p] <= count[p]
               /\ home[c] = p => count[p] = 0 \/ count'[p] < count[p]
    <3>0. count \in [Pods -> Nat] /\ count[p] \in Nat
      BY DEF TypeOK
    <3>1. count' = [count EXCEPT ![home[c]] = Decremented(home[c])]
      BY <2>3 DEF Close
    <3>2. CASE home[c] = p
      BY ONLY <3>0, <3>1, <3>2 DEF Decremented
    <3>3. CASE home[c] # p
      BY ONLY <3>0, <3>1, <3>3
    <3> QED
      BY <3>2, <3>3
  <2>4. CASE Connect(c)
    <3>1. UNCHANGED <<count, user>> /\ c \notin user
      BY <2>4 DEF Connect, AdmitInv
    <3> QED
      BY <1>0, <2>0, <2>2, <3>1
  <2>5. CASE Checking(c) /\ Reject(c)
    <3>1. c \notin user
      BY <2>5 DEF AdmitInv, Checking
    <3>2. count'[p] <= count[p]
      BY <1>0, <2>3, <2>5 DEF Reject, Open
    <3> QED
      BY <2>0, <2>2, <3>1, <3>2
  <2>6. CASE (CheckJti(c) \/ CheckToken(c)) /\ ~Reject(c)
    <3>1. UNCHANGED <<link, home, user, count>>
      BY <2>6 DEF CheckJti, CheckToken
    <3> QED
      BY <1>1, <3>1
  <2>7. CASE CheckUser(c) /\ ~Reject(c)
    <3>1. /\ check[c] = "user" /\ user' = user \cup {c} /\ UNCHANGED link
          /\ count' = [count EXCEPT ![home[c]] = @ + 1]
      BY <2>7 DEF CheckUser
    <3>2. c \notin user /\ link[c] \in {"open", "dropped"}
      BY <3>1 DEF AdmitInv, Checking
    <3>3. CASE home[c] = p
      <4>1. c \notin Counted(p) /\ c \in Counted(p)' /\ count'[p] = count[p] + 1
        BY <2>0, <3>1, <3>2, <3>3 DEF TypeOK
      <4>2. Counted(p)' = Counted(p) \cup {c}
        BY <2>0, <2>1, <4>1
      <4>3. Cardinality(Counted(p) \cup {c}) = Cardinality(Counted(p)) + 1
        BY <1>0, <4>1, FS_AddElement
      <4> QED
        BY <1>0, <4>1, <4>2, <4>3
    <3>4. CASE home[c] # p
      <4>1. count'[p] = count[p] /\ c \notin Counted(p)
        BY <2>0, <3>1, <3>4 DEF TypeOK
      <4> QED
        BY <1>0, <2>2, <4>1
    <3> QED
      BY <3>3, <3>4
  <2>8. CASE HandleDisconnect(c)
    <3>1. c \in Open /\ (Close(c, "closed") \/ Close(c, "dropped"))
      BY <2>8 DEF HandleDisconnect
    <3> QED
      BY <2>0, <2>2, <2>3, <3>1
  <2> QED
    BY <1>2, <2>4, <2>5, <2>6, <2>7, <2>8
       DEF SocketStep, Validate, CheckJti, CheckToken, CheckUser, Checking
<1>3. ASSUME NEW c \in Sockets, RequestStep(c) PROVE UNCHANGED <<user, home, link, count>>
  BY <1>3 DEF RequestStep, Ask, Serve, ReadTerm, ReadSessions, GetCount, JoinRoom, GetFails,
              QueryFails, socket
<1>4. ASSUME NEW q \in Pods, WireStep(q) PROVE UNCHANGED <<user, home, link, count>>
  BY <1>4 DEF WireStep, StoreSale, Broadcast, Deliver, SetFails, SubscriberFails, RelayFails, socket
<1>5. ASSUME \/ \E s \in Sessions : Sell(s)
             \/ \E m \in offer : Publish(m)
             \/ Change \/ (\E u \in Users : Bar(u)) \/ UNCHANGED vars
      PROVE  UNCHANGED <<user, home, link, count>>
  BY <1>5 DEF Sell, Publish, Change, Bar, vars, socket
<1> QED
  BY <1>1, <1>2, <1>3, <1>4, <1>5, Kinds

\* connectionCount counts at most the authenticated sockets, and those that left while they
\* were validated.
THEOREM NoneCountedTwice == Spec => []NeverCountsMore
<1>1. Init => NeverCountsMore
  <2> SUFFICES ASSUME Init, NEW p \in Pods PROVE count[p] <= Cardinality(Counted(p))
    BY DEF NeverCountsMore, Counted
  <2>1. Counted(p) = {}
    BY DEF Init, Counted, Live, Ghosts
  <2> QED
    BY <2>1, FS_EmptySet DEF Init
<1> QED
  BY <1>1, StepCounts, AlwaysAdmits, PTL DEF Spec

(***************************************************************************)
(* The numbers on the screens: every count there is, in a key, a message,  *)
(* a broadcast or a request, is one a seller once got.                     *)
(***************************************************************************)
Sold(n)    == n > 0 => \E s \in Sessions : n <= made[s]
Honest(ms) == \A i \in 1..Len(ms) : ms[i].count <= made[ms[i].session]

SoldInv ==
  /\ \A s \in Sessions : sales[s] <= made[s]
  /\ \A m \in offer : m.count <= made[m.session]
  /\ \A p \in Pods : Honest(chan[p]) /\ Honest(emitting[p]) /\ Honest(relay[p])
  /\ \A c \in Sockets : Sold(seen[c]) /\ Sold(shown[c])

LEMMA HonestTail ==
  ASSUME NEW ms \in Seq(Message), ms # <<>>, Honest(ms)
  PROVE  /\ Honest(Tail(ms)) /\ Head(ms) \in Message
         /\ Head(ms).count <= made[Head(ms).session] /\ Sold(Head(ms).count)
<1>1. /\ Len(ms) \in Nat \ {0} /\ Head(ms) = ms[1] /\ Head(ms) \in Message
      /\ Len(Tail(ms)) = Len(ms) - 1
      /\ \A i \in 1..Len(Tail(ms)) : Tail(ms)[i] = ms[i + 1]
  BY HeadTailProperties, EmptySeq, LenProperties
<1>2. Honest(Tail(ms)) /\ Head(ms).count <= made[Head(ms).session]
  BY <1>1 DEF Honest
<1> QED
  BY <1>1, <1>2 DEF Sold, Message

LEMMA HonestAppend ==
  ASSUME NEW ms \in Seq(Message), Honest(ms), NEW m \in Message, m.count <= made[m.session]
  PROVE  Honest(Append(ms, m))
<1>1. /\ Len(ms) \in Nat /\ Len(Append(ms, m)) = Len(ms) + 1
      /\ \A i \in 1..Len(ms) : Append(ms, m)[i] = ms[i]
      /\ Append(ms, m)[Len(ms) + 1] = m
  BY AppendProperties, LenProperties
<1> QED
  BY <1>1 DEF Honest

LEMMA HonestNone == Honest(<<>>)
BY EmptySeq DEF Honest

LEMMA RequestSold ==
  ASSUME TypeOK, SoldInv, NEW c \in Sockets, RequestStep(c)
  PROVE  SoldInv'
<1>1. UNCHANGED <<sales, made, offer, chan, emitting, relay>>
  BY DEF RequestStep, Ask, Serve, ReadTerm, ReadSessions, GetCount, JoinRoom, GetFails, QueryFails,
         shop, wire
<1>2. Sold(0)
  BY DEF Sold
<1>3. found[c] # 0 => Sold(Count(found[c]))
  BY DEF SoldInv, Sold, Count, TypeOK, SalesOK
<1>4. ASSUME NEW d \in Sockets PROVE Sold(seen[d])' /\ Sold(shown[d])'
  <2>1. UNCHANGED <<seen, shown>> => Sold(seen[d])' /\ Sold(shown[d])'
    BY <1>1 DEF SoldInv, Sold
  <2>2. ASSUME seen' = [seen EXCEPT ![c] = 0], UNCHANGED shown
        PROVE  Sold(seen[d])' /\ Sold(shown[d])'
    BY <1>1, <1>2, <2>2 DEF SoldInv, Sold, TypeOK
  <2>3. CASE Ask(c) \/ ReadSessions(c) \/ GetFails(c)
    BY <2>1, <2>3 DEF Ask, ReadSessions, GetFails
  <2>4. CASE ReadTerm(c)
    BY <2>1, <2>2, <2>4 DEF ReadTerm, End
  <2>5. CASE GetCount(c)
    <3>1. UNCHANGED shown /\ seen' = [seen EXCEPT ![c] = IF found[c] = 0 THEN 0 ELSE Count(found[c])]
      BY <2>5 DEF GetCount
    <3>2. Sold(seen'[d])
      BY <1>2, <1>3, <3>1 DEF SoldInv, TypeOK
    <3>3. Sold(shown[d])
      BY DEF SoldInv
    <3> QED
      BY <1>1, <3>1, <3>2, <3>3 DEF Sold
  <2>6. CASE JoinRoom(c)
    <3>1. seen' = [seen EXCEPT ![c] = 0] /\ shown'[d] \in {seen[c], shown[d]}
      BY <2>6 DEF JoinRoom, End
    <3>2. Sold(seen'[d])
      BY <1>2, <3>1 DEF SoldInv, TypeOK
    <3>3. Sold(shown'[d])
      BY <3>1 DEF SoldInv
    <3> QED
      BY <1>1, <3>2, <3>3 DEF Sold
  <2>7. CASE QueryFails(c) /\ End(c)
    BY <2>2, <2>7 DEF QueryFails, End
  <2> QED
    BY <2>3, <2>4, <2>5, <2>6, <2>7 DEF RequestStep, Serve
<1> QED
  BY <1>1, <1>4 DEF SoldInv, Honest

LEMMA WireSold ==
  ASSUME TypeOK, SoldInv, NEW p \in Pods, WireStep(p)
  PROVE  SoldInv'
<1>1. UNCHANGED <<made, offer, seen>>
  BY DEF WireStep, StoreSale, Broadcast, Deliver, SetFails, SubscriberFails, RelayFails, shop, asking
<1>2. ASSUME chan[p] # <<>>
      PROVE  /\ Honest(Tail(chan[p])) /\ Head(chan[p]) \in Message
             /\ Head(chan[p]).count <= made[Head(chan[p]).session]
             /\ Honest(Append(emitting[p], Head(chan[p])))
  <2>1. /\ Honest(Tail(chan[p])) /\ Head(chan[p]) \in Message
        /\ Head(chan[p]).count <= made[Head(chan[p]).session]
    BY <1>2, HonestTail DEF SoldInv, TypeOK, SalesOK
  <2> QED
    BY <2>1, HonestAppend DEF SoldInv, TypeOK
<1>3. ASSUME emitting[p] # <<>>
      PROVE  /\ Honest(Tail(emitting[p])) /\ Sold(Head(emitting[p]).count)
             /\ \A q \in Pods : Honest(Append(relay[q], Head(emitting[p])))
  <2>1. /\ Honest(Tail(emitting[p])) /\ Head(emitting[p]) \in Message
        /\ Head(emitting[p]).count <= made[Head(emitting[p]).session] /\ Sold(Head(emitting[p]).count)
    BY <1>3, HonestTail DEF SoldInv, TypeOK
  <2> QED
    BY <2>1, HonestAppend DEF SoldInv, TypeOK
<1>4. ASSUME relay[p] # <<>> PROVE Honest(Tail(relay[p])) /\ Sold(Head(relay[p]).count)
  BY <1>4, HonestTail DEF SoldInv, TypeOK
<1>5. \A s \in Sessions : sales'[s] <= made[s]
  <2>1. CASE HandleSalesUpdate(p)
    BY <1>2, <2>1 DEF HandleSalesUpdate, Overwrite, SoldInv, TypeOK, SalesOK, Message
  <2>2. CASE UNCHANGED sales
    BY <2>2 DEF SoldInv
  <2> QED
    BY <2>1, <2>2 DEF WireStep, StoreSale, Broadcast, Deliver, SetFails, SubscriberFails, RelayFails,
                      StoreFails, Disconnect
<1>6. ASSUME NEW q \in Pods PROVE Honest(chan'[q])
  <2>1. chan'[q] \in {chan[q], <<>>} \/ (q = p /\ chan[p] # <<>> /\ chan'[q] = Tail(chan[p]))
    BY DEF WireStep, StoreSale, Broadcast, Deliver, SetFails, SubscriberFails, RelayFails,
           HandleSalesUpdate, StoreFails, Disconnect, TypeOK, SalesOK
  <2> QED
    BY <1>2, <2>1, HonestNone DEF SoldInv
<1>7. ASSUME NEW q \in Pods PROVE Honest(emitting'[q])
  <2>1. \/ emitting'[q] = emitting[q]
        \/ q = p /\ chan[p] # <<>> /\ emitting'[q] = Append(emitting[p], Head(chan[p]))
        \/ q = p /\ emitting[p] # <<>> /\ emitting'[q] = Tail(emitting[p])
    BY DEF WireStep, StoreSale, Broadcast, Deliver, SetFails, SubscriberFails, RelayFails,
           HandleSalesUpdate, StoreFails, TypeOK, wire
  <2> QED
    BY <1>2, <1>3, <2>1 DEF SoldInv
<1>8. ASSUME NEW q \in Pods PROVE Honest(relay'[q])
  <2>1. \/ relay'[q] \in {relay[q], <<>>}
        \/ emitting[p] # <<>> /\ relay'[q] = Append(relay[q], Head(emitting[p]))
        \/ q = p /\ relay[p] # <<>> /\ relay'[q] = Tail(relay[p])
    BY DEF WireStep, StoreSale, Broadcast, Deliver, SetFails, SubscriberFails, RelayFails, TypeOK, wire
  <2> QED
    BY <1>3, <1>4, <2>1, HonestNone DEF SoldInv
<1>9. ASSUME NEW c \in Sockets PROVE Sold(shown'[c])
  <2>1. \/ shown'[c] = shown[c]
        \/ emitting[p] # <<>> /\ shown'[c] = Head(emitting[p]).count
        \/ relay[p] # <<>> /\ shown'[c] = Head(relay[p]).count
    BY DEF WireStep, StoreSale, Broadcast, Deliver, SetFails, SubscriberFails, RelayFails, TypeOK
  <2> QED
    BY <1>3, <1>4, <2>1 DEF SoldInv
<1> QED
  BY <1>1, <1>5, <1>6, <1>7, <1>8, <1>9 DEF SoldInv, Honest, Sold

LEMMA SellSold ==
  ASSUME TypeOK, SoldInv, NEW s \in Sessions, Sell(s)
  PROVE  SoldInv'
<1>1. /\ made' = [made EXCEPT ![s] = @ + 1] /\ sales' = [sales EXCEPT ![s] = Count(s) + 1]
      /\ offer' = offer \cup {[session |-> s, count |-> Count(s) + 1]}
      /\ UNCHANGED <<chan, emitting, relay, seen, shown>>
  BY DEF Sell, Incr, wire, asking
<1>2. \A x \in Sessions : made[x] \in Nat
  BY DEF TypeOK
<1>3. Count(s) \in Nat /\ Count(s) <= made[s]
  BY <1>2, CountType DEF SoldInv, Count, TypeOK
<1>4. made'[s] = made[s] + 1 /\ \A x \in Sessions : made'[x] \in Nat /\ made[x] <= made'[x]
  BY <1>1, <1>2 DEF TypeOK
<1>5. \A x \in Sessions : sales'[x] <= made'[x]
  <2>1. \A x \in Sessions : sales[x] \in Int /\ sales[x] <= made[x]
    BY DEF SoldInv, TypeOK, SalesOK, NoKey
  <2> QED
    BY <1>1, <1>2, <1>3, <1>4, <2>1 DEF TypeOK, SalesOK
<1>6. ASSUME NEW m \in offer' PROVE m.count <= made'[m.session]
  <2>1. CASE m \in offer
    <3>1. m.session \in Sessions /\ m.count \in Nat /\ m.count <= made[m.session]
      BY <2>1 DEF TypeOK, Message, SoldInv
    <3> QED
      BY <1>2, <1>4, <3>1
  <2>2. CASE m = [session |-> s, count |-> Count(s) + 1]
    BY <1>3, <1>4, <2>2, <1>2
  <2> QED
    BY <1>1, <1>6, <2>1, <2>2
<1>7. ASSUME NEW ms \in Seq(Message), Honest(ms) PROVE Honest(ms)'
  <2>1. \A i \in 1..Len(ms) : ms[i] \in Message
    BY ElementOfSeq
  <2>2. ASSUME NEW i \in 1..Len(ms) PROVE ms[i].count <= made'[ms[i].session]
    <3>1. ms[i].session \in Sessions /\ ms[i].count \in Nat /\ ms[i].count <= made[ms[i].session]
      BY <1>7, <2>1 DEF Message, Honest
    <3> QED
      BY <1>2, <1>4, <3>1
  <2> QED
    BY <2>2 DEF Honest
<1>8. ASSUME NEW p \in Pods PROVE (Honest(chan[p]) /\ Honest(emitting[p]) /\ Honest(relay[p]))'
  <2>1. chan[p] \in Seq(Message) /\ emitting[p] \in Seq(Message) /\ relay[p] \in Seq(Message)
    BY DEF TypeOK, SalesOK
  <2>2. Honest(chan[p]) /\ Honest(emitting[p]) /\ Honest(relay[p])
    BY DEF SoldInv
  <2>3. \A i \in 1..Len(chan[p]) : chan[p][i].count <= made'[chan[p][i].session]
    BY <1>7, <2>1, <2>2 DEF Honest
  <2>4. \A i \in 1..Len(emitting[p]) : emitting[p][i].count <= made'[emitting[p][i].session]
    BY <1>7, <2>1, <2>2 DEF Honest
  <2>5. \A i \in 1..Len(relay[p]) : relay[p][i].count <= made'[relay[p][i].session]
    BY <1>7, <2>1, <2>2 DEF Honest
  <2> QED
    BY <1>1, <2>3, <2>4, <2>5 DEF Honest
<1>9. ASSUME NEW c \in Sockets PROVE (Sold(seen[c]) /\ Sold(shown[c]))'
  <2>1. ASSUME NEW n \in Int, Sold(n) PROVE n > 0 => \E x \in Sessions : n <= made'[x]
    BY <1>2, <1>4, <2>1 DEF Sold
  <2>2. seen[c] \in Int /\ shown[c] \in Int /\ Sold(seen[c]) /\ Sold(shown[c])
    BY DEF TypeOK, SoldInv, NoKey
  <2> QED
    BY <1>1, <2>1, <2>2 DEF Sold
<1> QED
  BY <1>5, <1>6, <1>8, <1>9 DEF SoldInv

LEMMA StepSold == TypeOK /\ SoldInv /\ [Next]_vars => SoldInv'
<1> SUFFICES ASSUME TypeOK, SoldInv, [Next]_vars PROVE SoldInv'
  OBVIOUS
<1>1. ASSUME UNCHANGED <<sales, chan, made, emitting, relay, seen, shown>>, offer' \subseteq offer
      PROVE  SoldInv'
  BY <1>1 DEF SoldInv, Honest, Sold
<1>2. ASSUME NEW c \in Sockets, SocketStep(c) PROVE SoldInv'
  BY <1>1, <1>2, SocketFrame DEF shop, asking, wire
<1>3. ASSUME NEW m \in offer, Publish(m) PROVE SoldInv'
  <2>1. /\ UNCHANGED <<sales, made, emitting, relay, seen, shown>> /\ offer' \subseteq offer
        /\ PublishTo(Pods, m.session, m.count)
    BY <1>3 DEF Publish, asking, wire
  <2>2. m \in Message /\ m = [session |-> m.session, count |-> m.count] /\ m.count <= made[m.session]
    BY DEF TypeOK, Message, SoldInv
  <2>3. ASSUME NEW p \in Pods PROVE Honest(chan[p])'
    <3>1. chan'[p] = Append(chan[p], m)
      BY <2>1, <2>2 DEF PublishTo
    <3>2. Honest(Append(chan[p], m))
      BY <2>2, HonestAppend DEF SoldInv, TypeOK, SalesOK
    <3> QED
      BY <2>1, <3>1, <3>2 DEF Honest
  <2> QED
    BY <2>1, <2>3 DEF SoldInv, Honest, Sold
<1>4. CASE Change
  BY <1>1, <1>4 DEF Change, asking, wire
<1>5. ASSUME NEW u \in Users, Bar(u) PROVE SoldInv'
  BY <1>1, <1>5 DEF Bar, shop, asking, wire
<1>6. CASE UNCHANGED vars
  BY <1>1, <1>6 DEF vars, shop, asking, wire
<1> QED
  BY <1>2, <1>3, <1>4, <1>5, <1>6, Kinds, RequestSold, WireSold, SellSold

\* Stored, read, broadcast, relayed or repeated to other tabs, no count on a screen exceeds
\* what was sold.
THEOREM NothingUnsoldShown == Spec => []NeverShowsUnsold
<1>1. Init => SoldInv
  BY HonestNone DEF Init, SoldInv, Sold, NoKey
<1>2. SoldInv => NeverShowsUnsold
  BY DEF SoldInv, NeverShowsUnsold, Sold
<1> QED
  BY <1>1, <1>2, InitTypes, StepTypes, StepSold, PTL DEF Spec
=============================================================================
