--------------------------- MODULE SessionsProofs ---------------------------
(***************************************************************************)
(* Proofs about logging in and out for every set of clients and calls,     *)
(* every lifetime of a token and every number of retries.                  *)
(***************************************************************************)
EXTENDS Sessions, TLAPS

----------------------------------------------------------------------------
(* What the invariant says of one call, at a time, with some logouts done and *)
(* some tokens issued.                                                        *)

Tokens(n) == [id : 1 .. n, exp : Nat]
Requests(n) == [at : Places, op : Ops, client : Clients, token : Tokens(n) \cup {None},
                tries : 0 .. MaxRetries, barred : BOOLEAN]

CallOK(x, time, over, n) ==
    /\ x \in Requests(n) \cup {Idle}
    /\ x.at \in {"clean", "expiry", "revocation", "handler"} => x.token \in Tokens(n)
    /\ x.at = "clean" => x.token.exp - Lifetime <= time
    /\ x.at \in {"expiry", "revocation", "handler"} /\ x.barred => x.token \in over
    /\ x.at = "handler" /\ x.barred => time >= x.token.exp

\* The rest of the invariant.
BaseOK ==
    /\ now \in 0 .. MaxTime /\ issued \in 0 .. MaxTokens
    /\ store \in [Clients -> Token \cup {None}]
    /\ revoked \subseteq ended /\ unclear \subseteq ended /\ ended \subseteq Token
    /\ RowsUntilExpiry

CallsOK == /\ call \in [Tasks -> Requests(issued) \cup {Idle}]
           /\ \A t \in Tasks : CallOK(call[t], now, ended, issued)

LEMMA Split == IndInv <=> BaseOK /\ CallsOK
BY DEF IndInv, TypeOK, CleansThePast, CleanTime, BarredIsEnded, LogoutSticks, At,
       BaseOK, CallsOK, CallOK, Requests, Request, Tokens, Token, Idle

\* An idle call is in order.
LEMMA IdleOK == ASSUME NEW time, NEW over, NEW n PROVE CallOK(Idle, time, over, n)
BY DEF CallOK, Idle

\* Tokens stay tokens when more are issued.
LEMMA MoreTokens ==
    ASSUME NEW n \in Nat, NEW m \in Nat, n <= m
    PROVE  Tokens(n) \subseteq Tokens(m) /\ Requests(n) \subseteq Requests(m)
<1>1. 1 .. n \subseteq 1 .. m
  OBVIOUS
<1>2. Tokens(n) \subseteq Tokens(m)
  BY <1>1 DEF Tokens
<1> QED BY <1>2 DEF Requests

\* A call in order stays so as time passes, logouts are done, tokens issued.
LEMMA Later ==
    ASSUME NEW x, NEW time \in Nat, NEW over, NEW n \in Nat, CallOK(x, time, over, n),
           NEW time2 \in Nat, time <= time2, NEW over2, over \subseteq over2,
           NEW m \in Nat, n <= m
    PROVE  CallOK(x, time2, over2, m)
<1>1. Tokens(n) \subseteq Tokens(m) /\ Requests(n) \subseteq Requests(m)
  BY MoreTokens
<1>2. x \in Requests(m) \cup {Idle}
  BY <1>1 DEF CallOK
<1>3. x.at \in {"clean", "expiry", "revocation", "handler"} =>
        x.token \in Tokens(m) /\ x.token.exp \in Nat
  BY <1>1 DEF CallOK, Tokens
<1>4. Lifetime \in Nat
  BY LifetimeAssumption
<1> QED BY <1>2, <1>3, <1>4 DEF CallOK

\* A step of one call keeps all calls in order if its own new record is.
LEMMA OneCall ==
    ASSUME BaseOK, CallsOK, NEW t \in Tasks, NEW x, Goto(t, x),
           CallOK(x, now', ended', issued'),
           now' \in Nat, now <= now', ended \subseteq ended', issued' \in Nat, issued <= issued'
    PROVE  CallsOK'
<1>1. now \in Nat /\ issued \in Nat
  BY DEF BaseOK
<1>2. ASSUME NEW s \in Tasks PROVE CallOK(call'[s], now', ended', issued')
  <2>1. CASE s = t
    BY <2>1 DEF Goto, CallsOK
  <2>2. CASE s # t
    <3>1. call'[s] = call[s] /\ CallOK(call[s], now, ended, issued)
      BY <2>2 DEF Goto, CallsOK
    <3> QED BY <1>1, <3>1, Later
  <2> QED BY <2>1, <2>2
<1>3. call' \in [Tasks -> Requests(issued') \cup {Idle}]
  <2>1. \A s \in Tasks : call'[s] \in Requests(issued') \cup {Idle}
    BY <1>2 DEF CallOK
  <2>2. call' = [s \in Tasks |-> call'[s]]
    BY DEF Goto, CallsOK
  <2> QED BY <2>1, <2>2
<1> QED BY <1>2, <1>3 DEF CallsOK

----------------------------------------------------------------------------
(* The steps *)

\* The rest of the invariant, when only calls, the store and "unclear" change.
LEMMA BaseStep ==
    ASSUME BaseOK, UNCHANGED <<now, revoked, issued, ended>>,
           store' \in [Clients -> Token \cup {None}], unclear' \subseteq ended
    PROVE  BaseOK'
BY DEF BaseOK, RowsUntilExpiry, Token

\* A call that moves on with its token, unbarred or as before.
LEMMA MovedOK ==
    ASSUME NEW x, NEW time, NEW over, NEW n, x \in Requests(n),
           NEW here \in Places, here \notin {"clean", "expiry", "revocation", "handler"}
    PROVE  CallOK([x EXCEPT !.at = here], time, over, n)
BY DEF CallOK, Requests

LEMMA CallIn ==
    ASSUME CallsOK, NEW t \in Tasks, call[t].at # "idle"
    PROVE  /\ call[t] \in Requests(issued)
           /\ CallOK(call[t], now, ended, issued)
BY DEF CallsOK, Idle

LEMMA TickStep == ASSUME BaseOK, CallsOK, Tick PROVE BaseOK' /\ CallsOK'
<1> USE DEF Tick
<1>1. now \in Nat /\ now' \in Nat /\ now <= now' /\ now' \in 0 .. MaxTime
  BY BoundAssumption DEF BaseOK
<1>2. BaseOK'
  <2>1. \A r \in ended : r.exp \in Nat
    BY DEF BaseOK, Token
  <2>2. RowsUntilExpiry'
    BY <1>1, <2>1 DEF BaseOK, RowsUntilExpiry
  <2> QED BY <1>1, <2>2 DEF BaseOK, Token
<1>3. CallsOK'
  <2>1. issued \in Nat
    BY DEF BaseOK
  <2>2. \A t \in Tasks : CallOK(call[t], now', ended, issued)
    BY <1>1, <2>1, Later DEF CallsOK
  <2> QED BY <2>2 DEF CallsOK
<1> QED BY <1>2, <1>3

LEMMA CallStep ==
    ASSUME BaseOK, CallsOK, NEW t \in Tasks, NEW c \in Clients, NEW op \in Ops, Call(t, c, op)
    PROVE  BaseOK' /\ CallsOK'
<1> DEFINE x == [at |-> "send", op |-> op, client |-> c, token |-> None,
                 tries |-> 0, barred |-> FALSE]
<1>1. CallOK(x, now, ended, issued)
  BY RetriesAssumption DEF CallOK, Requests, Places
<1>2. Goto(t, x) /\ UNCHANGED <<now, store, revoked, issued, ended, unclear>>
  BY DEF Call
<1>3. BaseOK'
  BY <1>2, BaseStep DEF BaseOK
<1> HIDE DEF x
<1>4. CallsOK'
  BY <1>1, <1>2, OneCall DEF BaseOK
<1> QED BY <1>3, <1>4

LEMMA SendStep ==
    ASSUME BaseOK, CallsOK, NEW t \in Tasks, Send(t) PROVE BaseOK' /\ CallsOK'
<1> DEFINE token == store[call[t].client]
           known == token \in ended
           x == IF call[t].op = "login" THEN Moved(t, "authenticate")
                ELSE IF token = None THEN Moved(t, "refused")
                ELSE [Moved(t, "expiry") EXCEPT !.token = token, !.barred = known]
<1>1. Goto(t, x) /\ UNCHANGED <<now, store, revoked, issued, ended, unclear>>
  BY DEF Send
<1>2. call[t] \in Requests(issued)
  BY CallIn DEF Send, At
<1>3. ASSUME call[t].op = "login" \/ token = None
      PROVE  CallOK(x, now, ended, issued)
  <2>1. x = Moved(t, "authenticate") \/ x = Moved(t, "refused")
    BY <1>3
  <2> QED BY <1>2, <2>1, MovedOK DEF Moved, Places
<1>4. ASSUME call[t].op # "login", token # None
      PROVE  CallOK(x, now, ended, issued)
  <2>1. token \in Tokens(issued)
    BY <1>2, <1>4 DEF BaseOK, Requests, Token, Tokens
  <2>2. x = [Moved(t, "expiry") EXCEPT !.token = token, !.barred = known] /\ known \in BOOLEAN
    BY <1>4
  <2>3. Moved(t, "expiry") \in Requests(issued) /\ Moved(t, "expiry").at = "expiry"
    BY <1>2 DEF Moved, Requests, Places
  <2>4. x \in Requests(issued) /\ x.at = "expiry" /\ x.token = token /\ x.barred = known
    <3> DEFINE y == Moved(t, "expiry")
    <3>1. y \in Requests(issued) /\ y.at = "expiry" /\ token \in Tokens(issued) \cup {None}
          /\ known \in BOOLEAN /\ x = [y EXCEPT !.token = token, !.barred = known]
      BY <2>1, <2>2, <2>3
    <3> HIDE DEF x, y, token, known
    <3> QED BY <3>1 DEF Requests
  <2> QED BY <2>1, <2>4 DEF CallOK
<1>5. BaseOK'
  BY <1>1, BaseStep DEF BaseOK
<1> HIDE DEF x
<1>6. CallsOK'
  BY <1>1, <1>3, <1>4, OneCall DEF BaseOK
<1> QED BY <1>5, <1>6

\* A step that moves one call to a place where nothing is asked of it.
LEMMA LooseStep ==
    ASSUME BaseOK, CallsOK, NEW t \in Tasks, call[t].at # "idle", NEW here \in Places,
           here \notin {"clean", "expiry", "revocation", "handler"}, Goto(t, Moved(t, here)),
           UNCHANGED <<now, store, revoked, issued, ended, unclear>>
    PROVE  BaseOK' /\ CallsOK'
<1>1. CallOK(Moved(t, here), now, ended, issued)
  BY CallIn, MovedOK DEF Moved
<1>2. BaseOK'
  BY BaseStep DEF BaseOK
<1> DEFINE x == Moved(t, here)
<1> HIDE DEF x
<1>3. CallsOK'
  BY <1>1, OneCall DEF x, BaseOK
<1> QED BY <1>2, <1>3

LEMMA SucceedStep ==
    ASSUME BaseOK, CallsOK, NEW t \in Tasks, Succeed(t) PROVE BaseOK' /\ CallsOK'
<1>1. Goto(t, Idle) /\ UNCHANGED <<now, revoked, issued, ended, unclear>>
  BY DEF Succeed
<1>2. call[t] \in Requests(issued)
  BY CallIn DEF Succeed, At
<1>3. store' \in [Clients -> Token \cup {None}]
  <2>1. call[t].token \in Token \cup {None}
    BY <1>2 DEF Requests, Tokens, Token
  <2> QED BY <2>1 DEF Succeed, BaseOK
<1>4. BaseOK'
  BY <1>1, <1>3, BaseStep DEF BaseOK
<1>5. CallsOK'
  BY <1>1, IdleOK, OneCall DEF BaseOK
<1> QED BY <1>4, <1>5

LEMMA GiveUpStep ==
    ASSUME BaseOK, CallsOK, NEW t \in Tasks, GiveUp(t) PROVE BaseOK' /\ CallsOK'
<1>1. Goto(t, Idle) /\ UNCHANGED <<now, store, revoked, issued, ended>>
  BY DEF GiveUp
<1>2. unclear' \subseteq ended
  BY DEF GiveUp, BaseOK
<1>3. BaseOK'
  BY <1>1, <1>2, BaseStep DEF BaseOK
<1>4. CallsOK'
  BY <1>1, IdleOK, OneCall DEF BaseOK
<1> QED BY <1>3, <1>4

LEMMA TryAgainStep ==
    ASSUME BaseOK, CallsOK, NEW t \in Tasks, TryAgain(t) PROVE BaseOK' /\ CallsOK'
<1>1. CASE ~(call[t].tries < MaxRetries)
  BY <1>1, GiveUpStep DEF TryAgain
<1>2. CASE call[t].tries < MaxRetries
  <2> DEFINE y == Moved(t, "send")
             x == [y EXCEPT !.tries = @ + 1, !.barred = FALSE]
  <2>1. Goto(t, x) /\ UNCHANGED <<now, store, revoked, issued, ended, unclear>>
    BY <1>2 DEF TryAgain
  <2>2. call[t] \in Requests(issued)
    BY CallIn DEF TryAgain
  <2>3. y \in Requests(issued) /\ y.at = "send" /\ y.tries + 1 \in 0 .. MaxRetries
    BY <1>2, <2>2, RetriesAssumption DEF Moved, Requests, Places
  <2> HIDE DEF y
  <2>4. x \in Requests(issued) /\ x.at = "send"
    BY <2>3 DEF Requests
  <2>5. CallOK(x, now, ended, issued)
    BY <2>4 DEF CallOK
  <2> HIDE DEF x
  <2>6. BaseOK'
    BY <2>1, BaseStep DEF BaseOK
  <2>7. CallsOK'
    BY <2>1, <2>5, OneCall DEF BaseOK
  <2> QED BY <2>6, <2>7
<1> QED BY <1>1, <1>2

LEMMA CheckExpiryStep ==
    ASSUME BaseOK, CallsOK, NEW t \in Tasks, CheckExpiry(t) PROVE BaseOK' /\ CallsOK'
<1>1. CASE now >= call[t].token.exp
  BY <1>1, LooseStep DEF CheckExpiry, At, Places
<1>2. CASE ~(now >= call[t].token.exp)
  <2> DEFINE x == Moved(t, "revocation")
  <2>1. Goto(t, x) /\ UNCHANGED <<now, store, revoked, issued, ended, unclear>>
    BY <1>2 DEF CheckExpiry
  <2>2. CallOK(call[t], now, ended, issued) /\ call[t] \in Requests(issued)
    BY CallIn DEF CheckExpiry, At
  <2>3. CallOK(x, now, ended, issued)
    BY <2>2 DEF CallOK, Moved, Requests, CheckExpiry, At, Places
  <2> HIDE DEF x
  <2>4. BaseOK'
    BY <2>1, BaseStep DEF BaseOK
  <2>5. CallsOK'
    BY <2>1, <2>3, OneCall DEF BaseOK
  <2> QED BY <2>4, <2>5
<1> QED BY <1>1, <1>2

\* A barred token that is not in the table has expired.
LEMMA CheckRevokedStep ==
    ASSUME BaseOK, CallsOK, NEW t \in Tasks, CheckRevoked(t) PROVE BaseOK' /\ CallsOK'
<1>1. CASE call[t].token \in revoked
  BY <1>1, LooseStep DEF CheckRevoked, At, Places
<1>2. CASE call[t].token \notin revoked
  <2> DEFINE x == Moved(t, "handler")
  <2>1. Goto(t, x) /\ UNCHANGED <<now, store, revoked, issued, ended, unclear>>
    BY <1>2 DEF CheckRevoked
  <2>2. CallOK(call[t], now, ended, issued) /\ call[t] \in Requests(issued)
    BY CallIn DEF CheckRevoked, At
  <2>3. call[t].barred => call[t].token \in ended /\ now >= call[t].token.exp
    BY <1>2, <2>2 DEF CallOK, CheckRevoked, At, BaseOK, RowsUntilExpiry
  <2>4. CallOK(x, now, ended, issued)
    BY <2>2, <2>3 DEF CallOK, Moved, Requests, CheckRevoked, At, Places
  <2> HIDE DEF x
  <2>5. BaseOK'
    BY <2>1, BaseStep DEF BaseOK
  <2>6. CallsOK'
    BY <2>1, <2>4, OneCall DEF BaseOK
  <2> QED BY <2>5, <2>6
<1> QED BY <1>1, <1>2

LEMMA HandleAccessStep ==
    ASSUME BaseOK, CallsOK, NEW t \in Tasks, HandleAccess(t) PROVE BaseOK' /\ CallsOK'
BY LooseStep DEF HandleAccess, At, Places

LEMMA QueryFailsStep ==
    ASSUME BaseOK, CallsOK, NEW t \in Tasks, QueryFails(t) PROVE BaseOK' /\ CallsOK'
<1> DEFINE here == IF At(t, "revocation") THEN "refused" ELSE "failed"
<1>1. call[t].at # "idle" /\ Goto(t, Moved(t, here))
  BY DEF QueryFails, At
<1> QED BY <1>1, LooseStep DEF QueryFails, Places

LEMMA HandleLogoutStep ==
    ASSUME BaseOK, CallsOK, NEW t \in Tasks, HandleLogout(t) PROVE BaseOK' /\ CallsOK'
<1> DEFINE token == call[t].token
           here == IF token \in revoked THEN "failed" ELSE "ok"
           x == Moved(t, here)
<1>1. /\ Goto(t, x) /\ UNCHANGED <<now, store, issued, unclear>>
      /\ revoked' = revoked \cup {token} /\ ended' = ended \cup {token}
  BY DEF HandleLogout
<1>2. call[t] \in Requests(issued) /\ token \in Token
  BY CallIn DEF HandleLogout, At, CallOK, Tokens, Token
<1>3. CallOK(x, now, ended', issued)
  BY <1>2, MovedOK DEF Moved, Places
<1>4. BaseOK'
  BY <1>1, <1>2 DEF BaseOK, RowsUntilExpiry, Token
<1> HIDE DEF x
<1>5. CallsOK'
  BY <1>1, <1>3, OneCall DEF BaseOK
<1> QED BY <1>4, <1>5

LEMMA AuthenticateStep ==
    ASSUME BaseOK, CallsOK, NEW t \in Tasks, Authenticate(t) PROVE BaseOK' /\ CallsOK'
<1>1. CASE Goto(t, Moved(t, "refused")) /\ UNCHANGED issued
  BY <1>1, LooseStep DEF Authenticate, At, Places
<1>2. CASE /\ issued < MaxTokens /\ issued' = issued + 1
           /\ Goto(t, [Moved(t, "clean") EXCEPT !.token = [id |-> issued', exp |-> now + Lifetime]])
  <2> DEFINE y == Moved(t, "clean")
             token == [id |-> issued', exp |-> now + Lifetime]
             x == [y EXCEPT !.token = token]
  <2>1. Goto(t, x) /\ UNCHANGED <<now, store, revoked, ended, unclear>>
    BY <1>2 DEF Authenticate
  <2>2. now \in Nat /\ issued \in Nat /\ issued' \in 0 .. MaxTokens /\ issued <= issued'
        /\ Lifetime \in Nat
    BY <1>2, BoundAssumption, LifetimeAssumption DEF BaseOK
  <2>3. Requests(issued) \subseteq Requests(issued') /\ Tokens(issued) \subseteq Tokens(issued')
    BY <2>2, MoreTokens
  <2>4. y \in Requests(issued') /\ y.at = "clean"
    <3>1. call[t] \in Requests(issued')
      BY <2>3, CallIn DEF Authenticate, At
    <3> QED BY <3>1 DEF Moved, Requests, Places
  <2>5. token \in Tokens(issued') /\ token.exp - Lifetime <= now
    BY <1>2, <2>2 DEF Tokens
  <2> HIDE DEF y, token
  <2>6. x \in Requests(issued') /\ x.at = "clean" /\ x.token = token
    BY <2>4, <2>5 DEF Requests
  <2>7. CallOK(x, now, ended, issued')
    BY <2>5, <2>6 DEF CallOK
  <2> HIDE DEF x
  <2>8. BaseOK'
    BY <2>1, <2>2, <2>3 DEF BaseOK, RowsUntilExpiry, Token, Tokens
  <2>9. CallsOK'
    BY <2>1, <2>2, <2>7, OneCall DEF BaseOK
  <2> QED BY <2>8, <2>9
<1> QED BY <1>1, <1>2 DEF Authenticate

\* The rows that go expire at a time that has come.
LEMMA CleanRevokedStep ==
    ASSUME BaseOK, CallsOK, NEW t \in Tasks, CleanRevoked(t) PROVE BaseOK' /\ CallsOK'
<1> DEFINE x == Moved(t, "ok")
<1>1. /\ Goto(t, x) /\ UNCHANGED <<now, store, issued, ended, unclear>>
      /\ revoked' = {r \in revoked : r.exp # CleanTime(t)}
  BY DEF CleanRevoked
<1>2. CallOK(call[t], now, ended, issued) /\ call[t] \in Requests(issued)
  BY CallIn DEF CleanRevoked, At
<1>3. CleanTime(t) <= now
  BY <1>2 DEF CallOK, CleanRevoked, At, CleanTime
<1>4. CallOK(x, now, ended, issued)
  BY <1>2, MovedOK DEF Moved, Places
<1>5. RowsUntilExpiry'
  BY <1>1, <1>3 DEF BaseOK, RowsUntilExpiry
<1>6. BaseOK'
  BY <1>1, <1>5 DEF BaseOK, Token
<1> HIDE DEF x
<1>7. CallsOK'
  BY <1>1, <1>4, OneCall DEF BaseOK
<1> QED BY <1>6, <1>7

LEMMA InvInit == Init => IndInv
<1> SUFFICES ASSUME Init PROVE BaseOK /\ CallsOK
  BY Split
<1>1. BaseOK
  BY BoundAssumption DEF Init, BaseOK, RowsUntilExpiry
<1>2. CallsOK
  BY IdleOK DEF Init, CallsOK
<1> QED BY <1>1, <1>2

LEMMA InvStep == IndInv /\ [Next]_vars => IndInv'
<1>1. IndInv' <=> BaseOK' /\ CallsOK'
  BY Split, PTL
<1> SUFFICES ASSUME BaseOK, CallsOK, [Next]_vars PROVE BaseOK' /\ CallsOK'
  BY <1>1, Split
<1>2. CASE UNCHANGED vars
  BY <1>2 DEF vars, BaseOK, CallsOK, RowsUntilExpiry, Token
<1>3. CASE Tick
  BY <1>3, TickStep
<1>4. ASSUME NEW t \in Tasks, NEW c \in Clients, NEW op \in Ops, Call(t, c, op)
      PROVE  BaseOK' /\ CallsOK'
  BY <1>4, CallStep
<1>5. ASSUME NEW t \in Tasks, Send(t) \/ Succeed(t) \/ Refused(t) \/ TryAgain(t)
      PROVE  BaseOK' /\ CallsOK'
  BY <1>5, SendStep, SucceedStep, GiveUpStep, TryAgainStep DEF Refused
<1>6. ASSUME NEW t \in Tasks, CheckExpiry(t) \/ CheckRevoked(t)
      PROVE  BaseOK' /\ CallsOK'
  BY <1>6, CheckExpiryStep, CheckRevokedStep
<1>7. ASSUME NEW t \in Tasks,
             \/ HandleAccess(t) \/ HandleLogout(t) \/ QueryFails(t)
             \/ Authenticate(t) \/ CleanRevoked(t)
      PROVE  BaseOK' /\ CallsOK'
  BY <1>7, HandleAccessStep, HandleLogoutStep, QueryFailsStep, AuthenticateStep, CleanRevokedStep
<1> QED BY <1>2, <1>3, <1>4, <1>5, <1>6, <1>7 DEF Next

----------------------------------------------------------------------------
(* Whose a token is *)

Busy(t) == call[t].at # "idle"

\* A token is in one store, the calls that carry it are that client's, and one
\* that a login has received is nowhere else.
OwnInv ==
    /\ \A c, d \in Clients : store[c] # None /\ store[c] = store[d] => c = d
    /\ \A t \in Tasks, c \in Clients :
         Busy(t) /\ call[t].token # None /\ store[c] = call[t].token =>
           call[t].op # "login" /\ call[t].client = c
    /\ \A t \in Tasks : Busy(t) /\ call[t].op = "login" => call[t].token \notin ended
    /\ \A s, t \in Tasks :
         Busy(s) /\ Busy(t) /\ call[t].op = "login" /\ call[t].token # None
           /\ call[s].token = call[t].token => s = t
    /\ None \notin ended

Witness(c) == \E t \in Tasks : /\ Busy(t) /\ call[t].op = "logout"
                              /\ call[t].client = c /\ call[t].token = store[c]
DropInv == \A c \in Clients : store[c] \in ended => store[c] \in unclear \/ Witness(c)

\* Only a login is authenticated by its password.
LoginsAuthenticate == \A t \in Tasks : At(t, "authenticate") => call[t].op = "login"

\* A step of one call that changes neither whose it is nor its token.
LEMMA SameToken ==
    ASSUME CallsOK, OwnInv, DropInv, NEW t \in Tasks, Busy(t), NEW x, Goto(t, x),
           x.at # "idle", x.op = call[t].op, x.client = call[t].client, x.token = call[t].token,
           UNCHANGED <<store, ended, unclear>>
    PROVE  OwnInv' /\ DropInv'
<1>1. \A s \in Tasks : /\ Busy(s)' <=> Busy(s)
                       /\ Busy(s) => /\ call'[s].op = call[s].op /\ call'[s].client = call[s].client
                                     /\ call'[s].token = call[s].token
  BY DEF Goto, CallsOK, Busy
<1>2. OwnInv'
  BY <1>1 DEF OwnInv
<1>3. \A c \in Clients : Witness(c) => Witness(c)'
  BY <1>1 DEF Witness
<1> QED BY <1>2, <1>3 DEF DropInv

\* A call in the invariant is a record of a request.
LEMMA BusyCall ==
    ASSUME CallsOK, NEW t \in Tasks, Busy(t) PROVE call[t] \in Requests(issued)
BY CallIn DEF Busy

LEMMA MovedSame ==
    ASSUME CallsOK, OwnInv, DropInv, NEW t \in Tasks, Busy(t), NEW here \in Places,
           Goto(t, Moved(t, here)), UNCHANGED <<store, ended, unclear>>
    PROVE  OwnInv' /\ DropInv'
<1> DEFINE x == Moved(t, here)
<1>1. x.at = here /\ x.op = call[t].op /\ x.client = call[t].client /\ x.token = call[t].token
  BY BusyCall DEF Moved, Requests
<1>2. here # "idle"
  BY DEF Places
<1> HIDE DEF x
<1> QED BY <1>1, <1>2, SameToken DEF x

\* A call that ends with its store as it was.
LEMMA GiveUpDrop ==
    ASSUME CallsOK, OwnInv, DropInv, NEW t \in Tasks, Busy(t), GiveUp(t) PROVE OwnInv' /\ DropInv'
<1>1. /\ \A s \in Tasks \ {t} : call'[s] = call[s]
      /\ ~Busy(t)' /\ UNCHANGED <<store, ended>>
  BY DEF GiveUp, Goto, CallsOK, Busy, Idle
<1>2. OwnInv'
  BY <1>1 DEF OwnInv, Busy
<1>3. ASSUME NEW c \in Clients, store[c] \in ended PROVE store[c] \in unclear' \/ Witness(c)'
  <2>1. CASE store[c] \in unclear
    BY <2>1 DEF GiveUp
  <2>2. ASSUME NEW s \in Tasks, Busy(s), call[s].op = "logout", call[s].client = c,
               call[s].token = store[c]
        PROVE  store[c] \in unclear' \/ Witness(c)'
    <3>1. CASE s = t
      BY <1>3, <2>2, <3>1 DEF GiveUp
    <3>2. CASE s # t
      BY <1>1, <2>2, <3>2 DEF Witness, Busy
    <3> QED BY <3>1, <3>2
  <2> QED BY <1>3, <2>1, <2>2 DEF DropInv, Witness
<1> QED BY <1>1, <1>2, <1>3 DEF DropInv

LEMMA CallDrop ==
    ASSUME CallsOK, OwnInv, DropInv, NEW t \in Tasks, NEW c \in Clients, NEW op \in Ops, Call(t, c, op)
    PROVE  OwnInv' /\ DropInv'
<1>1. /\ \A s \in Tasks \ {t} : call'[s] = call[s]
      /\ ~Busy(t) /\ Busy(t)' /\ call'[t].token = None /\ UNCHANGED <<store, ended, unclear>>
  BY DEF Call, Goto, CallsOK, Busy, Idle
<1>2. OwnInv'
  BY <1>1 DEF OwnInv, Busy
<1>3. \A d \in Clients : Witness(d) => Witness(d)'
  BY <1>1 DEF Witness, Busy
<1> QED BY <1>1, <1>2, <1>3 DEF DropInv

LEMMA SendDrop ==
    ASSUME CallsOK, BaseOK, OwnInv, DropInv, NEW t \in Tasks, Send(t) PROVE OwnInv' /\ DropInv'
<1> DEFINE c == call[t].client
           token == store[c]
           known == token \in ended
           y == Moved(t, "expiry")
           x == [y EXCEPT !.token = token, !.barred = known]
<1>1. Busy(t) /\ call[t] \in Requests(issued) /\ UNCHANGED <<store, ended, unclear>>
  BY BusyCall DEF Send, At, Busy
<1>2. CASE Goto(t, Moved(t, "authenticate")) \/ Goto(t, Moved(t, "refused"))
  BY <1>1, <1>2, MovedSame DEF Places
<1>3. CASE Goto(t, x) /\ call[t].op # "login" /\ token # None
  <2>1. y \in Requests(issued) /\ y.at = "expiry" /\ y.op = call[t].op /\ y.client = c
    BY <1>1 DEF Moved, Requests, Places
  <2>2. x.at = "expiry" /\ x.op = call[t].op /\ x.client = c /\ x.token = token
    <3> HIDE DEF y, token, known, c
    <3> QED BY <2>1 DEF Requests
  <2> HIDE DEF x
  <2>3. /\ \A s \in Tasks \ {t} : call'[s] = call[s]
        /\ Busy(t)' /\ call'[t].op = call[t].op /\ call'[t].client = c /\ call'[t].token = token
    BY <1>3, <2>2 DEF Goto, CallsOK, Busy
  <2>4. c \in Clients
    BY <1>1 DEF Requests
  <2>5. OwnInv'
    BY <1>1, <1>3, <2>3, <2>4 DEF OwnInv, Busy
  <2>6. ASSUME NEW d \in Clients, Witness(d) PROVE Witness(d)'
    <3>1. CASE d = c /\ call[t].op = "logout"
      BY <1>1, <2>3, <3>1 DEF Witness
    <3>2. CASE ~(d = c /\ call[t].op = "logout")
      BY <1>1, <2>3, <2>6, <3>2 DEF Witness, Busy
    <3> QED BY <3>1, <3>2
  <2> QED BY <1>1, <2>5, <2>6 DEF DropInv
<1> QED BY <1>1, <1>2, <1>3 DEF Send

LEMMA SucceedDrop ==
    ASSUME CallsOK, BaseOK, OwnInv, DropInv, NEW t \in Tasks, Succeed(t) PROVE OwnInv' /\ DropInv'
<1> DEFINE c == call[t].client
<1>1. Busy(t) /\ call[t] \in Requests(issued) /\ c \in Clients /\ call[t].op \in Ops
  BY BusyCall DEF Succeed, At, Busy, Requests
<1>2. /\ \A s \in Tasks \ {t} : call'[s] = call[s]
      /\ ~Busy(t)' /\ UNCHANGED <<ended, unclear>>
  BY DEF Succeed, Goto, CallsOK, Busy, Idle
<1>3. /\ \A d \in Clients \ {c} : store'[d] = store[d]
      /\ call[t].op = "login" => store'[c] = call[t].token
      /\ call[t].op = "logout" => store'[c] = None
      /\ call[t].op = "access" => store'[c] = store[c]
  BY <1>1 DEF Succeed, BaseOK
<1>4. OwnInv'
  BY <1>1, <1>2, <1>3 DEF OwnInv, Busy, Ops
<1>5. ASSUME NEW d \in Clients, store'[d] \in ended PROVE store'[d] \in unclear \/ Witness(d)'
  <2>1. d # c \/ call[t].op = "access"
    BY <1>1, <1>3, <1>5 DEF OwnInv, Ops
  <2>2. store'[d] = store[d]
    BY <1>3, <2>1
  <2>3. Witness(d) => Witness(d)'
    BY <1>2, <2>1, <2>2 DEF Witness, Busy
  <2> QED BY <1>5, <2>2, <2>3 DEF DropInv
<1> QED BY <1>2, <1>4, <1>5 DEF DropInv

LEMMA HandleLogoutDrop ==
    ASSUME CallsOK, BaseOK, OwnInv, DropInv, NEW t \in Tasks, HandleLogout(t) PROVE OwnInv' /\ DropInv'
<1> DEFINE token == call[t].token
           here == IF token \in revoked THEN "failed" ELSE "ok"
           x == Moved(t, here)
<1>1. Busy(t) /\ call[t].op = "logout" /\ call[t] \in Requests(issued) /\ token \in Tokens(issued)
  BY BusyCall, CallIn DEF HandleLogout, At, Busy, CallOK
<1>2. Goto(t, x) /\ UNCHANGED <<store, unclear>> /\ ended' = ended \cup {token}
  BY DEF HandleLogout
<1>3. x.at = here /\ x.op = "logout" /\ x.client = call[t].client /\ x.token = token
  BY <1>1 DEF Moved, Requests
<1>4. here # "idle"
  OBVIOUS
<1> HIDE DEF x, here
<1>5. \A s \in Tasks : /\ Busy(s)' <=> Busy(s)
                       /\ Busy(s) => /\ call'[s].op = call[s].op /\ call'[s].client = call[s].client
                                     /\ call'[s].token = call[s].token
  BY <1>1, <1>2, <1>3, <1>4 DEF Goto, CallsOK, Busy
<1>6. token # None
  BY <1>1, NoneAssumption DEF Tokens
<1>7. OwnInv'
  BY <1>1, <1>2, <1>5, <1>6 DEF OwnInv
<1>8. ASSUME NEW c \in Clients, store[c] \in ended' PROVE store[c] \in unclear \/ Witness(c)'
  <2>1. CASE store[c] = token
    <3>1. call[t].client = c
      BY <1>1, <1>6, <2>1 DEF OwnInv
    <3> QED BY <1>1, <1>2, <1>5, <2>1, <3>1 DEF Witness
  <2>2. CASE store[c] # token
    <3>1. Witness(c) => Witness(c)'
      BY <1>2, <1>5 DEF Witness
    <3> QED BY <1>2, <1>8, <2>2, <3>1 DEF DropInv
  <2> QED BY <2>1, <2>2
<1> QED BY <1>2, <1>7, <1>8 DEF DropInv

LEMMA AuthenticateDrop ==
    ASSUME CallsOK, BaseOK, LoginsAuthenticate, OwnInv, DropInv, NEW t \in Tasks, Authenticate(t)
    PROVE  OwnInv' /\ DropInv'
<1>1. Busy(t) /\ call[t].op = "login" /\ call[t] \in Requests(issued) /\ UNCHANGED <<store, ended, unclear>>
  BY BusyCall DEF Authenticate, LoginsAuthenticate, At, Busy
<1>2. CASE Goto(t, Moved(t, "refused"))
  BY <1>1, <1>2, MovedSame DEF Places
<1>3. CASE issued' = issued + 1
           /\ Goto(t, [Moved(t, "clean") EXCEPT !.token = [id |-> issued', exp |-> now + Lifetime]])
  <2> DEFINE y == Moved(t, "clean")
             token == [id |-> issued', exp |-> now + Lifetime]
             x == [y EXCEPT !.token = token]
  <2>1. y \in Requests(issued) /\ y.at = "clean" /\ y.op = "login" /\ y.client = call[t].client
    BY <1>1 DEF Moved, Requests, Places
  <2>2. x.at = "clean" /\ x.op = "login" /\ x.client = call[t].client /\ x.token = token
    <3> HIDE DEF y, token
    <3> QED BY <2>1 DEF Requests
  <2>3. token \notin Tokens(issued) /\ token # None
    <3>1. issued \in Nat /\ now \in Nat /\ Lifetime \in Nat
      BY LifetimeAssumption DEF BaseOK
    <3>2. token \in [id : Nat, exp : Nat] /\ token.id = issued + 1
      BY <1>3, <3>1
    <3> HIDE DEF token
    <3> QED BY <3>1, <3>2, NoneAssumption DEF Tokens
  <2> HIDE DEF x, y, token
  <2>4. /\ \A s \in Tasks \ {t} : call'[s] = call[s]
        /\ Busy(t)' /\ call'[t].op = "login" /\ call'[t].token = token
    BY <1>3, <2>2 DEF Goto, CallsOK, Busy, x, y, token
  <2>5. /\ \A c \in Clients : store[c] # token
        /\ token \notin ended
        /\ \A s \in Tasks : Busy(s) => call[s].token # token
    <3>1. \A s \in Tasks : Busy(s) => call[s].token \in Tokens(issued) \cup {None}
      BY BusyCall DEF Requests
    <3> QED BY <2>3, <3>1 DEF BaseOK, Token, Tokens
  <2>6. OwnInv'
    BY <1>1, <2>3, <2>4, <2>5 DEF OwnInv, Busy
  <2>7. \A c \in Clients : Witness(c) => Witness(c)'
    BY <1>1, <2>4 DEF Witness, Busy
  <2> QED BY <1>1, <2>6, <2>7 DEF DropInv
<1> QED BY <1>2, <1>3 DEF Authenticate

LEMMA TryAgainDrop ==
    ASSUME CallsOK, BaseOK, OwnInv, DropInv, NEW t \in Tasks, TryAgain(t) PROVE OwnInv' /\ DropInv'
<1>1. Busy(t) /\ call[t] \in Requests(issued)
  BY BusyCall DEF TryAgain, Busy
<1>2. CASE GiveUp(t)
  BY <1>1, <1>2, GiveUpDrop
<1>3. CASE /\ Goto(t, [Moved(t, "send") EXCEPT !.tries = @ + 1, !.barred = FALSE])
           /\ UNCHANGED <<now, store, revoked, issued, ended, unclear>>
  <2> DEFINE y == Moved(t, "send")
             x == [y EXCEPT !.tries = @ + 1, !.barred = FALSE]
  <2>1. /\ y \in Requests(issued) /\ y.at = "send" /\ y.op = call[t].op
        /\ y.client = call[t].client /\ y.token = call[t].token
    BY <1>1 DEF Moved, Requests, Places
  <2>2. x.at = "send" /\ x.op = call[t].op /\ x.client = call[t].client /\ x.token = call[t].token
    <3> HIDE DEF y
    <3> QED BY <2>1 DEF Requests
  <2>3. Goto(t, x)
    BY <1>3
  <2> HIDE DEF x
  <2> QED BY <1>1, <1>3, <2>2, <2>3, SameToken
<1> QED BY <1>2, <1>3 DEF TryAgain

LEMMA OtherDrop ==
    ASSUME CallsOK, OwnInv, DropInv, NEW t \in Tasks,
           CheckExpiry(t) \/ CheckRevoked(t) \/ HandleAccess(t) \/ QueryFails(t) \/ CleanRevoked(t)
    PROVE  OwnInv' /\ DropInv'
<1>1. PICK here \in {"refused", "revocation", "handler", "ok", "failed"} : Goto(t, Moved(t, here))
  BY DEF CheckExpiry, CheckRevoked, HandleAccess, QueryFails, CleanRevoked
<1>2. Busy(t) /\ UNCHANGED <<store, ended, unclear>>
  BY DEF CheckExpiry, CheckRevoked, HandleAccess, QueryFails, CleanRevoked, At, Busy
<1>3. here \in Places
  BY DEF Places
<1> QED BY <1>1, <1>2, <1>3, MovedSame

LEMMA LoginsKept ==
    ASSUME CallsOK, LoginsAuthenticate, NEW t \in Tasks, NEW x, Goto(t, x),
           x.at = "authenticate" => x.op = "login"
    PROVE  LoginsAuthenticate'
BY DEF Goto, CallsOK, LoginsAuthenticate, At

LEMMA LoginsMoved ==
    ASSUME CallsOK, LoginsAuthenticate, NEW t \in Tasks, Busy(t), NEW here,
           Goto(t, Moved(t, here)), here # "authenticate"
    PROVE  LoginsAuthenticate'
<1> DEFINE x == Moved(t, here)
<1>1. x.at = here
  BY BusyCall DEF Moved, Requests
<1> HIDE DEF x
<1> QED BY <1>1, LoginsKept DEF x

LEMMA LoginsStep == CallsOK /\ LoginsAuthenticate /\ [Next]_vars => LoginsAuthenticate'
<1> SUFFICES ASSUME CallsOK, LoginsAuthenticate, [Next]_vars PROVE LoginsAuthenticate'
  OBVIOUS
<1>1. CASE UNCHANGED call
  BY <1>1 DEF LoginsAuthenticate, At
<1>2. ASSUME NEW t \in Tasks, Goto(t, Idle) PROVE LoginsAuthenticate'
  BY <1>2, LoginsKept DEF Idle
<1>3. ASSUME NEW t \in Tasks, NEW c \in Clients, NEW op \in Ops, Call(t, c, op)
      PROVE  LoginsAuthenticate'
  BY <1>3, LoginsKept DEF Call
<1>4. ASSUME NEW t \in Tasks, Send(t) PROVE LoginsAuthenticate'
  <2>1. Busy(t) /\ call[t] \in Requests(issued)
    BY <1>4, BusyCall DEF Send, At, Busy
  <2>2. CASE call[t].op = "login"
    <3> DEFINE x == Moved(t, "authenticate")
    <3>1. x.op = "login"
      BY <2>1, <2>2 DEF Moved, Requests
    <3>2. Goto(t, x)
      BY <1>4, <2>2 DEF Send
    <3> HIDE DEF x
    <3> QED BY <3>1, <3>2, LoginsKept
  <2>3. CASE call[t].op # "login" /\ store[call[t].client] = None
    BY <1>4, <2>1, <2>3, LoginsMoved DEF Send
  <2>4. CASE call[t].op # "login" /\ store[call[t].client] # None
    <3> DEFINE token == store[call[t].client]
               y == Moved(t, "expiry")
               x == [y EXCEPT !.token = token, !.barred = token \in ended]
    <3>1. y \in Requests(issued) /\ y.at = "expiry"
      BY <2>1 DEF Moved, Requests, Places
    <3>2. x.at = "expiry"
      <4> HIDE DEF y, token
      <4> QED BY <3>1 DEF Requests
    <3>3. Goto(t, x)
      BY <1>4, <2>4 DEF Send
    <3> HIDE DEF x, y, token
    <3> QED BY <3>2, <3>3, LoginsKept
  <2> QED BY <2>2, <2>3, <2>4
<1>5. ASSUME NEW t \in Tasks, TryAgain(t) PROVE LoginsAuthenticate'
  <2> DEFINE y == Moved(t, "send")
             x == [y EXCEPT !.tries = @ + 1, !.barred = FALSE]
  <2>1. CASE Goto(t, x)
    <3>1. Busy(t) /\ call[t] \in Requests(issued)
      BY <1>5, BusyCall DEF TryAgain, Busy
    <3>2. y \in Requests(issued) /\ y.at = "send"
      BY <3>1 DEF Moved, Requests, Places
    <3>3. x.at = "send"
      <4> HIDE DEF y
      <4> QED BY <3>2 DEF Requests
    <3> HIDE DEF x, y
    <3> QED BY <2>1, <3>3, LoginsKept
  <2> QED BY <1>2, <1>5, <2>1 DEF TryAgain, GiveUp
<1>6. ASSUME NEW t \in Tasks, Authenticate(t) PROVE LoginsAuthenticate'
  <2>1. Busy(t) /\ call[t].op = "login" /\ call[t] \in Requests(issued)
    BY <1>6, BusyCall DEF Authenticate, LoginsAuthenticate, At, Busy
  <2> DEFINE y == Moved(t, "clean")
             x == [y EXCEPT !.token = [id |-> issued', exp |-> now + Lifetime]]
  <2>2. y \in Requests(issued) /\ y.op = "login"
    BY <2>1 DEF Moved, Requests, Places
  <2>3. x.op = "login"
    <3> HIDE DEF y
    <3> QED BY <2>2 DEF Requests
  <2>4. CASE Goto(t, x)
    <3> HIDE DEF x, y
    <3> QED BY <2>3, <2>4, LoginsKept
  <2>5. CASE Goto(t, Moved(t, "refused"))
    BY <2>1, <2>5, LoginsMoved
  <2> QED BY <1>6, <2>4, <2>5 DEF Authenticate
<1>7. ASSUME NEW t \in Tasks,
             \/ CheckExpiry(t) \/ CheckRevoked(t) \/ HandleAccess(t)
             \/ HandleLogout(t) \/ QueryFails(t) \/ CleanRevoked(t)
      PROVE  LoginsAuthenticate'
  <2>1. PICK here \in Places \ {"authenticate"} : Goto(t, Moved(t, here))
    BY <1>7 DEF CheckExpiry, CheckRevoked, HandleAccess, HandleLogout, QueryFails, CleanRevoked, Places
  <2>2. Busy(t)
    BY <1>7 DEF CheckExpiry, CheckRevoked, HandleAccess, HandleLogout, QueryFails, CleanRevoked, At, Busy
  <2> QED BY <2>1, <2>2, LoginsMoved
<1> QED
  BY <1>1, <1>2, <1>3, <1>4, <1>5, <1>6, <1>7 DEF Next, vars, Tick, Succeed, Refused, GiveUp

LEMMA DropStart == Init => OwnInv /\ DropInv /\ LoginsAuthenticate
BY DEF Init, OwnInv, DropInv, LoginsAuthenticate, At, Busy, Idle

LEMMA DropStep ==
    IndInv /\ LoginsAuthenticate /\ OwnInv /\ DropInv /\ [Next]_vars => OwnInv' /\ DropInv'
<1> SUFFICES ASSUME CallsOK, BaseOK, LoginsAuthenticate, OwnInv, DropInv, [Next]_vars
             PROVE  OwnInv' /\ DropInv'
  BY Split
<1>1. CASE UNCHANGED vars \/ Tick
  BY <1>1 DEF vars, Tick, OwnInv, DropInv, Busy, Witness
<1>2. ASSUME NEW t \in Tasks, NEW c \in Clients, NEW op \in Ops, Call(t, c, op)
      PROVE  OwnInv' /\ DropInv'
  BY <1>2, CallDrop
<1>3. ASSUME NEW t \in Tasks, Refused(t) PROVE OwnInv' /\ DropInv'
  BY <1>3, GiveUpDrop DEF Refused, At, Busy
<1>4. ASSUME NEW t \in Tasks,
             \/ Send(t) \/ Succeed(t) \/ TryAgain(t) \/ HandleLogout(t) \/ Authenticate(t)
             \/ CheckExpiry(t) \/ CheckRevoked(t) \/ HandleAccess(t) \/ QueryFails(t) \/ CleanRevoked(t)
      PROVE  OwnInv' /\ DropInv'
  BY <1>4, SendDrop, SucceedDrop, TryAgainDrop, HandleLogoutDrop, AuthenticateDrop, OtherDrop
<1> QED BY <1>1, <1>2, <1>3, <1>4 DEF Next

----------------------------------------------------------------------------
(* The theorems *)

\* Every token in a store, in a call or in the table has been issued, and the
\* retry policy is kept (network/client.rs:32, db.rs:59-79).
THEOREM TypeCorrect == Spec => []TypeOK
<1>1. IndInv => TypeOK
  BY DEF IndInv
<1> QED BY InvInit, InvStep, <1>1, PTL DEF Spec

\* A call sent with a logged-out token reaches no handler, short of its expiry
\* during the check (db.rs:139-219, auth_flow.rs:83).
THEOREM LogoutIsFinal == Spec => []LogoutSticks
<1>1. IndInv => LogoutSticks
  BY DEF IndInv
<1> QED BY InvInit, InvStep, <1>1, PTL DEF Spec

\* A client keeps a logged-out token only until its logout returns, unless that
\* seemed to fail (network/client.rs:125).
THEOREM LogoutIsRemembered == Spec => []RevokedIsDropped
<1>1. DropInv => RevokedIsDropped
  BY DEF DropInv, Witness, RevokedIsDropped, Busy, Idle
<1>2. IndInv => CallsOK
  BY Split
<1>3. Spec => []DropInv
  BY InvInit, InvStep, DropStart, LoginsStep, DropStep, <1>2, PTL DEF Spec
<1> QED BY <1>1, <1>3, PTL
============================================================================
