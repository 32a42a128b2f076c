------------------------------ MODULE Sessions ------------------------------
(***************************************************************************)
(* Logging in and out (client/src/network/client.rs and middleware.rs,     *)
(* server/src/middleware.rs, routes.rs and db.rs): the token store of each *)
(* client and the server's table of revoked tokens.                        *)
(*                                                                         *)
(* A call is a task: the client sends it with the token of its store, the  *)
(* server checks the token in two steps, with a query in between, and      *)
(* handles the call; then the response arrives, or the retry middleware    *)
(* sends the call again.  Seconds pass at any moment.  Who may log in (the *)
(* table users) is left out: a login succeeds or is refused.               *)
(***************************************************************************)
EXTENDS Integers, FiniteSets

CONSTANTS
    Clients,    \* the RemoteClients: each has a token store
    Tasks,
    None,       \* an empty token store
    Lifetime,   \* how long a token lives, 24 hours in the code
    MaxRetries, \* of the retry middleware, 3 in the code
    MaxTime,    \* bound on the clock
    MaxTokens   \* bound on the tokens issued

ASSUME NoneAssumption == None \notin [id : Nat, exp : Nat]
ASSUME LifetimeAssumption == Lifetime \in Nat \ {0}
ASSUME RetriesAssumption == MaxRetries \in Nat
ASSUME BoundAssumption == MaxTime \in Nat /\ MaxTokens \in Nat

VARIABLES
    now,        \* the server's clock, in seconds
    store,      \* TokenStore of each client
    revoked,    \* the table revoked_tokens
    issued,     \* how many tokens the server has made
    call,       \* what each call does next
    ended,      \* history: tokens a logout has revoked
    unclear     \* history: of these, those whose logout the client believes failed

vars == <<now, store, revoked, issued, call, ended, unclear>>

Token == [id : 1 .. issued, exp : Nat]
Ops == {"login", "logout", "access"}
Places == {"send", "authenticate", "clean", "expiry", "revocation", "handler",
           "ok", "refused", "failed"}
Request == [at : Places, op : Ops, client : Clients, token : Token \cup {None},
            tries : 0 .. MaxRetries, barred : BOOLEAN]
Idle == [at |-> "idle"]

At(t, here) == call[t].at = here
Goto(t, next) == call' = [call EXCEPT ![t] = next]
Moved(t, here) == [call[t] EXCEPT !.at = here]

Init ==
    /\ now = 0 /\ issued = 0
    /\ store = [c \in Clients |-> None]
    /\ revoked = {} /\ ended = {} /\ unclear = {}
    /\ call = [t \in Tasks |-> Idle]

Tick ==
    /\ now < MaxTime
    /\ now' = now + 1
    /\ UNCHANGED <<store, revoked, issued, call, ended, unclear>>

----------------------------------------------------------------------------
(* The client *)

\* "token" is the one sent, or for a login the one received; "barred" says
\* that it had been revoked when it was sent.
Call(t, c, op) ==
    /\ call[t] = Idle
    /\ Goto(t, [at |-> "send", op |-> op, client |-> c, token |-> None,
                tries |-> 0, barred |-> FALSE])
    /\ UNCHANGED <<now, store, revoked, issued, ended, unclear>>

\* AuthMiddleware runs at every try and attaches the token of that moment.
Send(t) ==
    /\ At(t, "send")
    /\ LET token == store[call[t].client]
       IN  Goto(t, IF call[t].op = "login" THEN Moved(t, "authenticate")
                   ELSE IF token = None THEN Moved(t, "refused")
                   ELSE [Moved(t, "expiry") EXCEPT !.token = token, !.barred = token \in ended])
    /\ UNCHANGED <<now, store, revoked, issued, ended, unclear>>

\* Fault: a logout that leaves the token where it is.
SucceedKeeping(t) ==
    /\ At(t, "ok")
    /\ LET c == call[t].client
       IN  store' = IF call[t].op = "login" THEN [store EXCEPT ![c] = call[t].token] ELSE store
    /\ Goto(t, Idle)
    /\ UNCHANGED <<now, revoked, issued, ended, unclear>>

\* A logout clears the store, whatever token it has by now.
Succeed(t) ==
    /\ At(t, "ok")
    /\ LET c == call[t].client
       IN  store' = CASE call[t].op = "login"  -> [store EXCEPT ![c] = call[t].token]
                      [] call[t].op = "logout" -> [store EXCEPT ![c] = None]
                      [] OTHER -> store
    /\ Goto(t, Idle)
    /\ UNCHANGED <<now, revoked, issued, ended, unclear>>

\* What the client takes for a failure, though the token may be revoked.
GiveUp(t) ==
    /\ Goto(t, Idle)
    /\ unclear' = IF call[t].op = "logout" THEN unclear \cup ({call[t].token} \cap ended) ELSE unclear
    /\ UNCHANGED <<now, store, revoked, issued, ended>>

\* 401 is not retried.
Refused(t) == At(t, "refused") /\ GiveUp(t)

\* Fault: one try too many.
TryOnceMore(t) ==
    /\ call[t].at \in {"send", "ok", "refused", "failed"}
    /\ IF call[t].tries <= MaxRetries
       THEN /\ Goto(t, [Moved(t, "send") EXCEPT !.tries = @ + 1, !.barred = FALSE])
            /\ UNCHANGED <<now, store, revoked, issued, ended, unclear>>
       ELSE GiveUp(t)

\* RetryTransientMiddleware: the connection broke, before or after the server
\* acted, or the server answered 500.
TryAgain(t) ==
    /\ call[t].at \in {"send", "ok", "refused", "failed"}
    /\ IF call[t].tries < MaxRetries
       THEN /\ Goto(t, [Moved(t, "send") EXCEPT !.tries = @ + 1, !.barred = FALSE])
            /\ UNCHANGED <<now, store, revoked, issued, ended, unclear>>
       ELSE GiveUp(t)

----------------------------------------------------------------------------
(* The server *)

\* verify_token: the clock is read before the query.
CheckExpiry(t) ==
    /\ At(t, "expiry")
    /\ Goto(t, Moved(t, IF now >= call[t].token.exp THEN "refused" ELSE "revocation"))
    /\ UNCHANGED <<now, store, revoked, issued, ended, unclear>>

CheckRevoked(t) ==
    /\ At(t, "revocation")
    /\ Goto(t, Moved(t, IF call[t].token \in revoked THEN "refused" ELSE "handler"))
    /\ UNCHANGED <<now, store, revoked, issued, ended, unclear>>

\* A statement fails, with nothing done: 401 from verify_token, otherwise 500.
QueryFails(t) ==
    /\ \/ call[t].at \in {"revocation", "authenticate", "clean"}
       \/ At(t, "handler") /\ call[t].op = "logout"
    /\ Goto(t, Moved(t, IF At(t, "revocation") THEN "refused" ELSE "failed"))
    /\ UNCHANGED <<now, store, revoked, issued, ended, unclear>>

\* Any other handler, for the user of the token.
HandleAccess(t) ==
    /\ At(t, "handler") /\ call[t].op = "access"
    /\ Goto(t, Moved(t, "ok"))
    /\ UNCHANGED <<now, store, revoked, issued, ended, unclear>>

\* insert_revoked_token: the primary key refuses a second row.
HandleLogout(t) ==
    /\ At(t, "handler") /\ call[t].op = "logout"
    /\ LET token == call[t].token
       IN  /\ Goto(t, Moved(t, IF token \in revoked THEN "failed" ELSE "ok"))
           /\ revoked' = revoked \cup {token}
           /\ ended' = ended \cup {token}
    /\ UNCHANGED <<now, store, issued, unclear>>

\* authenticate_user up to the clean-up, whose clock is read here.
Authenticate(t) ==
    /\ At(t, "authenticate")
    /\ \/ /\ Goto(t, Moved(t, "refused"))
          /\ UNCHANGED issued
       \/ /\ issued < MaxTokens
          /\ issued' = issued + 1
          /\ Goto(t, [Moved(t, "clean") EXCEPT !.token = [id |-> issued', exp |-> now + Lifetime]])
    /\ UNCHANGED <<now, store, revoked, ended, unclear>>

CleanTime(t) == call[t].token.exp - Lifetime

\* Fault: the comparison the wrong way round.
CleanRevokedLater(t) ==
    /\ At(t, "clean")
    /\ revoked' = {r \in revoked : r.exp < CleanTime(t)}
    /\ Goto(t, Moved(t, "ok"))
    /\ UNCHANGED <<now, store, issued, ended, unclear>>

\* clean_revoked_token deletes what expires at that very second.
CleanRevoked(t) ==
    /\ At(t, "clean")
    /\ revoked' = {r \in revoked : r.exp # CleanTime(t)}
    /\ Goto(t, Moved(t, "ok"))
    /\ UNCHANGED <<now, store, issued, ended, unclear>>

----------------------------------------------------------------------------
Next ==
    \/ Tick
    \/ \E t \in Tasks :
         \/ \E c \in Clients, op \in Ops : Call(t, c, op)
         \/ Send(t) \/ Succeed(t) \/ Refused(t) \/ TryAgain(t)
         \/ CheckExpiry(t) \/ CheckRevoked(t) \/ HandleAccess(t) \/ HandleLogout(t)
         \/ QueryFails(t) \/ Authenticate(t) \/ CleanRevoked(t)

Spec == Init /\ [][Next]_vars

----------------------------------------------------------------------------
(* Properties *)

\* Every token anywhere has been issued, a row of revoked_tokens was made by a
\* logout, and no call is sent more often than the retry policy says.
TypeOK ==
    /\ now \in 0 .. MaxTime /\ issued \in 0 .. MaxTokens
    /\ store \in [Clients -> Token \cup {None}]
    /\ revoked \subseteq ended /\ unclear \subseteq ended /\ ended \subseteq Token
    /\ call \in [Tasks -> Request \cup {Idle}]
    /\ \A t \in Tasks : call[t].at \in {"clean", "expiry", "revocation", "handler"} =>
         call[t].token \in Token

\* server/tests/auth_flow.rs:83 logout_revokes_token: a call sent with a token
\* that a logout had revoked reaches no handler, unless the token expired
\* while it was being checked and a login cleaned up its row.
LogoutSticks ==
    \A t \in Tasks : At(t, "handler") /\ call[t].barred => now >= call[t].token.exp

\* RemoteClient::logout (client/src/network/client.rs:125): a client keeps a
\* revoked token only until the logout that revoked it returns, unless that
\* logout seemed to fail.
RevokedIsDropped ==
    \A c \in Clients : store[c] \in ended =>
        \/ store[c] \in unclear
        \/ \E t \in Tasks : /\ call[t] # Idle /\ call[t].op = "logout"
                            /\ call[t].client = c /\ call[t].token = store[c]

----------------------------------------------------------------------------
(* The inductive invariant behind TypeOK and LogoutSticks *)

\* A row goes only when its token has expired,
RowsUntilExpiry == \A r \in ended : r \in revoked \/ now >= r.exp

\* since the clean-up uses a time that has come,
CleansThePast == \A t \in Tasks : At(t, "clean") => CleanTime(t) <= now

\* and what barred a call lasts.
BarredIsEnded ==
    \A t \in Tasks : call[t].at \in {"expiry", "revocation", "handler"} /\ call[t].barred
                       => call[t].token \in ended

IndInv == TypeOK /\ RowsUntilExpiry /\ CleansThePast /\ BarredIsEnded /\ LogoutSticks
============================================================================
