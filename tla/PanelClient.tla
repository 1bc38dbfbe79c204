---------------------------- MODULE PanelClient ----------------------------
(***************************************************************************)
(* The HTTP client of the panels (PasarGuardClient).  All handlers and     *)
(* jobs share one cache of access tokens, by panel and credentials.  A     *)
(* call takes the cached token or logs in for one; a panel that answers    *)
(* 401 makes it drop the cached token and try once more.  Panels revoke    *)
(* their tokens at any time, refuse, fail, and answer late or never.       *)
(***************************************************************************)
EXTENDS Naturals

CONSTANTS
    Calls, Keys, Key, Op,   \* see PanelCall
    Closed,     \* panels that answer 401 to everything but a login
    Found,      \* the accounts when the calls begin
    NoToken,
    MaxEpoch    \* bound: how often a panel revokes its tokens

VARIABLES
    account,    \* see PanelCall
    epoch,      \* how often a panel has revoked its tokens
    cache,      \* _token_cache
    call,       \* where each call is
    late        \* requests the client has given up and the panel has not

vars == <<account, epoch, cache, call, late>>

(* A call waits for the answer to its login or to its request, or has it.  *)
Open == {"login", "issued", "sent", "served", "refused", "unauthorized"}

(* What the client promises.                                               *)
Promise == INSTANCE PanelCall WITH
    phase <- [c \in Calls |-> IF call[c].at \in Open THEN "running" ELSE call[c].at],
    applied <- [c \in Calls |-> call[c].applied]

Token == [key : Keys, epoch : 0..MaxEpoch]

ASSUME CallAssumption == Key \in [Calls -> Keys] /\ Op \in [Calls -> Promise!Ops]
ASSUME ClientAssumption ==
    /\ Found \in [Keys -> Promise!Accounts]
    /\ Closed \subseteq Keys /\ MaxEpoch \in Nat
    /\ NoToken \notin Token

Call ==
    [at : Open \cup {"idle", "ok", "error"},
     token : Token \cup {NoToken},
     retry : BOOLEAN,           \* _auth_retry
     since : 0..MaxEpoch,       \* the epoch in which the call began
     applied : Nat,             \* how often it took effect
     denied : BOOLEAN]          \* the error is the second 401
Idle == [at |-> "idle", token |-> NoToken, retry |-> FALSE, since |-> 0,
         applied |-> 0, denied |-> FALSE]

Become(c, C) == call' = [call EXCEPT ![c] = C]
To(c, at) == Become(c, [call[c] EXCEPT !.at = at])
End(c, at) == Become(c, [call[c] EXCEPT !.at = at, !.token = NoToken, !.retry = FALSE])

(* The key of the cache holds the panel and the credentials (the mutant:   *)
(* the credentials only, which two panels may share).                      *)
AnyKey(c) == CHOOSE k \in Keys : TRUE
CacheKey(c) == Key[c]

-----------------------------------------------------------------------------
(* The client: _request and token *)

(* token: the cached one, or a login (the mutant: the cached one).         *)
Unchecked(c, C, tokens) == [C EXCEPT !.at = "sent", !.token = tokens[CacheKey(c)]]
Attempt(c, C, tokens) ==
    IF tokens[CacheKey(c)] # NoToken
    THEN [C EXCEPT !.at = "sent", !.token = tokens[CacheKey(c)]]
    ELSE [C EXCEPT !.at = "login"]

Start(c) ==
    /\ call[c].at = "idle"
    /\ Become(c, Attempt(c, [call[c] EXCEPT !.since = epoch[Key[c]]], cache))
    /\ UNCHANGED <<account, epoch, cache, late>>

(* The token has come: it is cached and the request is sent.               *)
Store(c) ==
    /\ call[c].at = "issued"
    /\ cache' = [cache EXCEPT ![CacheKey(c)] = call[c].token]
    /\ To(c, "sent")
    /\ UNCHANGED <<account, epoch, late>>

(* The first 401 drops whatever token is cached and tries again; nothing   *)
(* else runs between the two.  The mutants: the token stays; the retry is  *)
(* not marked as one.                                                      *)
Keep(c) == cache
Dropped(c) == [cache EXCEPT ![CacheKey(c)] = NoToken]
Unmarked(C) == C
Marked(C) == [C EXCEPT !.retry = TRUE]
Retry(c) ==
    /\ call[c].at = "unauthorized" /\ ~call[c].retry
    /\ cache' = Dropped(c)
    /\ Become(c, Attempt(c, Marked(call[c]), Dropped(c)))
    /\ UNCHANGED <<account, epoch, late>>

Denied(c) ==
    /\ call[c].at = "unauthorized" /\ call[c].retry
    /\ Become(c, [call[c] EXCEPT !.at = "error", !.token = NoToken, !.denied = TRUE])
    /\ UNCHANGED <<account, epoch, cache, late>>

Answered(c) ==
    /\ \/ call[c].at = "served" /\ End(c, "ok")
       \/ call[c].at = "refused" /\ End(c, "error")
    /\ UNCHANGED <<account, epoch, cache, late>>

(* ClientError, TimeoutError after 30 seconds, or an answer that cannot be *)
(* read: the call raises, whatever has become of the request (the mutant:  *)
(* it is sent again).                                                      *)
SendAgain(c) == IF call[c].at = "sent" THEN To(c, "sent") ELSE End(c, "error")
GiveUp(c) == End(c, "error")
Fault(c) ==
    /\ call[c].at \in Open /\ GiveUp(c)
    /\ late' = IF call[c].at = "sent" THEN late \cup {<<c, call[c].token>>} ELSE late
    /\ UNCHANGED <<account, epoch, cache>>

(* An entry is 23 hours old and is not used any more.                      *)
Expire(k) ==
    /\ cache[k] # NoToken /\ cache' = [cache EXCEPT ![k] = NoToken]
    /\ UNCHANGED <<account, epoch, call, late>>

-----------------------------------------------------------------------------
(* The panels *)

Valid(c, token) == token = [key |-> Key[c], epoch |-> epoch[Key[c]]]
                   /\ Key[c] \notin Closed

Issue(c) ==
    /\ call[c].at = "login"
    /\ Become(c, [call[c] EXCEPT !.at = "issued",
            !.token = [key |-> Key[c], epoch |-> epoch[Key[c]]]])
    /\ UNCHANGED <<account, epoch, cache, late>>

Effect(c, at) ==
    /\ Promise!Possible(Op[c], account[Key[c]])
    /\ account' = [account EXCEPT ![Key[c]] = Promise!Result(Op[c], @)]
    /\ Become(c, [call[c] EXCEPT !.at = at, !.applied = @ + 1])

Serve(c) ==
    /\ call[c].at = "sent" /\ Valid(c, call[c].token) /\ Effect(c, "served")
    /\ UNCHANGED <<epoch, cache, late>>

Reject(c) ==
    /\ call[c].at = "sent" /\ ~Valid(c, call[c].token) /\ To(c, "unauthorized")
    /\ UNCHANGED <<account, epoch, cache, late>>

(* Wrong credentials, an unknown or an existing account, HTTP 5xx.         *)
Refuse(c) ==
    /\ call[c].at \in {"login", "sent"} /\ To(c, "refused")
    /\ UNCHANGED <<account, epoch, cache, late>>

ServeLate(c) ==
    /\ \E token \in Token : /\ <<c, token>> \in late /\ Valid(c, token)
                            /\ late' = late \ {<<c, token>>}
    /\ Effect(c, call[c].at)
    /\ UNCHANGED <<epoch, cache>>

Revoke(k) ==
    /\ epoch[k] < MaxEpoch /\ epoch' = [epoch EXCEPT ![k] = @ + 1]
    /\ UNCHANGED <<account, cache, call, late>>

-----------------------------------------------------------------------------
Init ==
    /\ account = Found
    /\ epoch = [k \in Keys |-> 0]
    /\ cache = [k \in Keys |-> NoToken]
    /\ call = [c \in Calls |-> Idle]
    /\ late = {}

Client(c) == Store(c) \/ Retry(c) \/ Denied(c) \/ Answered(c) \/ Fault(c)
Panel(c) == Issue(c) \/ Serve(c) \/ Reject(c) \/ Refuse(c) \/ ServeLate(c)

Next ==
    \/ \E c \in Calls : Start(c) \/ Client(c) \/ Panel(c)
    \/ \E k \in Keys : Expire(k) \/ Revoke(k)

Spec == Init /\ [][Next]_vars
(* asyncio goes on with a call that can, and every request times out.      *)
FairSpec == Spec /\ \A c \in Calls : WF_vars(Client(c))

-----------------------------------------------------------------------------
(* Properties *)

(* The cache and the calls keep their shape.                               *)
TypeOK ==
    /\ account \in [Keys -> Promise!Accounts] /\ epoch \in [Keys -> 0..MaxEpoch]
    /\ cache \in [Keys -> Token \cup {NoToken}]
    /\ call \in [Calls -> Call]
    /\ \A c \in Calls :
          call[c].at \in {"issued", "sent", "served", "unauthorized"} => call[c].token \in Token
    /\ late \subseteq Calls \X Token

(* The cache is shared by all panels, and yet a panel is never shown the   *)
(* token of another, whatever the order of logins, expiries and retries.   *)
TokensStayHome ==
    \A c \in Calls : call[c].token # NoToken => call[c].token.key = Key[c]

(* A call that ends in 401 has met a revocation while it ran: stale tokens *)
(* in the cache, those that late logins put back included, do not fail it. *)
DeniedByRevocation ==
    \A c \in Calls : call[c].denied /\ Key[c] \notin Closed =>
        epoch[Key[c]] > call[c].since

(* A call takes effect at most once, and has if it returns, in spite of    *)
(* its retry and of requests that are served late.                         *)
Implements == Promise!Spec

(* Every call ends: a panel that answers 401 for ever is not asked for     *)
(* ever.                                                                   *)
CallsEnd == \A c \in Calls : (call[c].at \in Open) ~> (call[c].at \in {"ok", "error"})

(* A call that raised takes no effect later.  (It may: the client stops    *)
(* waiting after 30 seconds, the panel does not.)                          *)
RaisedIsOver ==
    [][\A c \in Calls : call[c].at = "error" => call'[c].applied = call[c].applied]_vars
=============================================================================
