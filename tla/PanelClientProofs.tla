------------------------- MODULE PanelClientProofs -------------------------
(***************************************************************************)
(* Proofs about PanelClient for any number of calls and panels: the tokens *)
(* in the cache are those of their panels, stale tokens fail no call, and  *)
(* the client keeps the promise of PanelCall.                              *)
(***************************************************************************)
EXTENDS PanelClient, TLAPS

(* Tokens are those of the panel, and no newer than it.                    *)
TokensFit ==
    /\ \A k \in Keys : cache[k] # NoToken => cache[k].key = k /\ cache[k].epoch <= epoch[k]
    /\ \A c \in Calls : call[c].token # NoToken =>
          call[c].token.key = Key[c] /\ call[c].token.epoch <= epoch[Key[c]]

(* The token of a retry was issued after the call began.                   *)
RetriesAreFresh ==
    \A c \in Calls : LET C == call[c] IN
        /\ C.at = "idle" => ~C.retry
        /\ C.denied => C.at = "error"
        /\ C.since <= epoch[Key[c]]
        /\ C.retry /\ C.at \in {"issued", "sent"} => C.token.epoch >= C.since
        /\ C.retry /\ C.at = "unauthorized" /\ Key[c] \notin Closed =>
              epoch[Key[c]] > C.since

(* A call takes effect when it is served: before, no request of it is left *)
(* to be served late, and after the call has raised there is one at most.  *)
AppliedOnce ==
    \A c \in Calls : LET C == call[c] IN
        /\ C.at \in {"idle", "login", "issued", "sent", "unauthorized", "refused"} =>
              C.applied = 0
        /\ C.at \in {"served", "ok"} => C.applied = 1
        /\ C.applied \in 0..1
        /\ \A t \in Token : <<c, t>> \in late =>
              /\ C.at = "error" /\ C.applied = 0
              /\ \A q \in Token : <<c, q>> \in late => q = t

Inductive ==
    TypeOK /\ TokensFit /\ RetriesAreFresh /\ AppliedOnce /\ DeniedByRevocation

(* What one call does to itself.                                           *)
CallIs(c, C) ==
    /\ C \in Call
    /\ C.at \in {"issued", "sent", "served", "unauthorized"} => C.token \in Token
    /\ C.token # NoToken => C.token.key = Key[c] /\ C.token.epoch <= epoch[Key[c]]
    /\ C.at = "idle" => ~C.retry
    /\ C.denied => C.at = "error"
    /\ C.since <= epoch[Key[c]]
    /\ C.retry /\ C.at \in {"issued", "sent"} => C.token.epoch >= C.since
    /\ C.retry /\ C.at = "unauthorized" /\ Key[c] \notin Closed =>
          epoch[Key[c]] > C.since
    /\ C.at \in {"idle", "login", "issued", "sent", "unauthorized", "refused"} =>
          C.applied = 0
    /\ C.at \in {"served", "ok"} => C.applied = 1
    /\ C.applied \in 0..1
    /\ C.denied /\ Key[c] \notin Closed => epoch[Key[c]] > C.since

CacheIs(k, token) ==
    token \in Token \cup {NoToken}
    /\ (token # NoToken => token.key = k /\ token.epoch <= epoch[k])

LateIs(c, C, L) ==
    \A t \in Token : <<c, t>> \in L =>
        /\ C.at = "error" /\ C.applied = 0
        /\ \A q \in Token : <<c, q>> \in L => q = t

Parts ==
    /\ account \in [Keys -> Promise!Accounts] /\ epoch \in [Keys -> 0..MaxEpoch]
    /\ DOMAIN cache = Keys /\ cache = [k \in Keys |-> cache[k]]
    /\ DOMAIN call = Calls /\ call = [c \in Calls |-> call[c]]
    /\ \A k \in Keys : CacheIs(k, cache[k])
    /\ \A c \in Calls : CallIs(c, call[c]) /\ LateIs(c, call[c], late)
    /\ late \subseteq Calls \X Token

(* The invariant, call by call and entry by entry.                         *)
LEMMA InductiveIs == Inductive <=> Parts
<1>1. ASSUME Inductive
      PROVE  /\ account \in [Keys -> Promise!Accounts] /\ epoch \in [Keys -> 0..MaxEpoch]
             /\ DOMAIN cache = Keys /\ cache = [k \in Keys |-> cache[k]]
             /\ DOMAIN call = Calls /\ call = [c \in Calls |-> call[c]]
             /\ late \subseteq Calls \X Token
  BY <1>1 DEF Inductive, TypeOK
<1>2. ASSUME Inductive
      PROVE  /\ \A k \in Keys : CacheIs(k, cache[k])
             /\ \A c \in Calls : CallIs(c, call[c]) /\ LateIs(c, call[c], late)
  BY <1>2 DEF Inductive, TypeOK, TokensFit, RetriesAreFresh, AppliedOnce,
     DeniedByRevocation, CacheIs, CallIs, LateIs
<1>3. ASSUME Parts
      PROVE  Inductive
  <2>1. \A c \in Calls : call[c] \in Call
    BY <1>3 DEF CallIs, Parts
  <2>2. call \in [Calls -> Call]
    BY <1>3, <2>1 DEF Parts
  <2>3. \A k \in Keys : cache[k] \in Token \cup {NoToken}
    BY <1>3 DEF CacheIs, Parts
  <2>4. cache \in [Keys -> Token \cup {NoToken}]
    BY <1>3, <2>3 DEF Parts
  <2>5. TypeOK
    BY <1>3, <2>2, <2>4 DEF TypeOK, CallIs, Parts
  <2>6. TokensFit
    BY <1>3 DEF TokensFit, CacheIs, CallIs, Parts
  <2>7. RetriesAreFresh /\ DeniedByRevocation
    BY <1>3 DEF RetriesAreFresh, DeniedByRevocation, CallIs, Parts
  <2>8. AppliedOnce
    BY <1>3 DEF AppliedOnce, CallIs, LateIs, Parts
  <2>. QED  BY <2>5, <2>6, <2>7, <2>8 DEF Inductive
<1>. QED  BY <1>1, <1>2, <1>3 DEF Parts

(* A step of one call, with what it does to the cache and to late ones.    *)
LEMMA CallStep ==
    ASSUME Inductive, NEW c \in Calls, NEW C, call' = [call EXCEPT ![c] = C], CallIs(c, C),
           account' \in [Keys -> Promise!Accounts], epoch' = epoch,
           NEW tokens, cache' = tokens, DOMAIN tokens = Keys, tokens = [k \in Keys |-> tokens[k]],
           \A k \in Keys : CacheIs(k, tokens[k]),
           NEW L \in SUBSET (Calls \X Token), late' = L, LateIs(c, C, L),
           \A d \in Calls, t \in Token : d # c => (<<d, t>> \in L <=> <<d, t>> \in late)
    PROVE  Inductive'
<1>1. /\ epoch \in [Keys -> 0..MaxEpoch] /\ DOMAIN call = Calls
      /\ \A d \in Calls : CallIs(d, call[d]) /\ LateIs(d, call[d], late)
  BY InductiveIs DEF Parts
<1>2. call'[c] = C /\ DOMAIN call' = Calls /\ call' = [d \in Calls |-> call'[d]]
      /\ \A d \in Calls : d # c => call'[d] = call[d]
  BY <1>1
<1>3. \A d \in Calls : CallIs(d, call'[d])
  BY <1>1, <1>2
<1>4. \A d \in Calls : CallIs(d, call[d])'
  BY <1>3 DEF CallIs
<1>5. ASSUME NEW d \in Calls
      PROVE  LateIs(d, call'[d], L)
  <2>1. CASE d = c
    BY <1>2, <2>1
  <2>2. CASE d # c
    BY <1>1, <1>2, <2>2 DEF LateIs
  <2>. QED  BY <2>1, <2>2
<1>6. \A k \in Keys : CacheIs(k, cache[k])'
  BY DEF CacheIs
<1>. HIDE DEF CallIs, LateIs, CacheIs
<1>7. Parts'
  <2>1. \A d \in Calls : LateIs(d, call[d], late)'
    BY <1>5 DEF LateIs
  <2>. QED  BY <1>1, <1>2, <1>4, <1>6, <2>1 DEF Parts
<1>. QED  BY <1>7, InductiveIs, PTL

(* Most steps leave the cache and the late requests alone.                 *)
LEMMA PlainStep ==
    ASSUME Inductive, NEW c \in Calls, NEW C, call' = [call EXCEPT ![c] = C], CallIs(c, C),
           call[c].at # "error", account' \in [Keys -> Promise!Accounts],
           UNCHANGED <<epoch, cache, late>>
    PROVE  Inductive'
<1>1. /\ DOMAIN cache = Keys /\ cache = [k \in Keys |-> cache[k]]
      /\ \A k \in Keys : CacheIs(k, cache[k])
      /\ late \in SUBSET (Calls \X Token) /\ LateIs(c, call[c], late)
  BY InductiveIs DEF Parts
<1>2. LateIs(c, C, late)
  BY <1>1 DEF LateIs
<1>3. epoch' = epoch /\ cache' = cache /\ late' = late
  OBVIOUS
<1>4. \A d \in Calls, t \in Token : d # c => (<<d, t>> \in late <=> <<d, t>> \in late)
  OBVIOUS
<1>. HIDE DEF Inductive
<1>. QED  BY <1>1, <1>2, <1>3, <1>4, CallStep, Zenon

(* The token a call takes from the cache is its own.                       *)
LEMMA AttemptIs ==
    ASSUME Inductive, NEW c \in Calls, NEW C \in Call, C.at \in {"idle", "unauthorized"},
           C.applied = 0, C.denied = FALSE, C.since <= epoch[Key[c]],
           C.token # NoToken => C.token.key = Key[c] /\ C.token.epoch <= epoch[Key[c]],
           NEW tokens, \A k \in Keys : CacheIs(k, tokens[k]),
           C.retry => tokens[Key[c]] = NoToken
    PROVE  CallIs(c, Attempt(c, C, tokens)) /\ Attempt(c, C, tokens).at \in {"sent", "login"}
<1>. DEFINE t == tokens[Key[c]]
<1>1. Key[c] \in Keys /\ CacheIs(Key[c], t)
  BY CallAssumption
<1>2. CASE t # NoToken
  <2>1. t \in Token /\ t.key = Key[c] /\ t.epoch <= epoch[Key[c]] /\ C.retry = FALSE
    BY <1>1, <1>2 DEF CacheIs, Call
  <2>2. Attempt(c, C, tokens) = [C EXCEPT !.at = "sent", !.token = t]
    BY <1>2 DEF Attempt, CacheKey
  <2>. DEFINE N == Attempt(c, C, tokens)
  <2>. HIDE DEF t
  <2>3. /\ N \in Call /\ N.at = "sent" /\ N.token = t /\ N.retry = FALSE
        /\ N.applied = 0 /\ N.denied = FALSE /\ N.since = C.since
    BY <2>1, <2>2 DEF Call, Open
  <2>. HIDE DEF N
  <2>4. CallIs(c, N)
    BY <2>1, <2>3 DEF CallIs
  <2>. QED  BY <2>3, <2>4 DEF N
<1>3. CASE t = NoToken
  <2>1. Attempt(c, C, tokens) = [C EXCEPT !.at = "login"]
    BY <1>3 DEF Attempt, CacheKey
  <2>. QED  BY <2>1 DEF CallIs, Call, Open
<1>. QED  BY <1>2, <1>3

LEMMA EffectKeeps ==
    ASSUME Inductive, NEW c \in Calls, NEW op \in Promise!Ops
    PROVE  [account EXCEPT ![Key[c]] = Promise!Result(op, @)] \in [Keys -> Promise!Accounts]
<1>1. \A a \in Promise!Accounts : Promise!Result(op, a) \in Promise!Accounts
  BY DEF Promise!Result, Promise!Accounts, Promise!Ops
<1>. QED  BY <1>1, CallAssumption DEF Inductive, TypeOK

LEMMA StartKeeps ==
    ASSUME Inductive, NEW c \in Calls, Start(c)
    PROVE  Inductive'
<1>. DEFINE C == [call[c] EXCEPT !.since = epoch[Key[c]]]
<1>1. /\ CallIs(c, call[c]) /\ call[c].at = "idle" /\ epoch[Key[c]] \in 0..MaxEpoch
      /\ account \in [Keys -> Promise!Accounts] /\ \A k \in Keys : CacheIs(k, cache[k])
  BY InductiveIs, CallAssumption DEF Parts, Start
<1>2. /\ C \in Call /\ C.at = "idle" /\ C.applied = 0 /\ C.since = epoch[Key[c]]
      /\ C.token = call[c].token /\ C.retry = call[c].retry /\ C.denied = call[c].denied
  BY <1>1 DEF CallIs, Call
<1>3. call' = [call EXCEPT ![c] = Attempt(c, C, cache)]
  BY DEF Start, Become
<1>4. C.denied = FALSE /\ C.retry = FALSE
  BY <1>1, <1>2 DEF CallIs, Call
<1>5. CallIs(c, Attempt(c, C, cache))
  <2>. HIDE DEF C
  <2>1. C.since <= epoch[Key[c]]
    BY <1>1, <1>2, ClientAssumption
  <2>. QED  BY <1>1, <1>2, <1>4, <2>1, AttemptIs DEF CallIs
<1>. QED  BY <1>1, <1>3, <1>5, PlainStep DEF Start

LEMMA StoreKeeps ==
    ASSUME Inductive, NEW c \in Calls, Store(c)
    PROVE  Inductive'
<1>. DEFINE C == [call[c] EXCEPT !.at = "sent"]
            tokens == [cache EXCEPT ![Key[c]] = call[c].token]
<1>1. /\ CallIs(c, call[c]) /\ LateIs(c, call[c], late) /\ call[c].at = "issued"
      /\ account \in [Keys -> Promise!Accounts] /\ late \in SUBSET (Calls \X Token)
      /\ DOMAIN cache = Keys /\ cache = [k \in Keys |-> cache[k]]
      /\ \A k \in Keys : CacheIs(k, cache[k])
  BY InductiveIs DEF Parts, Store
<1>2. CallIs(c, C)
  BY <1>1 DEF CallIs, Call, Open
<1>3. LateIs(c, C, late)
  BY <1>1 DEF LateIs
<1>4. call' = [call EXCEPT ![c] = C] /\ cache' = tokens
      /\ account' = account /\ epoch' = epoch /\ late' = late
  BY DEF Store, To, Become, CacheKey
<1>5. call[c].token \in Token /\ CacheIs(Key[c], call[c].token)
  <2>1. call[c].token \in Token
    BY <1>1 DEF CallIs
  <2>2. call[c].token # NoToken
    BY <2>1, ClientAssumption
  <2>. QED  BY <1>1, <2>1, <2>2 DEF CallIs, CacheIs
<1>6. DOMAIN tokens = Keys /\ tokens = [k \in Keys |-> tokens[k]]
      /\ \A k \in Keys : CacheIs(k, tokens[k])
  BY <1>1, <1>5
<1>7. \A d \in Calls, t \in Token : d # c => (<<d, t>> \in late <=> <<d, t>> \in late)
  OBVIOUS
<1>. HIDE DEF C, tokens, Inductive
<1>. QED  BY <1>1, <1>2, <1>3, <1>4, <1>6, <1>7, CallStep, Zenon

LEMMA RetryKeeps ==
    ASSUME Inductive, NEW c \in Calls, Retry(c)
    PROVE  Inductive'
<1>. DEFINE C == Marked(call[c])
            tokens == Dropped(c)
<1>1. /\ CallIs(c, call[c]) /\ LateIs(c, call[c], late) /\ call[c].at = "unauthorized"
      /\ account \in [Keys -> Promise!Accounts] /\ late \in SUBSET (Calls \X Token)
      /\ DOMAIN cache = Keys /\ cache = [k \in Keys |-> cache[k]]
      /\ \A k \in Keys : CacheIs(k, cache[k])
      /\ Key[c] \in Keys
  BY InductiveIs, CallAssumption DEF Parts, Retry
<1>2. /\ C \in Call /\ C.at = "unauthorized" /\ C.applied = 0 /\ C.denied = FALSE
      /\ C.since = call[c].since /\ C.token = call[c].token
  BY <1>1 DEF CallIs, Call, Marked
<1>3. DOMAIN tokens = Keys /\ tokens = [k \in Keys |-> tokens[k]] /\ tokens[Key[c]] = NoToken
      /\ \A k \in Keys : CacheIs(k, tokens[k])
  BY <1>1, ClientAssumption DEF Dropped, CacheKey, CacheIs
<1>. DEFINE N == Attempt(c, C, tokens)
<1>4. call' = [call EXCEPT ![c] = N] /\ cache' = tokens
      /\ account' = account /\ epoch' = epoch /\ late' = late
  BY DEF Retry, Become
<1>. HIDE DEF C, tokens
<1>5. CallIs(c, N)
  BY <1>1, <1>2, <1>3, AttemptIs DEF CallIs
<1>6. LateIs(c, N, late)
  BY <1>1 DEF LateIs
<1>7. \A d \in Calls, t \in Token : d # c => (<<d, t>> \in late <=> <<d, t>> \in late)
  OBVIOUS
<1>. HIDE DEF N, Inductive
<1>. QED  BY <1>1, <1>3, <1>4, <1>5, <1>6, <1>7, CallStep, Zenon

LEMMA EndKeeps ==
    ASSUME Inductive, NEW c \in Calls, Denied(c) \/ Answered(c)
    PROVE  Inductive'
<1>1. /\ CallIs(c, call[c]) /\ account \in [Keys -> Promise!Accounts]
  BY InductiveIs DEF Parts
<1>2. ASSUME NEW C, call' = [call EXCEPT ![c] = C], CallIs(c, C), call[c].at # "error",
             UNCHANGED <<account, epoch, cache, late>>
      PROVE  Inductive'
  BY <1>1, <1>2, PlainStep
<1>3. CASE Denied(c)
  <2>. DEFINE C == [call[c] EXCEPT !.at = "error", !.token = NoToken, !.denied = TRUE]
  <2>1. call[c].at = "unauthorized" /\ call[c].retry
    BY <1>3 DEF Denied
  <2>2. CallIs(c, C)
    BY <1>1, <2>1 DEF CallIs, Call, Open
  <2>. QED  BY <1>2, <1>3, <2>1, <2>2 DEF Denied, Become
<1>4. ASSUME NEW at \in {"ok", "error"}, End(c, at), call[c].at # "error",
             at = "ok" => call[c].at = "served", call[c].at # "idle",
             UNCHANGED <<account, epoch, cache, late>>
      PROVE  Inductive'
  <2>. DEFINE C == [call[c] EXCEPT !.at = at, !.token = NoToken, !.retry = FALSE]
  <2>1. CallIs(c, C)
    BY <1>1, <1>4 DEF CallIs, Call, Open
  <2>. QED  BY <1>2, <1>4, <2>1 DEF End, Become
<1>5. CASE Answered(c)
  BY <1>4, <1>5 DEF Answered
<1>. QED  BY <1>3, <1>5

LEMMA FaultKeeps ==
    ASSUME Inductive, NEW c \in Calls, Fault(c)
    PROVE  Inductive'
<1>. DEFINE C == [call[c] EXCEPT !.at = "error", !.token = NoToken, !.retry = FALSE]
            L == IF call[c].at = "sent" THEN late \cup {<<c, call[c].token>>} ELSE late
<1>1. /\ CallIs(c, call[c]) /\ LateIs(c, call[c], late) /\ call[c].at \in Open
      /\ account \in [Keys -> Promise!Accounts] /\ late \in SUBSET (Calls \X Token)
      /\ DOMAIN cache = Keys /\ cache = [k \in Keys |-> cache[k]]
      /\ \A k \in Keys : CacheIs(k, cache[k])
  BY InductiveIs DEF Parts, Fault
<1>2. CallIs(c, C)
  BY <1>1 DEF CallIs, Call, Open
<1>3. call' = [call EXCEPT ![c] = C] /\ late' = L
      /\ account' = account /\ epoch' = epoch /\ cache' = cache
  BY DEF Fault, GiveUp, End, Become
<1>4. L \in SUBSET (Calls \X Token)
  BY <1>1 DEF CallIs
<1>5. C.at = "error" /\ (call[c].at = "sent" => C.applied = 0)
  BY <1>1 DEF CallIs, Call
<1>6. \A t \in Token : <<c, t>> \notin late
  BY <1>1 DEF LateIs, Open
<1>7. LateIs(c, C, L)
  <2>. HIDE DEF C
  <2>. QED  BY <1>5, <1>6 DEF LateIs
<1>8. \A d \in Calls, t \in Token : d # c => (<<d, t>> \in L <=> <<d, t>> \in late)
  OBVIOUS
<1>. HIDE DEF C, L, Inductive
<1>. QED  BY <1>1, <1>2, <1>3, <1>4, <1>7, <1>8, CallStep, Zenon

LEMMA PanelKeeps ==
    ASSUME Inductive, NEW c \in Calls, Issue(c) \/ Serve(c) \/ Reject(c) \/ Refuse(c)
    PROVE  Inductive'
<1>1. /\ CallIs(c, call[c]) /\ account \in [Keys -> Promise!Accounts]
      /\ Key[c] \in Keys /\ epoch[Key[c]] \in 0..MaxEpoch
  BY InductiveIs, CallAssumption DEF Parts
<1>2. ASSUME NEW C, call' = [call EXCEPT ![c] = C], CallIs(c, C), call[c].at # "error",
             account' \in [Keys -> Promise!Accounts], UNCHANGED <<epoch, cache, late>>
      PROVE  Inductive'
  BY <1>2, PlainStep
<1>3. CASE Issue(c)
  <2>. DEFINE t == [key |-> Key[c], epoch |-> epoch[Key[c]]]
              C == [call[c] EXCEPT !.at = "issued", !.token = t]
  <2>1. t \in Token /\ t.key = Key[c] /\ t.epoch = epoch[Key[c]]
    BY <1>1 DEF Token
  <2>2. call[c].at = "login" /\ call' = [call EXCEPT ![c] = C]
        /\ UNCHANGED <<account, epoch, cache, late>>
    BY <1>3 DEF Issue, Become
  <2>. HIDE DEF t
  <2>3. CallIs(c, C)
    <3>1. /\ C \in Call /\ C.at = "issued" /\ C.token = t /\ C.retry = call[c].retry
          /\ C.since = call[c].since /\ C.denied = FALSE /\ C.applied = 0
      BY <1>1, <2>1, <2>2 DEF CallIs, Call, Open
    <3>. HIDE DEF C
    <3>2. C.since \in Nat /\ C.since <= epoch[Key[c]]
      BY <1>1, <3>1, ClientAssumption DEF CallIs, Call
    <3>. QED  BY <1>1, <2>1, <2>2, <3>1, <3>2 DEF CallIs
  <2>. QED  BY <1>1, <1>2, <2>2, <2>3
<1>4. CASE Serve(c)
  <2>. DEFINE C == [call[c] EXCEPT !.at = "served", !.applied = @ + 1]
  <2>1. call[c].at = "sent" /\ call' = [call EXCEPT ![c] = C] /\ UNCHANGED <<epoch, cache, late>>
        /\ account' = [account EXCEPT ![Key[c]] = Promise!Result(Op[c], @)]
    BY <1>4 DEF Serve, Effect, Become
  <2>2. account' \in [Keys -> Promise!Accounts]
    BY <2>1, EffectKeeps, CallAssumption
  <2>3. CallIs(c, C)
    <3>0. call[c] \in Call /\ call[c].applied = 0 /\ call[c].denied = FALSE
      BY <1>1, <2>1 DEF CallIs, Call
    <3>2. C = [call[c] EXCEPT !.at = "served", !.applied = 1]
      BY <3>0
    <3>1. /\ C \in Call /\ C.at = "served" /\ C.token = call[c].token /\ C.retry = call[c].retry
          /\ C.since = call[c].since /\ C.denied = FALSE /\ C.applied = 1
      <4>. HIDE DEF C
      <4>. QED  BY <3>0, <3>2 DEF Call, Open
    <3>. HIDE DEF C
    <3>. QED  BY <1>1, <2>1, <3>1 DEF CallIs
  <2>. QED  BY <1>2, <2>1, <2>2, <2>3
<1>5. CASE Reject(c)
  <2>. DEFINE C == [call[c] EXCEPT !.at = "unauthorized"]
              t == call[c].token
  <2>1. call[c].at = "sent" /\ call' = [call EXCEPT ![c] = C]
        /\ UNCHANGED <<account, epoch, cache, late>> /\ ~Valid(c, t)
    BY <1>5 DEF Reject, To, Become
  <2>2. t \in Token /\ t.key = Key[c] /\ t.epoch <= epoch[Key[c]] /\ t.epoch \in Nat
        /\ (call[c].retry => t.epoch >= call[c].since) /\ call[c].since \in Nat
    BY <1>1, <2>1, ClientAssumption DEF CallIs, Call, Token
  <2>3. Key[c] \notin Closed => t.epoch # epoch[Key[c]]
    BY <2>1, <2>2 DEF Valid, Token
  <2>4. call[c].retry /\ Key[c] \notin Closed => epoch[Key[c]] > call[c].since
    BY <1>1, <2>2, <2>3
  <2>5. CallIs(c, C)
    <3>1. /\ C \in Call /\ C.at = "unauthorized" /\ C.token = t /\ C.retry = call[c].retry
          /\ C.since = call[c].since /\ C.denied = FALSE /\ C.applied = 0
      BY <1>1, <2>1 DEF CallIs, Call, Open
    <3>. HIDE DEF C
    <3>. QED  BY <1>1, <2>1, <2>2, <2>4, <3>1 DEF CallIs
  <2>. QED  BY <1>1, <1>2, <2>1, <2>5
<1>6. CASE Refuse(c)
  <2>. DEFINE C == [call[c] EXCEPT !.at = "refused"]
  <2>1. call[c].at \in {"login", "sent"} /\ call' = [call EXCEPT ![c] = C]
        /\ UNCHANGED <<account, epoch, cache, late>>
    BY <1>6 DEF Refuse, To, Become
  <2>2. CallIs(c, C)
    BY <1>1, <2>1 DEF CallIs, Call, Open
  <2>. QED  BY <1>1, <1>2, <2>1, <2>2
<1>. QED  BY <1>3, <1>4, <1>5, <1>6

LEMMA ServeLateKeeps ==
    ASSUME Inductive, NEW c \in Calls, ServeLate(c)
    PROVE  Inductive'
<1>1. /\ CallIs(c, call[c]) /\ LateIs(c, call[c], late)
      /\ account \in [Keys -> Promise!Accounts] /\ late \in SUBSET (Calls \X Token)
      /\ DOMAIN cache = Keys /\ cache = [k \in Keys |-> cache[k]]
      /\ \A k \in Keys : CacheIs(k, cache[k])
  BY InductiveIs DEF Parts
<1>2. PICK t \in Token : <<c, t>> \in late /\ late' = late \ {<<c, t>>}
  BY DEF ServeLate
<1>. DEFINE C == [call[c] EXCEPT !.at = call[c].at, !.applied = @ + 1]
            L == late \ {<<c, t>>}
<1>3. call[c].at = "error" /\ call[c].applied = 0 /\ \A q \in Token : <<c, q>> \in late => q = t
  BY <1>1, <1>2 DEF LateIs
<1>4. C = [call[c] EXCEPT !.at = "error", !.applied = 1]
  BY <1>3
<1>5. CallIs(c, C)
  <2>. HIDE DEF C
  <2>1. /\ C \in Call /\ C.at = "error" /\ C.token = call[c].token /\ C.retry = call[c].retry
        /\ C.since = call[c].since /\ C.denied = call[c].denied /\ C.applied = 1
    BY <1>1, <1>3, <1>4 DEF CallIs, Call
  <2>. QED  BY <1>1, <1>3, <2>1 DEF CallIs
<1>6. call' = [call EXCEPT ![c] = C] /\ late' = L /\ epoch' = epoch /\ cache' = cache
      /\ account' = [account EXCEPT ![Key[c]] = Promise!Result(Op[c], @)]
  BY <1>2 DEF ServeLate, Effect, Become
<1>7. account' \in [Keys -> Promise!Accounts]
  BY <1>6, EffectKeeps, CallAssumption
<1>8. L \in SUBSET (Calls \X Token) /\ LateIs(c, C, L)
      /\ \A d \in Calls, q \in Token : d # c => (<<d, q>> \in L <=> <<d, q>> \in late)
  BY <1>1, <1>3 DEF LateIs
<1>. HIDE DEF C, L, Inductive
<1>. QED  BY <1>1, <1>5, <1>6, <1>7, <1>8, CallStep, Zenon

LEMMA ExpireKeeps ==
    ASSUME Inductive, NEW k \in Keys, Expire(k)
    PROVE  Inductive'
<1>1. \A j \in Keys : cache'[j] \in {cache[j], NoToken}
      /\ cache' = [cache EXCEPT ![k] = NoToken] /\ UNCHANGED <<account, epoch, call, late>>
  BY DEF Expire, Inductive, TypeOK
<1>2. TypeOK' /\ TokensFit'
  BY <1>1 DEF Inductive, TypeOK, TokensFit
<1>3. RetriesAreFresh' /\ AppliedOnce' /\ DeniedByRevocation'
  BY <1>1 DEF Inductive, RetriesAreFresh, AppliedOnce, DeniedByRevocation
<1>. QED  BY <1>2, <1>3 DEF Inductive

LEMMA RevokeKeeps ==
    ASSUME Inductive, NEW k \in Keys, Revoke(k)
    PROVE  Inductive'
<1>1. /\ epoch \in [Keys -> 0..MaxEpoch] /\ epoch[k] < MaxEpoch
      /\ epoch' = [epoch EXCEPT ![k] = @ + 1] /\ UNCHANGED <<account, cache, call, late>>
      /\ MaxEpoch \in Nat /\ Key \in [Calls -> Keys]
  BY ClientAssumption, CallAssumption DEF Revoke, Inductive, TypeOK
<1>2. /\ epoch' \in [Keys -> 0..MaxEpoch]
      /\ \A j \in Keys : epoch[j] \in Nat /\ epoch'[j] \in Nat /\ epoch[j] <= epoch'[j]
  BY <1>1
<1>3. /\ \A t \in Token : t.epoch \in Nat
      /\ \A c \in Calls : call[c].since \in Nat /\ Key[c] \in Keys
      /\ \A c \in Calls : call[c].token # NoToken => call[c].token \in Token
      /\ \A j \in Keys : cache[j] # NoToken => cache[j] \in Token
  BY <1>1 DEF Inductive, TypeOK, Token, Call
<1>4. TypeOK'
  BY <1>1, <1>2 DEF Inductive, TypeOK
<1>5. TokensFit'
  BY <1>1, <1>2, <1>3 DEF Inductive, TokensFit
<1>6. RetriesAreFresh' /\ DeniedByRevocation'
  BY <1>1, <1>2, <1>3 DEF Inductive, RetriesAreFresh, DeniedByRevocation
<1>7. AppliedOnce'
  BY <1>1 DEF Inductive, AppliedOnce
<1>. QED  BY <1>4, <1>5, <1>6, <1>7 DEF Inductive

LEMMA InitInductive == Init => Inductive
<1>. SUFFICES ASSUME Init PROVE Inductive
  OBVIOUS
<1>1. Idle \in Call /\ Idle.at = "idle" /\ Idle.token = NoToken /\ Idle.retry = FALSE
      /\ Idle.since = 0 /\ Idle.applied = 0 /\ Idle.denied = FALSE
  BY ClientAssumption DEF Idle, Call, Open
<1>2. \A c \in Calls : call[c] = Idle /\ epoch[Key[c]] = 0
  BY CallAssumption DEF Init
<1>3. TypeOK
  BY <1>1, <1>2, ClientAssumption DEF Init, TypeOK
<1>4. TokensFit /\ RetriesAreFresh /\ DeniedByRevocation
  BY <1>1, <1>2 DEF Init, TokensFit, RetriesAreFresh, DeniedByRevocation
<1>5. AppliedOnce
  <2>1. ASSUME NEW c \in Calls
        PROVE  call[c].at = "idle" /\ call[c].applied = 0
    BY <1>1, <1>2
  <2>2. late = {}
    BY DEF Init
  <2>3. \A c \in Calls, t \in Token : <<c, t>> \notin late
    BY <2>2
  <2>4. ASSUME NEW c \in Calls
        PROVE  /\ call[c].applied = 0 /\ call[c].applied \in 0..1
               /\ call[c].at \notin {"served", "ok"}
    BY <2>1
  <2>. QED  BY <2>3, <2>4 DEF AppliedOnce
<1>. QED  BY <1>3, <1>4, <1>5 DEF Inductive

LEMMA NextInductive == Inductive /\ [Next]_vars => Inductive'
<1>. SUFFICES ASSUME Inductive, [Next]_vars PROVE Inductive'
  OBVIOUS
<1>1. ASSUME NEW c \in Calls, Start(c) \/ Client(c) \/ Panel(c)
      PROVE  Inductive'
  BY <1>1, StartKeeps, StoreKeeps, RetryKeeps, EndKeeps, FaultKeeps, PanelKeeps,
     ServeLateKeeps DEF Client, Panel
<1>2. ASSUME NEW k \in Keys, Expire(k) \/ Revoke(k)
      PROVE  Inductive'
  BY <1>2, ExpireKeeps, RevokeKeeps
<1>3. CASE UNCHANGED vars
  BY <1>3 DEF vars, Inductive, TypeOK, TokensFit, RetriesAreFresh, AppliedOnce,
     DeniedByRevocation
<1>. QED  BY <1>1, <1>2, <1>3 DEF Next

LEMMA AlwaysInductive == Spec => []Inductive
BY InitInductive, NextInductive, PTL DEF Spec

(* The cache and the calls always have their types.                        *)
THEOREM TypeCorrect == Spec => []TypeOK
<1>1. Inductive => TypeOK
  BY DEF Inductive
<1>. QED  BY <1>1, AlwaysInductive, PTL

(* _token_cache is keyed by panel and credentials: no panel ever sees the  *)
(* token of another.                                                       *)
THEOREM OwnTokensOnly == Spec => []TokensStayHome
<1>1. Inductive => TokensStayHome
  BY DEF Inductive, TokensFit, TokensStayHome
<1>. QED  BY <1>1, AlwaysInductive, PTL

(* _request drops the cached token and logs in anew without a pause, so    *)
(* that only a revocation during the call makes its second attempt fail.   *)
THEOREM StaleTokensAreHarmless == Spec => []DeniedByRevocation
<1>1. Inductive => DeniedByRevocation
  BY DEF Inductive
<1>. QED  BY <1>1, AlwaysInductive, PTL

-----------------------------------------------------------------------------
(* The refinement *)

Phase(C) == IF C.at \in Open THEN "running" ELSE C.at
phases == [c \in Calls |-> IF call[c].at \in Open THEN "running" ELSE call[c].at]
counts == [c \in Calls |-> call[c].applied]

LEMMA Mapped ==
    ASSUME TypeOK, NEW c \in Calls, NEW C, call' = [call EXCEPT ![c] = C]
    PROVE  /\ phases' = [phases EXCEPT ![c] = Phase(C)]
           /\ counts' = [counts EXCEPT ![c] = C.applied]
           /\ phases[c] = Phase(call[c]) /\ counts[c] = call[c].applied
           /\ Phase(C) = phases[c] => phases' = phases
           /\ C.applied = counts[c] => counts' = counts
BY DEF TypeOK, phases, counts, Phase

(* What a step of a call is for the promise.                               *)
LEMMA StepPromise ==
    ASSUME Inductive, NEW c \in Calls, Start(c) \/ Client(c) \/ Panel(c)
    PROVE  [Promise!Next]_(Promise!vars)
<1>. DEFINE C == call[c]
<1>0. TypeOK /\ C \in Call /\ CallIs(c, C) /\ LateIs(c, C, late)
  BY InductiveIs DEF Inductive, TypeOK, Parts
<1>1. ASSUME NEW N, call' = [call EXCEPT ![c] = N], account' = account,
             C.at \in Open, N.at \in Open, N.applied = C.applied
      PROVE  UNCHANGED Promise!vars
  <2>1. phases' = phases /\ counts' = counts
    BY <1>0, <1>1, Mapped DEF Phase
  <2>. QED  BY <1>1, <2>1 DEF Promise!vars, phases, counts
<1>2. ASSUME NEW N, call' = [call EXCEPT ![c] = N], account' = account,
             C.at \in Open, N.at = "error" \/ (N.at = "ok" /\ C.applied = 1),
             N.applied = C.applied
      PROVE  Promise!Next
  <2>0. Phase(N) = N.at /\ Phase(C) = "running"
    BY <1>2 DEF Phase, Open
  <2>1. /\ phases[c] = "running" /\ phases' = [phases EXCEPT ![c] = N.at]
        /\ counts' = counts /\ counts[c] = C.applied
    <3>1. /\ phases' = [phases EXCEPT ![c] = Phase(N)] /\ phases[c] = Phase(C)
          /\ counts[c] = C.applied /\ (N.applied = counts[c] => counts' = counts)
      BY <1>0, <1>2, Mapped
    <3>. QED  BY <1>2, <2>0, <3>1
  <2>2. CASE N.at = "error"
    <3>1. Promise!Raise(c)
      BY <1>2, <2>1, <2>2 DEF Promise!Raise, phases, counts
    <3>. QED  BY <3>1 DEF Promise!Next
  <2>3. CASE N.at = "ok" /\ C.applied = 1
    <3>1. Promise!Return(c)
      BY <1>2, <2>1, <2>3 DEF Promise!Return, phases, counts
    <3>. QED  BY <3>1 DEF Promise!Next
  <2>. QED  BY <1>2, <2>2, <2>3
<1>3. ASSUME NEW at \in {"served", "error"}, Effect(c, at), C.applied = 0,
             <<C.at, at>> \in {<<"sent", "served">>, <<"error", "error">>}
      PROVE  Promise!Next
  <2>. DEFINE N == [call[c] EXCEPT !.at = at, !.applied = 0 + 1]
  <2>1. call' = [call EXCEPT ![c] = N] /\ N.at = at /\ N.applied = 1
    BY <1>0, <1>3 DEF Effect, Become, Call
  <2>2. /\ phases[c] \in {"running", "error"} /\ counts[c] = 0
        /\ phases' = phases /\ counts' = [counts EXCEPT ![c] = 1]
    <3>. HIDE DEF N
    <3>1. Phase(N) = Phase(C) /\ Phase(C) \in {"running", "error"}
      BY <1>3, <2>1 DEF Phase, Open
    <3>2. /\ phases[c] = Phase(C) /\ (Phase(N) = phases[c] => phases' = phases)
          /\ counts[c] = C.applied /\ counts' = [counts EXCEPT ![c] = N.applied]
      BY <1>0, <2>1, Mapped
    <3>. QED  BY <1>3, <2>1, <3>1, <3>2
  <2>3. Promise!Apply(c)
    BY <1>3, <2>2 DEF Effect, Promise!Apply, phases, counts
  <2>. QED  BY <2>3 DEF Promise!Next
<1>4. CASE Start(c)
  <2>. DEFINE D == [C EXCEPT !.since = epoch[Key[c]]]
              N == Attempt(c, D, cache)
  <2>1. C.at = "idle" /\ C.applied = 0 /\ call' = [call EXCEPT ![c] = N] /\ account' = account
    BY <1>0, <1>4 DEF Start, Become, CallIs
  <2>2. N.at \in {"sent", "login"} /\ N.applied = 0
    BY <1>0, <2>1 DEF Attempt, Call
  <2>. HIDE DEF N
  <2>3. /\ phases[c] = "idle" /\ phases' = [phases EXCEPT ![c] = "running"] /\ counts' = counts
    BY <1>0, <2>1, <2>2, Mapped DEF Phase, Open
  <2>4. Promise!Begin(c)
    BY <2>1, <2>3 DEF Promise!Begin, phases, counts
  <2>. QED  BY <2>4 DEF Promise!Next
<1>5. CASE Store(c) \/ Reject(c) \/ Refuse(c)
  <2>1. PICK at \in {"sent", "unauthorized", "refused"} :
          call' = [call EXCEPT ![c] = [C EXCEPT !.at = at]]
    BY <1>5 DEF Store, Reject, Refuse, To, Become
  <2>. DEFINE N == [C EXCEPT !.at = at]
  <2>2. N.at = at /\ N.applied = C.applied /\ account' = account /\ C.at \in Open
    BY <1>0, <1>5 DEF Call, Store, Reject, Refuse, Open
  <2>. HIDE DEF N
  <2>3. call' = [call EXCEPT ![c] = N] /\ N.at \in Open
    BY <2>1, <2>2 DEF N, Open
  <2>. QED  BY <1>1, <2>2, <2>3
<1>6. CASE Issue(c)
  <2>. DEFINE N == [C EXCEPT !.at = "issued",
                      !.token = [key |-> Key[c], epoch |-> epoch[Key[c]]]]
  <2>1. /\ call' = [call EXCEPT ![c] = N] /\ account' = account
        /\ C.at \in Open /\ N.at \in Open /\ N.applied = C.applied
    BY <1>0, <1>6 DEF Issue, Become, Call, Open
  <2>. QED  BY <1>1, <2>1
<1>7. CASE Retry(c)
  <2>. DEFINE D == Marked(C)
              N == Attempt(c, D, Dropped(c))
  <2>1. C.at = "unauthorized" /\ call' = [call EXCEPT ![c] = N] /\ account' = account
    BY <1>7 DEF Retry, Become
  <2>2. D \in Call /\ D.applied = C.applied
    BY <1>0 DEF Marked, Call
  <2>. HIDE DEF D
  <2>3. N.at \in Open /\ N.applied = C.applied /\ C.at \in Open
    BY <2>1, <2>2 DEF Attempt, Call, Open
  <2>. HIDE DEF N
  <2>. QED  BY <1>1, <2>1, <2>3
<1>8. CASE Denied(c)
  <2>. DEFINE N == [C EXCEPT !.at = "error", !.token = NoToken, !.denied = TRUE]
  <2>1. /\ call' = [call EXCEPT ![c] = N] /\ account' = account
        /\ C.at \in Open /\ N.at = "error" /\ N.applied = C.applied
    BY <1>0, <1>8 DEF Denied, Become, Call, Open
  <2>. HIDE DEF N
  <2>. QED  BY <1>2, <2>1
<1>9. CASE Answered(c) \/ Fault(c)
  <2>1. PICK at \in {"ok", "error"} : End(c, at) /\ (at = "ok" => C.at = "served")
    BY <1>9 DEF Answered, Fault, GiveUp
  <2>. DEFINE N == [C EXCEPT !.at = at, !.token = NoToken, !.retry = FALSE]
  <2>2. call' = [call EXCEPT ![c] = N] /\ N.at = at /\ N.applied = C.applied
    BY <1>0, <2>1 DEF End, Become, Call
  <2>3. C.at \in Open /\ account' = account /\ (at = "ok" => C.applied = 1)
    BY <1>0, <1>9, <2>1 DEF Answered, Fault, Open, CallIs
  <2>. HIDE DEF N
  <2>. QED  BY <1>2, <2>2, <2>3
<1>10. CASE Serve(c)
  <2>1. C.at = "sent" /\ Effect(c, "served") /\ C.applied = 0
    BY <1>0, <1>10 DEF Serve, CallIs
  <2>2. <<C.at, "served">> \in {<<"sent", "served">>, <<"error", "error">>}
    BY <2>1
  <2>. QED  BY <1>3, <2>1, <2>2
<1>11. CASE ServeLate(c)
  <2>1. C.at = "error" /\ C.applied = 0
    BY <1>0, <1>11 DEF ServeLate, LateIs
  <2>2. Effect(c, "error")
    BY <1>11, <2>1 DEF ServeLate
  <2>3. <<C.at, "error">> \in {<<"sent", "served">>, <<"error", "error">>}
    BY <2>1
  <2>. QED  BY <1>3, <2>1, <2>2, <2>3
<1>. QED
  BY <1>4, <1>5, <1>6, <1>7, <1>8, <1>9, <1>10, <1>11 DEF Client, Panel

(* PasarGuardClient implements PanelCall: an operation takes effect at     *)
(* most once, has if the call returned, and may have, or may still, if it  *)
(* raised.                                                                 *)
THEOREM ClientKeepsPromise == Spec => Implements
<1>1. Init => Promise!Init
  <2>. SUFFICES ASSUME Init PROVE Promise!Init
    OBVIOUS
  <2>1. \A c \in Calls : call[c].at = "idle" /\ call[c].applied = 0
    BY DEF Init, Idle
  <2>. QED  BY <2>1, ClientAssumption DEF Init, Promise!Init, Open
<1>2. Inductive /\ [Next]_vars => [Promise!Next]_(Promise!vars)
  <2>. SUFFICES ASSUME Inductive, [Next]_vars PROVE [Promise!Next]_(Promise!vars)
    OBVIOUS
  <2>1. CASE \E c \in Calls : Start(c) \/ Client(c) \/ Panel(c)
    BY <2>1, StepPromise
  <2>2. CASE UNCHANGED <<account, call>>
    BY <2>2 DEF Promise!vars
  <2>. QED  BY <2>1, <2>2 DEF Next, Expire, Revoke, vars
<1>. QED  BY <1>1, <1>2, AlwaysInductive, PTL DEF Spec, Implements, Promise!Spec

=============================================================================
