----------------------------- MODULE TokenClient -----------------------------
(***************************************************************************)
(* Authentication of the Bluelink client (internal/bluelink/client.go and  *)
(* auth.go): Connect, ensureTokenLocked, fullLoginLocked and doAuthedGet,  *)
(* with concurrent callers, failing calls, token rotation, crashes and     *)
(* restarts over a token store.                                            *)
(*                                                                         *)
(* The identity provider and the API are external: they issue numbered     *)
(* tokens (the n-th issue makes access token n and, if the answer carries  *)
(* one, refresh token n), accept some access tokens and honour some        *)
(* refresh tokens.                                                         *)
(***************************************************************************)
EXTENDS Naturals

CONSTANTS
  Requesters,   \* goroutines that may call doAuthedGet
  MaxIssues,    \* bound on how many tokens the provider issues
  Persistent,   \* TRUE: the Kubernetes Secret store, FALSE: the memory store
  IssueRevokes  \* the provider drops the old access token when it issues one

ASSUME TokenClientAssumption ==
  /\ {"connect", "nobody"} \intersect Requesters = {}
  /\ MaxIssues \in Nat
  /\ Persistent \in BOOLEAN
  /\ IssueRevokes \in BOOLEAN
  \* Requests of the daemon are serialised by the scheduler's apiMu; only a
  \* provider that keeps older access tokens lets several callers share a client.
  /\ IssueRevokes => \A p, q \in Requesters : p = q

Callers == Requesters \union {"connect"}
Nobody == "nobody"
Ids == 1 .. MaxIssues

\* Tokens: 0 and FALSE are the empty strings; zeroed is ValidUntil = time.Time{}.
Tokens == [access : 0 .. MaxIssues, refresh : 0 .. MaxIssues,
           device : BOOLEAN, zeroed : BOOLEAN]
NoTokens == [access |-> 0, refresh |-> 0, device |-> FALSE, zeroed |-> TRUE]

VARIABLES
  life,     \* the process: "down", "booting" (in Connect) or "up"
  mu,       \* holder of Client.mu across calls, or Nobody
  tokens,   \* Client.tokens
  pc,       \* where each caller is
  retried,  \* this caller has invalidated the token after a 401
  tok,      \* each caller's copy of the tokens
  store,    \* the token store, NoTokens when nothing is stored
  expired,  \* access tokens whose ValidUntil (less the margin) has passed
  issued,   \* provider: number of issues
  accepted, \* API: access tokens it accepts
  honoured, \* provider: refresh tokens it accepts
  fault,    \* history: something outside the client went wrong for this request
  unsaved   \* history: the latest issue has not reached the store

providerVars == <<issued, accepted, honoured>>
callVars == <<pc, retried, tok>>
vars == <<life, mu, tokens, callVars, store, expired, providerVars, fault, unsaved>>

Init ==
  /\ life = "down"
  /\ mu = Nobody
  /\ tokens = NoTokens
  /\ pc = [p \in Callers |-> "idle"]
  /\ retried = [p \in Callers |-> FALSE]
  /\ tok = [p \in Callers |-> NoTokens]
  /\ store = NoTokens
  /\ expired = {} /\ accepted = {} /\ honoured = {}
  /\ issued = 0
  /\ fault = [p \in Callers |-> FALSE]
  /\ unsaved = FALSE

\* Program points; at the Locked ones mu is held across a call.
Locked == {"refresh", "register", "login", "save"}
Labels == {"idle", "ensure", "get1", "get2", "failed"} \union Locked

Goto(p, label) == pc' = [pc EXCEPT ![p] = label]
Faulted(p) == fault' = [fault EXCEPT ![p] = TRUE]

-----------------------------------------------------------------------------
(* The provider, time and the process.                                     *)

\* Tokens.Valid turns false with time.
Expire(n) ==
  /\ n \in 1 .. issued
  /\ n \notin expired
  /\ expired' = expired \union {n}
  /\ UNCHANGED <<life, mu, tokens, callVars, store, providerVars, fault, unsaved>>

\* The API stops accepting an access token, whatever ValidUntil says.  If it is
\* the one a request retries with, that request has met one failure too many.
Revoke(n) ==
  /\ n \in accepted
  /\ accepted' = accepted \ {n}
  /\ fault' = [p \in Callers |->
                 \/ fault[p]
                 \/ retried[p] /\ (n = tok[p].access \/ (n = tokens.access /\ ~tokens.zeroed))]
  /\ UNCHANGED <<life, mu, tokens, callVars, store, expired, issued, honoured, unsaved>>

\* What Load returns: the stored tokens, or, from an empty Secret, the zero Tokens.
Load == store

\* Connect: store.Load succeeds; nothing stored leaves the client's tokens empty.
\* (A failing Load ends the process where it began.)
Connect ==
  /\ life = "down"
  /\ life' = "booting"
  /\ tokens' = Load
  /\ Goto("connect", "ensure")
  /\ fault' = [fault EXCEPT !["connect"] = FALSE]
  /\ UNCHANGED <<mu, retried, tok, store, expired, providerVars, unsaved>>

\* The process ends; a memory store ends with it.
Die ==
  /\ life' = "down"
  /\ mu' = Nobody
  /\ tokens' = NoTokens
  /\ pc' = [p \in Callers |-> "idle"]
  /\ retried' = [p \in Callers |-> FALSE]
  /\ tok' = [p \in Callers |-> NoTokens]

StoreAfterDeath == IF Persistent THEN store ELSE NoTokens

Crash ==
  /\ life # "down"
  /\ Die
  /\ store' = StoreAfterDeath
  /\ UNCHANGED <<expired, providerVars, fault, unsaved>>

\* Graceful shutdown: requests have ended; nothing is written to the store.
Exit ==
  /\ life = "up"
  /\ \A p \in Callers : pc[p] = "idle"
  /\ Die
  /\ store' = StoreAfterDeath
  /\ UNCHANGED <<expired, providerVars, fault, unsaved>>

-----------------------------------------------------------------------------
(* ensureTokenLocked.                                                      *)

Usable(t) == t.access # 0 /\ ~t.zeroed /\ t.access \notin expired /\ t.device

\* Mutant: Connect goes on to make a request.
EnsureDone_AlwaysGet(p, t) ==
  /\ mu' = Nobody
  /\ tok' = [tok EXCEPT ![p] = t]
  /\ Goto(p, IF retried[p] THEN "get2" ELSE "get1")
  /\ life' = "up"

\* A usable token: Connect returns, a request copies it and unlocks.
EnsureDone(p, t) ==
  /\ mu' = Nobody
  /\ IF p = "connect"
     THEN life' = "up" /\ Goto(p, "idle") /\ UNCHANGED tok
     ELSE /\ tok' = [tok EXCEPT ![p] = t]
          /\ Goto(p, IF retried[p] THEN "get2" ELSE "get1")
          /\ UNCHANGED life

\* The error ends the request, or the process when it is Connect's.
EnsureFails(p) ==
  IF p = "connect"
  THEN Die
  ELSE /\ mu' = Nobody
       /\ Goto(p, "failed")
       /\ UNCHANGED <<life, tokens, retried, tok>>

\* Mutant: mu is not taken.
Ensure_NoLock(p) ==
  LET t == [tokens EXCEPT !.zeroed = @ \/ retried[p]] IN
  /\ pc[p] = "ensure"
  /\ tokens' = t
  /\ \/ Usable(t) /\ EnsureDone(p, t)
     \/ /\ ~Usable(t)
        /\ mu' = p
        /\ Goto(p, IF t.refresh # 0 /\ t.device THEN "refresh" ELSE "register")
        /\ UNCHANGED <<life, tok>>
  /\ UNCHANGED <<retried, store, expired, providerVars, fault, unsaved>>

\* c.mu.Lock; after a 401 the token is invalidated first, whoever obtained it.
Ensure(p) ==
  LET t == [tokens EXCEPT !.zeroed = @ \/ retried[p]] IN
  /\ pc[p] = "ensure"
  /\ mu = Nobody
  /\ tokens' = t
  /\ \/ Usable(t) /\ EnsureDone(p, t)
     \/ /\ ~Usable(t)
        /\ mu' = p
        /\ Goto(p, IF t.refresh # 0 /\ t.device THEN "refresh" ELSE "register")
        /\ UNCHANGED <<life, tok>>
  /\ UNCHANGED <<retried, store, expired, providerVars, fault, unsaved>>

\* The provider issues the next tokens; a rotation kills the old refresh token.
Issue(rotates, old) ==
  /\ issued < MaxIssues
  /\ issued' = issued + 1
  /\ accepted' = (IF IssueRevokes THEN {} ELSE accepted) \union {issued'}
  /\ honoured' = IF rotates THEN (honoured \ {old}) \union {issued'} ELSE honoured
  /\ unsaved' = TRUE

\* Mutant: the rotated refresh token of the response is ignored.
RefreshOk_KeepOld(p) ==
  /\ pc[p] = "refresh"
  /\ tokens.refresh \in honoured
  /\ \E rotates \in BOOLEAN :
       /\ Issue(rotates, tokens.refresh)
       /\ tokens' = [tokens EXCEPT !.access = issued', !.zeroed = FALSE]
  /\ Goto(p, "save")
  /\ UNCHANGED <<life, mu, retried, tok, store, expired, fault>>

\* Mutant: the new tokens do not keep the device id.
RefreshOk_DropDevice(p) ==
  /\ pc[p] = "refresh"
  /\ tokens.refresh \in honoured
  /\ \E rotates \in BOOLEAN :
       /\ Issue(rotates, tokens.refresh)
       /\ tokens' = [access |-> issued', refresh |-> IF rotates THEN issued' ELSE tokens.refresh,
                     device |-> FALSE, zeroed |-> FALSE]
  /\ Goto(p, "save")
  /\ UNCHANGED <<life, mu, retried, tok, store, expired, fault>>

\* refreshTokens keeps the refresh token it sent when none comes back, and
\* ensureTokenLocked keeps the device id.
RefreshOk(p) ==
  /\ pc[p] = "refresh"
  /\ tokens.refresh \in honoured
  /\ \E rotates \in BOOLEAN :
       /\ Issue(rotates, tokens.refresh)
       /\ tokens' = [access |-> issued', refresh |-> IF rotates THEN issued' ELSE tokens.refresh,
                     device |-> tokens.device, zeroed |-> FALSE]
  /\ Goto(p, "save")
  /\ UNCHANGED <<life, mu, retried, tok, store, expired, fault>>

\* Mutant: a rejected refresh ends the request.
RefreshRejected_NoFallback(p) ==
  /\ pc[p] = "refresh"
  /\ tokens.refresh \notin honoured
  /\ EnsureFails(p)
  /\ UNCHANGED <<store, expired, providerVars, fault, unsaved>>

\* The provider does not know the refresh token: fall back to a full login.
RefreshRejected(p) ==
  /\ pc[p] = "refresh"
  /\ tokens.refresh \notin honoured
  /\ Goto(p, "register")
  /\ UNCHANGED <<life, mu, tokens, retried, tok, store, expired, providerVars, fault, unsaved>>

\* The refresh fails, or succeeds at the provider and the answer is lost.
RefreshFails(p) ==
  /\ pc[p] = "refresh"
  /\ Faulted(p)
  /\ Goto(p, "register")
  /\ \/ tokens.refresh \in honoured /\ (\E rotates \in BOOLEAN : Issue(rotates, tokens.refresh))
     \/ UNCHANGED <<providerVars, unsaved>>
  /\ UNCHANGED <<life, mu, tokens, retried, tok, store, expired>>

RegisterDevice(p) ==
  /\ pc[p] = "register"
  /\ Goto(p, "login")
  /\ UNCHANGED <<life, mu, tokens, retried, tok, store, expired, providerVars, fault, unsaved>>

\* postToken insists on an access token only: the answer may lack a refresh token,
\* and then the next ensureTokenLocked that needs one logs in again.
LoginWithPassword(p) ==
  /\ pc[p] = "login"
  /\ \E refreshable \in BOOLEAN :
       /\ Issue(refreshable, 0)
       /\ tokens' = [access |-> issued', refresh |-> IF refreshable THEN issued' ELSE 0,
                     device |-> TRUE, zeroed |-> FALSE]
  /\ Goto(p, "save")
  /\ UNCHANGED <<life, mu, retried, tok, store, expired, fault>>

\* registerDevice or loginWithPassword fails.
LoginFails(p) ==
  /\ pc[p] \in {"register", "login"}
  /\ Faulted(p)
  /\ EnsureFails(p)
  /\ store' = IF p = "connect" THEN StoreAfterDeath ELSE store
  /\ UNCHANGED <<expired, providerVars, unsaved>>

\* Mutant: the refreshed tokens are kept in memory only.
SaveOk_MemoryOnly(p) ==
  /\ pc[p] = "save"
  /\ unsaved' = FALSE
  /\ EnsureDone(p, tokens)
  /\ UNCHANGED <<tokens, retried, store, expired, providerVars, fault>>

SaveOk(p) ==
  /\ pc[p] = "save"
  /\ store' = tokens
  /\ unsaved' = FALSE
  /\ EnsureDone(p, tokens)
  /\ UNCHANGED <<tokens, retried, expired, providerVars, fault>>

\* Save returns an error, whether or not the Secret was updated.  The client
\* keeps the new tokens in memory.
SaveFails(p) ==
  /\ pc[p] = "save"
  /\ Persistent
  /\ Faulted(p)
  /\ store' \in {store, tokens}
  /\ unsaved' = (store' # tokens)
  /\ EnsureFails(p)
  /\ UNCHANGED <<expired, providerVars>>

-----------------------------------------------------------------------------
(* doAuthedGet.                                                            *)

BeginRequest(p) ==
  /\ life = "up"
  /\ pc[p] = "idle"
  /\ Goto(p, "ensure")
  /\ fault' = [fault EXCEPT ![p] = FALSE]
  /\ UNCHANGED <<life, mu, tokens, retried, tok, store, expired, providerVars, unsaved>>

Return(p) ==
  /\ Goto(p, "idle")
  /\ retried' = [retried EXCEPT ![p] = FALSE]
  /\ tok' = [tok EXCEPT ![p] = NoTokens]
  /\ UNCHANGED <<life, mu, tokens, store, expired, providerVars, unsaved>>

GetOk(p) ==
  /\ pc[p] \in {"get1", "get2"}
  /\ tok[p].access \in accepted
  /\ Return(p)
  /\ UNCHANGED fault

\* Mutant: a 401 is retried without invalidating the token and without limit.
GetUnauthorized_NoInvalidate(p) ==
  /\ pc[p] \in {"get1", "get2"}
  /\ tok[p].access \notin accepted
  /\ Goto(p, "ensure")
  /\ UNCHANGED <<life, mu, tokens, retried, tok, store, expired, providerVars, fault, unsaved>>

\* 401: invalidate, ensure and retry once.
GetUnauthorized(p) ==
  /\ pc[p] \in {"get1", "get2"}
  /\ tok[p].access \notin accepted
  /\ retried' = [retried EXCEPT ![p] = TRUE]
  /\ Goto(p, IF pc[p] = "get1" THEN "ensure" ELSE "failed")
  /\ UNCHANGED <<life, mu, tokens, tok, store, expired, providerVars, fault, unsaved>>

\* A transport error, another status, or an error envelope.
GetFails(p) ==
  /\ pc[p] \in {"get1", "get2"}
  /\ Faulted(p)
  /\ Goto(p, "failed")
  /\ UNCHANGED <<life, mu, tokens, retried, tok, store, expired, providerVars, unsaved>>

ReturnError(p) ==
  /\ pc[p] = "failed"
  /\ Return(p)
  /\ UNCHANGED fault

-----------------------------------------------------------------------------
Call(p) ==
  \/ Ensure(p) \/ RefreshOk(p) \/ RefreshRejected(p) \/ RefreshFails(p)
  \/ RegisterDevice(p) \/ LoginWithPassword(p) \/ LoginFails(p)
  \/ SaveOk(p) \/ SaveFails(p)
  \/ GetOk(p) \/ GetUnauthorized(p) \/ GetFails(p) \/ ReturnError(p)

Next ==
  \/ Connect \/ Crash \/ Exit
  \/ \E n \in Ids : Expire(n) \/ Revoke(n)
  \/ \E p \in Requesters : BeginRequest(p)
  \/ \E p \in Callers : Call(p)

Spec == Init /\ [][Next]_vars

\* HTTP calls and store operations return; sync.Mutex does not starve a waiter.
Fairness == \A p \in Callers : WF_vars(Call(p)) /\ SF_vars(Ensure(p))

FairSpec == Spec /\ Fairness

-----------------------------------------------------------------------------
(* Properties.                                                             *)

\* Every variable stays in its type.
TypeOK ==
  /\ life \in {"down", "booting", "up"}
  /\ mu \in Callers \union {Nobody}
  /\ tokens \in Tokens /\ store \in Tokens
  /\ pc \in [Callers -> Labels]
  /\ pc["connect"] \in {"idle", "ensure"} \union Locked
  /\ retried \in [Callers -> BOOLEAN]
  /\ tok \in [Callers -> Tokens]
  /\ issued \in 0 .. MaxIssues
  /\ expired \subseteq Ids /\ accepted \subseteq Ids /\ honoured \subseteq Ids
  /\ fault \in [Callers -> BOOLEAN]
  /\ unsaved \in BOOLEAN

\* Client.mu: at most one caller at a time refreshes, logs in or saves, so no two
\* of them spend the same refresh token or save in the wrong order.
AuthSerialised == \A p, q \in Callers : pc[p] \in Locked /\ pc[q] \in Locked => p = q

\* Refresh fallback and the retry on 401: a request fails only if something
\* outside the client went wrong while it ran.  Expired, revoked, rotated or lost
\* tokens, however they came about, never fail a request by themselves.
NoSpuriousFailure == \A p \in Requesters : pc[p] = "failed" => fault[p]

\* Save after every issue, under mu: between calls the store holds the client's
\* tokens unless a Save failed.
StoreFollowsMemory ==
  life = "up" /\ mu = Nobody /\ ~unsaved =>
    /\ store.access = tokens.access
    /\ store.refresh = tokens.refresh
    /\ store.device = tokens.device

\* What the store is for: unless the latest issue was lost before it could be
\* saved, the stored refresh token is still good, so a restart needs no login.
StoredRefreshUsable ==
  store.refresh # 0 /\ ~unsaved => store.refresh \in honoured /\ store.device

\* A GET always carries an access token and the device it was issued with, also
\* while another caller is replacing the client's tokens.
RequestsAuthenticated ==
  \A p \in Requesters : pc[p] \in {"get1", "get2"} => tok[p].access # 0 /\ tok[p].device

\* A request ends, however many callers share the client, unless the process dies.
RequestEnds == \A p \in Requesters : pc[p] = "ensure" ~> pc[p] = "idle"

\* The shutdown sequence's "persist the latest tokens if dirty".
PersistedAtExit == [][Exit /\ Persistent => store.refresh = tokens.refresh]_vars
=============================================================================
