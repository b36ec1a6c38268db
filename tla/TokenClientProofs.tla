-------------------------- MODULE TokenClientProofs --------------------------
(***************************************************************************)
(* Proofs about TokenClient, for any number of callers and of issued       *)
(* tokens, both kinds of store, and both kinds of provider.                *)
(*                                                                         *)
(* The argument: mu makes the holder the only one between an issue and its *)
(* Save (LockHeld), so what is about to be saved is what the provider      *)
(* issued last (SaveReady), and what a retrying request is about to use is *)
(* a token that only an outside event can have invalidated (Retrying).     *)
(***************************************************************************)
EXTENDS TokenClient, TLAPS

\* mu is held exactly at the program points between two calls of
\* ensureTokenLocked.
LockHeld == \A p \in Callers : pc[p] \in Locked <=> mu = p

\* Connect runs alone and first; a dead process has no state.
LifeCycle ==
  /\ life = "down" => tokens = NoTokens /\ \A p \in Callers : pc[p] = "idle"
  /\ pc["connect"] # "idle" <=> life = "booting"
  /\ life = "booting" => \A p \in Requesters : pc[p] = "idle"
  /\ \A p \in Callers : pc[p] \in {"idle", "get1"} => ~retried[p]
  /\ ~retried["connect"]

\* Tokens about to be saved have an access token and a device id, and their refresh
\* token, if any, is known to the provider; a refresh is only tried with a device id.
SaveReady ==
  \A p \in Callers :
    /\ pc[p] = "save" => /\ tokens.access # 0 /\ tokens.device /\ ~tokens.zeroed
                         /\ tokens.refresh # 0 => tokens.refresh \in honoured
    /\ pc[p] = "refresh" => tokens.device

\* The store is behind the client only while an issue is unsaved.
StoreMatches ==
  life # "down" /\ ~unsaved =>
    /\ store.access = tokens.access
    /\ store.refresh = tokens.refresh
    /\ store.device = tokens.device

\* The token a request retries with is accepted unless it was revoked since.
Retrying ==
  \A p \in Callers :
    /\ pc[p] = "get2" => retried[p]
    /\ pc[p] = "get2" /\ ~fault[p] => tok[p].access \in accepted
    /\ pc[p] = "save" /\ retried[p] /\ ~fault[p] => tokens.access \in accepted

IInv ==
  /\ TypeOK
  /\ LockHeld
  /\ LifeCycle
  /\ SaveReady
  /\ StoreMatches
  /\ Retrying
  /\ NoSpuriousFailure
  /\ StoredRefreshUsable
  /\ RequestsAuthenticated

\* The initial state satisfies the inductive invariant.
LEMMA InitIInv == Init => IInv
<1> SUFFICES ASSUME Init PROVE IInv
  OBVIOUS
<1> USE TokenClientAssumption DEF Init, Callers, Nobody, Labels, Locked, NoTokens
<1>1. TypeOK
  <2>1. NoTokens \in Tokens
    BY DEF Tokens
  <2>2. tokens \in Tokens /\ store \in Tokens /\ tok \in [Callers -> Tokens]
    BY <2>1
  <2>3. life \in {"down", "booting", "up"} /\ mu \in Callers \union {Nobody}
    OBVIOUS
  <2>4. pc \in [Callers -> Labels] /\ pc["connect"] \in {"idle", "ensure"} \union Locked
    OBVIOUS
  <2>5. retried \in [Callers -> BOOLEAN] /\ fault \in [Callers -> BOOLEAN] /\ unsaved \in BOOLEAN
    OBVIOUS
  <2>6. issued \in 0 .. MaxIssues
    OBVIOUS
  <2>7. expired \subseteq Ids /\ accepted \subseteq Ids /\ honoured \subseteq Ids
    OBVIOUS
  <2> QED
    BY <2>2, <2>3, <2>4, <2>5, <2>6, <2>7 DEF TypeOK
<1>2. LockHeld /\ LifeCycle /\ SaveReady /\ StoreMatches /\ Retrying
  BY DEF LockHeld, LifeCycle, SaveReady, StoreMatches, Retrying
<1>3. NoSpuriousFailure /\ StoredRefreshUsable /\ RequestsAuthenticated
  BY DEF NoSpuriousFailure, StoredRefreshUsable, RequestsAuthenticated
<1> QED
  BY <1>1, <1>2, <1>3 DEF IInv

\* What an issue gives: a fresh, accepted token number, and a refresh token that
\* the provider honours, whether it rotated or not.
LEMMA IssueFacts ==
  ASSUME TypeOK, NEW rotates \in BOOLEAN, NEW old \in 0 .. MaxIssues, Issue(rotates, old)
  PROVE  /\ issued' \in Ids
         /\ issued' \in accepted' /\ accepted' \subseteq Ids
         /\ honoured' \subseteq Ids
         /\ rotates => issued' \in honoured'
         /\ ~rotates => honoured' = honoured
         /\ ~IssueRevokes => accepted \subseteq accepted'
         /\ unsaved'
<1>1. issued' \in Ids
  BY TokenClientAssumption DEF TypeOK, Issue, Ids
<1> QED
  BY <1>1 DEF TypeOK, Issue

\* A successful refresh preserves the inductive invariant.
LEMMA RefreshOkIInv == ASSUME IInv, NEW p \in Callers, RefreshOk(p) PROVE IInv'
<1>1. TypeOK /\ pc[p] = "refresh" /\ tokens.refresh \in honoured
  BY DEF RefreshOk, IInv
<1>2. PICK rotates \in BOOLEAN :
        /\ Issue(rotates, tokens.refresh)
        /\ tokens' = [access |-> issued',
                      refresh |-> IF rotates THEN issued' ELSE tokens.refresh,
                      device |-> tokens.device, zeroed |-> FALSE]
  BY DEF RefreshOk
<1>3. tokens.refresh \in 0 .. MaxIssues /\ tokens.device \in BOOLEAN
  BY <1>1 DEF TypeOK, Tokens
<1>4. /\ issued' \in Ids /\ issued' \in accepted' /\ accepted' \subseteq Ids
      /\ honoured' \subseteq Ids
      /\ rotates => issued' \in honoured'
      /\ ~rotates => honoured' = honoured
      /\ ~IssueRevokes => accepted \subseteq accepted'
      /\ unsaved'
  BY <1>1, <1>2, <1>3, IssueFacts
<1>5. /\ tokens' \in Tokens
      /\ tokens'.access = issued' /\ tokens'.refresh \in honoured'
      /\ tokens'.device = tokens.device /\ ~tokens'.zeroed
  BY <1>1, <1>2, <1>3, <1>4 DEF Tokens, Ids
<1>6. /\ pc' = [pc EXCEPT ![p] = "save"]
      /\ UNCHANGED <<life, mu, retried, tok, store, expired, fault>>
  BY DEF RefreshOk, Goto
<1>7. issued' # 0 /\ issued' \in 0 .. MaxIssues
  BY <1>4, TokenClientAssumption DEF Ids
<1>8. TypeOK'
  BY <1>1, <1>4, <1>5, <1>6, <1>7 DEF TypeOK, Labels, Locked
<1>9. LockHeld' /\ LifeCycle'
  BY <1>1, <1>6 DEF IInv, LockHeld, LifeCycle, TypeOK, Locked
<1>10. SaveReady' /\ StoreMatches' /\ StoredRefreshUsable'
  <2>1. tokens.device
    BY <1>1 DEF IInv, SaveReady
  <2> QED
    BY <1>1, <1>4, <1>5, <1>6, <1>7, <1>9, <2>1
       DEF IInv, TypeOK, LockHeld, SaveReady, StoreMatches, StoredRefreshUsable, Locked
<1>11. Retrying'
  <2>1. ASSUME NEW q \in Callers, pc[q] = "get2", IssueRevokes PROVE q = p
    BY <1>1, <2>1, TokenClientAssumption DEF IInv, LifeCycle, TypeOK, Callers, Locked
  <2> QED
    BY <1>1, <1>4, <1>5, <1>6, <1>9, <2>1 DEF IInv, TypeOK, LockHeld, Retrying, Locked
<1>12. NoSpuriousFailure' /\ RequestsAuthenticated'
  BY <1>1, <1>6 DEF IInv, TypeOK, NoSpuriousFailure, RequestsAuthenticated, Callers
<1> QED
  BY <1>8, <1>9, <1>10, <1>11, <1>12 DEF IInv

\* A full login preserves the inductive invariant.
LEMMA LoginIInv == ASSUME IInv, NEW p \in Callers, LoginWithPassword(p) PROVE IInv'
<1>1. TypeOK /\ pc[p] = "login"
  BY DEF LoginWithPassword, IInv
<1>2. PICK refreshable \in BOOLEAN :
        /\ Issue(refreshable, 0)
        /\ tokens' = [access |-> issued', refresh |-> IF refreshable THEN issued' ELSE 0,
                      device |-> TRUE, zeroed |-> FALSE]
  BY DEF LoginWithPassword
<1>4. /\ issued' \in Ids /\ issued' \in accepted' /\ accepted' \subseteq Ids
      /\ honoured' \subseteq Ids
      /\ refreshable => issued' \in honoured'
      /\ ~IssueRevokes => accepted \subseteq accepted'
      /\ unsaved'
  <2>1. 0 \in 0 .. MaxIssues
    BY TokenClientAssumption
  <2> QED
    BY <1>1, <1>2, <2>1, IssueFacts
<1>5. /\ tokens' \in Tokens
      /\ tokens'.access = issued' /\ (tokens'.refresh # 0 => tokens'.refresh \in honoured')
      /\ tokens'.device /\ ~tokens'.zeroed
  BY <1>2, <1>4, TokenClientAssumption DEF Tokens, Ids
<1>6. /\ pc' = [pc EXCEPT ![p] = "save"]
      /\ UNCHANGED <<life, mu, retried, tok, store, expired, fault>>
  BY DEF LoginWithPassword, Goto
<1>7. issued' # 0 /\ issued' \in 0 .. MaxIssues
  BY <1>4, TokenClientAssumption DEF Ids
<1>8. TypeOK'
  BY <1>1, <1>4, <1>5, <1>6, <1>7 DEF TypeOK, Labels, Locked
<1>9. LockHeld' /\ LifeCycle'
  BY <1>1, <1>6 DEF IInv, LockHeld, LifeCycle, TypeOK, Locked
<1>10. SaveReady' /\ StoreMatches' /\ StoredRefreshUsable'
  BY <1>1, <1>4, <1>5, <1>6, <1>7, <1>9
     DEF IInv, TypeOK, LockHeld, SaveReady, StoreMatches, StoredRefreshUsable, Locked
<1>11. Retrying'
  <2>1. ASSUME NEW q \in Callers, pc[q] = "get2", IssueRevokes PROVE q = p
    BY <1>1, <2>1, TokenClientAssumption DEF IInv, LifeCycle, TypeOK, Callers, Locked
  <2> QED
    BY <1>1, <1>4, <1>5, <1>6, <1>9, <2>1 DEF IInv, TypeOK, LockHeld, Retrying, Locked
<1>12. NoSpuriousFailure' /\ RequestsAuthenticated'
  BY <1>1, <1>6 DEF IInv, TypeOK, NoSpuriousFailure, RequestsAuthenticated, Callers
<1> QED
  BY <1>8, <1>9, <1>10, <1>11, <1>12 DEF IInv

\* A refresh that fails, its answer lost or not, preserves the inductive invariant.
LEMMA RefreshFailsIInv == ASSUME IInv, NEW p \in Callers, RefreshFails(p) PROVE IInv'
<1>1. TypeOK /\ pc[p] = "refresh"
  BY DEF RefreshFails, IInv
<1>2. /\ pc' = [pc EXCEPT ![p] = "register"]
      /\ fault' = [fault EXCEPT ![p] = TRUE]
      /\ UNCHANGED <<life, mu, tokens, retried, tok, store, expired>>
  BY DEF RefreshFails, Goto, Faulted
<1>3. /\ issued' \in 0 .. MaxIssues /\ accepted' \subseteq Ids /\ honoured' \subseteq Ids
      /\ unsaved' \in BOOLEAN
      /\ unsaved' \/ UNCHANGED <<accepted, honoured, unsaved>>
      /\ IssueRevokes \/ accepted \subseteq accepted'
  <2>1. CASE UNCHANGED <<providerVars, unsaved>>
    BY <1>1, <2>1 DEF TypeOK, providerVars
  <2>2. CASE \E rotates \in BOOLEAN : Issue(rotates, tokens.refresh)
    <3>1. tokens.refresh \in 0 .. MaxIssues
      BY <1>1 DEF TypeOK, Tokens
    <3>2. PICK rotates \in BOOLEAN : Issue(rotates, tokens.refresh)
      BY <2>2
    <3>3. /\ issued' \in Ids /\ accepted' \subseteq Ids /\ honoured' \subseteq Ids /\ unsaved'
          /\ ~IssueRevokes => accepted \subseteq accepted'
      BY <1>1, <3>1, <3>2, IssueFacts
    <3>4. issued' \in 0 .. MaxIssues
      BY <3>3, TokenClientAssumption DEF Ids
    <3>5. unsaved' \in BOOLEAN
      BY <3>2 DEF Issue
    <3> QED
      BY <3>3, <3>4, <3>5
  <2> QED
    BY <2>1, <2>2 DEF RefreshFails
<1>4. TypeOK'
  BY <1>1, <1>2, <1>3 DEF TypeOK, Labels, Locked
<1>5. LockHeld' /\ LifeCycle'
  BY <1>1, <1>2 DEF IInv, LockHeld, LifeCycle, TypeOK, Locked
<1>6. SaveReady' /\ StoreMatches' /\ StoredRefreshUsable'
  BY <1>1, <1>2, <1>3, <1>5
     DEF IInv, TypeOK, LockHeld, SaveReady, StoreMatches, StoredRefreshUsable, Locked
<1>7. Retrying'
  <2>1. ASSUME NEW q \in Callers, pc[q] = "get2", IssueRevokes PROVE q = p
    BY <1>1, <2>1, TokenClientAssumption DEF IInv, LifeCycle, TypeOK, Callers, Locked
  <2> QED
    BY <1>1, <1>2, <1>3, <1>5, <2>1 DEF IInv, TypeOK, LockHeld, Retrying, Locked
<1>8. NoSpuriousFailure' /\ RequestsAuthenticated'
  BY <1>1, <1>2 DEF IInv, TypeOK, NoSpuriousFailure, RequestsAuthenticated, Callers
<1> QED
  BY <1>4, <1>5, <1>6, <1>7, <1>8 DEF IInv

\* A process that ends, leaving the store or its empty replacement, satisfies the
\* inductive invariant.
LEMMA DeathIInv ==
  ASSUME IInv, Die, store' = StoreAfterDeath, fault' \in [Callers -> BOOLEAN],
         UNCHANGED <<expired, providerVars, unsaved>>
  PROVE  IInv'
<1>1. NoTokens \in Tokens
  BY TokenClientAssumption DEF NoTokens, Tokens
<1>2. TypeOK'
  BY <1>1, TokenClientAssumption
     DEF IInv, TypeOK, Die, StoreAfterDeath, providerVars, Callers, Nobody, Labels, Locked
<1>3. LockHeld' /\ LifeCycle' /\ SaveReady' /\ StoreMatches' /\ Retrying'
  BY TokenClientAssumption
     DEF LockHeld, LifeCycle, SaveReady, StoreMatches, Retrying, Die, Callers, Nobody, Locked
<1>4. NoSpuriousFailure' /\ RequestsAuthenticated'
  BY DEF NoSpuriousFailure, RequestsAuthenticated, Die, Callers
<1>5. StoredRefreshUsable'
  BY DEF IInv, StoredRefreshUsable, Die, StoreAfterDeath, NoTokens, providerVars
<1> QED
  BY <1>2, <1>3, <1>4, <1>5 DEF IInv

\* A login that fails preserves the inductive invariant.
LEMMA LoginFailsIInv == ASSUME IInv, NEW p \in Callers, LoginFails(p) PROVE IInv'
<1>1. CASE p = "connect"
  <2>1. fault' \in [Callers -> BOOLEAN]
    BY DEF LoginFails, Faulted, IInv, TypeOK
  <2> QED
    BY <1>1, <2>1, DeathIInv DEF LoginFails, EnsureFails
<1>2. CASE p # "connect"
  <2>1. /\ TypeOK /\ pc[p] \in Locked /\ p \in Requesters
        /\ mu' = Nobody /\ pc' = [pc EXCEPT ![p] = "failed"]
        /\ fault' = [fault EXCEPT ![p] = TRUE]
        /\ UNCHANGED <<life, tokens, retried, tok, store, expired, providerVars, unsaved>>
    BY <1>2 DEF LoginFails, EnsureFails, Goto, Faulted, IInv, Locked, Callers
  <2>2. TypeOK'
    BY <1>2, <2>1 DEF TypeOK, Labels, Locked, providerVars
  <2>3. LockHeld'
    BY <2>1, TokenClientAssumption DEF IInv, LockHeld, TypeOK, Locked, Callers, Nobody
  <2>4. LifeCycle' /\ SaveReady' /\ StoreMatches'
    BY <1>2, <2>1 DEF IInv, LifeCycle, SaveReady, StoreMatches, TypeOK, Locked, providerVars
  <2>5. Retrying' /\ NoSpuriousFailure' /\ RequestsAuthenticated' /\ StoredRefreshUsable'
    BY <2>1 DEF IInv, Retrying, NoSpuriousFailure, RequestsAuthenticated, StoredRefreshUsable,
                TypeOK, providerVars, Callers
  <2> QED
    BY <2>2, <2>3, <2>4, <2>5 DEF IInv
<1> QED
  BY <1>1, <1>2

\* A successful Save, and the return of the lock with it, preserves the inductive
\* invariant.
LEMMA SaveOkIInv == ASSUME IInv, NEW p \in Callers, SaveOk(p) PROVE IInv'
<1>1. /\ TypeOK /\ pc[p] = "save" /\ mu = p /\ mu' = Nobody
      /\ store' = tokens /\ unsaved' = FALSE
      /\ UNCHANGED <<tokens, retried, expired, providerVars, fault>>
  BY DEF SaveOk, EnsureDone, IInv, LockHeld, Locked
<1>2. /\ tokens.access # 0 /\ tokens.device /\ ~tokens.zeroed
      /\ tokens.refresh # 0 => tokens.refresh \in honoured
      /\ retried[p] /\ ~fault[p] => tokens.access \in accepted
  BY <1>1 DEF IInv, SaveReady, Retrying
<1>3. StoreMatches' /\ StoredRefreshUsable'
  BY <1>1, <1>2 DEF StoreMatches, StoredRefreshUsable, providerVars
<1>4. CASE p = "connect"
  <2>1. life' = "up" /\ pc' = [pc EXCEPT ![p] = "idle"] /\ UNCHANGED tok
    BY <1>4 DEF SaveOk, EnsureDone, Goto
  <2>2. TypeOK'
    BY <1>1, <1>4, <2>1 DEF TypeOK, Labels, Locked, providerVars
  <2>3. LockHeld'
    BY <1>1, <2>1, TokenClientAssumption DEF IInv, LockHeld, TypeOK, Locked, Callers, Nobody
  <2>4. LifeCycle' /\ SaveReady'
    BY <1>1, <1>4, <2>1, <2>3 DEF IInv, LifeCycle, SaveReady, TypeOK, Callers, Locked, providerVars
  <2>5. Retrying' /\ NoSpuriousFailure' /\ RequestsAuthenticated'
    BY <1>1, <1>4, <2>1 DEF IInv, Retrying, NoSpuriousFailure, RequestsAuthenticated, TypeOK,
                            providerVars, Callers
  <2> QED
    BY <1>3, <2>2, <2>3, <2>4, <2>5 DEF IInv
<1>5. CASE p # "connect"
  <2>1. /\ p \in Requesters /\ UNCHANGED life
        /\ tok' = [tok EXCEPT ![p] = tokens]
        /\ pc' = [pc EXCEPT ![p] = IF retried[p] THEN "get2" ELSE "get1"]
    BY <1>5 DEF SaveOk, EnsureDone, Goto, Callers
  <2>2. TypeOK'
    <3>1. pc' \in [Callers -> Labels]
      BY <1>1, <2>1 DEF TypeOK, Labels
    <3>2. tok' \in [Callers -> Tokens]
      BY <1>1, <2>1 DEF TypeOK
    <3>3. pc'["connect"] = pc["connect"]
      BY <1>1, <1>5, <2>1 DEF TypeOK, Callers
    <3> QED
      BY <1>1, <2>1, <3>1, <3>2, <3>3 DEF TypeOK, providerVars
  <2>3. LockHeld'
    BY <1>1, <2>1, TokenClientAssumption DEF IInv, LockHeld, TypeOK, Locked, Callers, Nobody
  <2>4. LifeCycle' /\ SaveReady'
    BY <1>1, <1>5, <2>1, <2>3 DEF IInv, LifeCycle, SaveReady, TypeOK, Callers, Locked, providerVars
  <2>5. Retrying'
    BY <1>1, <1>2, <2>1 DEF IInv, Retrying, TypeOK, providerVars, Callers
  <2>6. NoSpuriousFailure' /\ RequestsAuthenticated'
    BY <1>1, <1>2, <2>1 DEF IInv, NoSpuriousFailure, RequestsAuthenticated, TypeOK, Callers
  <2> QED
    BY <1>3, <2>2, <2>3, <2>4, <2>5, <2>6 DEF IInv
<1> QED
  BY <1>4, <1>5

\* A Save that fails, the Secret written or not, preserves the inductive invariant.
LEMMA SaveFailsIInv == ASSUME IInv, NEW p \in Callers, SaveFails(p) PROVE IInv'
<1>1. /\ TypeOK /\ pc[p] = "save" /\ mu = p /\ Persistent
      /\ store' \in {store, tokens} /\ unsaved' = (store' # tokens)
      /\ fault' = [fault EXCEPT ![p] = TRUE]
      /\ UNCHANGED <<expired, providerVars>>
      /\ EnsureFails(p)
  BY DEF SaveFails, Faulted, IInv, LockHeld, Locked
<1>2. tokens.device /\ (tokens.refresh # 0 => tokens.refresh \in honoured)
  BY <1>1 DEF IInv, SaveReady
<1>3. unsaved' \in BOOLEAN /\ (unsaved' \/ store' = tokens)
  BY <1>1
<1>4. store' \in Tokens
  BY <1>1 DEF TypeOK
<1>5. StoredRefreshUsable'
  BY <1>1, <1>2, <1>3 DEF StoredRefreshUsable, providerVars
<1>6. CASE p = "connect"
  <2>1. Die
    BY <1>1, <1>6 DEF EnsureFails
  <2>2. NoTokens \in Tokens
    BY TokenClientAssumption DEF NoTokens, Tokens
  <2>3. fault' \in [Callers -> BOOLEAN]
    BY <1>1 DEF TypeOK
  <2>4. TypeOK'
    BY <1>1, <1>3, <1>4, <2>1, <2>2, <2>3
       DEF TypeOK, Die, providerVars, Callers, Nobody, Labels, Locked
  <2>5. LockHeld' /\ LifeCycle' /\ SaveReady' /\ StoreMatches' /\ Retrying'
    BY <2>1, TokenClientAssumption
       DEF LockHeld, LifeCycle, SaveReady, StoreMatches, Retrying, Die, Callers, Nobody, Locked
  <2>6. NoSpuriousFailure' /\ RequestsAuthenticated'
    BY <2>1 DEF NoSpuriousFailure, RequestsAuthenticated, Die, Callers
  <2> QED
    BY <1>5, <2>4, <2>5, <2>6 DEF IInv
<1>7. CASE p # "connect"
  <2>1. /\ p \in Requesters /\ mu' = Nobody /\ pc' = [pc EXCEPT ![p] = "failed"]
        /\ UNCHANGED <<life, tokens, retried, tok>>
    BY <1>1, <1>7 DEF EnsureFails, Goto, Callers
  <2>2. TypeOK'
    <3>1. pc' \in [Callers -> Labels] /\ pc'["connect"] = pc["connect"]
      BY <1>1, <1>7, <2>1 DEF TypeOK, Labels, Callers
    <3>2. fault' \in [Callers -> BOOLEAN]
      BY <1>1 DEF TypeOK
    <3> QED
      BY <1>1, <1>3, <1>4, <2>1, <3>1, <3>2 DEF TypeOK, providerVars
  <2>3. LockHeld'
    BY <1>1, <2>1, TokenClientAssumption DEF IInv, LockHeld, TypeOK, Locked, Callers, Nobody
  <2>4. LifeCycle' /\ SaveReady'
    BY <1>1, <1>7, <2>1, <2>3 DEF IInv, LifeCycle, SaveReady, TypeOK, Callers, Locked, providerVars
  <2>5. StoreMatches'
    BY <1>3, <2>1 DEF StoreMatches
  <2>6. Retrying' /\ NoSpuriousFailure' /\ RequestsAuthenticated'
    BY <1>1, <2>1 DEF IInv, Retrying, NoSpuriousFailure, RequestsAuthenticated, TypeOK,
                      providerVars, Callers
  <2> QED
    BY <1>5, <2>2, <2>3, <2>4, <2>5, <2>6 DEF IInv
<1> QED
  BY <1>6, <1>7

\* Taking mu and deciding between the token in hand, a refresh and a login
\* preserves the inductive invariant.
LEMMA EnsureIInv == ASSUME IInv, NEW p \in Callers, Ensure(p) PROVE IInv'
<1> DEFINE t == [tokens EXCEPT !.zeroed = @ \/ retried[p]]
<1>1. /\ TypeOK /\ pc[p] = "ensure" /\ mu = Nobody /\ tokens' = t
      /\ UNCHANGED <<retried, store, expired, providerVars, fault, unsaved>>
  BY DEF Ensure, IInv
<1>2. /\ t \in Tokens
      /\ t.access = tokens.access /\ t.refresh = tokens.refresh /\ t.device = tokens.device
      /\ retried[p] => t.zeroed
  BY <1>1 DEF TypeOK, Tokens
<1> HIDE DEF t
<1>3. StoreMatches' /\ StoredRefreshUsable'
  <2>1. life' # "down" => life # "down"
    BY <1>1 DEF IInv, LifeCycle
  <2> QED
    BY <1>1, <1>2, <2>1 DEF IInv, StoreMatches, StoredRefreshUsable, providerVars
<1>4. CASE Usable(t) /\ EnsureDone(p, t)
  <2>1. t.access # 0 /\ t.device /\ ~retried[p] /\ mu' = Nobody
    BY <1>2, <1>4 DEF Usable, EnsureDone
  <2>2. CASE p = "connect"
    <3>1. life' = "up" /\ pc' = [pc EXCEPT ![p] = "idle"] /\ UNCHANGED tok
      BY <1>4, <2>2 DEF EnsureDone, Goto
    <3>2. TypeOK'
      BY <1>1, <1>2, <2>1, <2>2, <3>1 DEF TypeOK, Labels, Locked, providerVars
    <3>3. LockHeld'
      BY <1>1, <2>1, <3>1, TokenClientAssumption DEF IInv, LockHeld, TypeOK, Locked, Callers, Nobody
    <3>4. LifeCycle'
      BY <1>1, <2>2, <3>1 DEF IInv, LifeCycle, TypeOK, Callers, Locked
    <3>5. SaveReady' /\ Retrying' /\ NoSpuriousFailure' /\ RequestsAuthenticated'
      BY <1>1, <2>1, <2>2, <3>1, <3>3, TokenClientAssumption
         DEF IInv, SaveReady, Retrying, NoSpuriousFailure, RequestsAuthenticated, TypeOK,
             LockHeld, Locked, providerVars, Callers, Nobody
    <3> QED
      BY <1>3, <3>2, <3>3, <3>4, <3>5 DEF IInv
  <2>3. CASE p # "connect"
    <3>1. /\ p \in Requesters /\ UNCHANGED life /\ tok' = [tok EXCEPT ![p] = t]
          /\ pc' = [pc EXCEPT ![p] = "get1"]
      BY <1>4, <2>1, <2>3 DEF EnsureDone, Goto, Callers
    <3>2. TypeOK'
      BY <1>1, <1>2, <2>1, <2>3, <3>1 DEF TypeOK, Labels, Locked, providerVars
    <3>3. LockHeld'
      BY <1>1, <2>1, <3>1, TokenClientAssumption DEF IInv, LockHeld, TypeOK, Locked, Callers, Nobody
    <3>4. LifeCycle'
      BY <1>1, <2>1, <2>3, <3>1 DEF IInv, LifeCycle, TypeOK, Callers, Locked
    <3>5. SaveReady' /\ Retrying' /\ NoSpuriousFailure'
      BY <1>1, <2>1, <3>1, <3>3, TokenClientAssumption
         DEF IInv, SaveReady, Retrying, NoSpuriousFailure, TypeOK,
             LockHeld, Locked, providerVars, Callers, Nobody
    <3>6. RequestsAuthenticated'
      BY <1>1, <2>1, <3>1 DEF IInv, RequestsAuthenticated, TypeOK, Callers
    <3> QED
      BY <1>3, <3>2, <3>3, <3>4, <3>5, <3>6 DEF IInv
  <2> QED
    BY <2>2, <2>3
<1>5. CASE /\ ~Usable(t) /\ mu' = p
           /\ Goto(p, IF t.refresh # 0 /\ t.device THEN "refresh" ELSE "register")
           /\ UNCHANGED <<life, tok>>
  <2>1. PICK label \in {"refresh", "register"} :
          pc' = [pc EXCEPT ![p] = label] /\ (label = "refresh" => t.device)
    BY <1>5 DEF Goto
  <2>2. TypeOK'
    BY <1>1, <1>2, <1>5, <2>1 DEF TypeOK, Labels, Locked, providerVars
  <2>3. LockHeld'
    BY <1>1, <1>5, <2>1, TokenClientAssumption DEF IInv, LockHeld, TypeOK, Locked, Callers, Nobody
  <2>4. LifeCycle'
    BY <1>1, <1>5, <2>1 DEF IInv, LifeCycle, TypeOK, Callers, Locked
  <2>5. SaveReady' /\ Retrying' /\ NoSpuriousFailure' /\ RequestsAuthenticated'
    BY <1>1, <1>5, <2>1, <2>3, TokenClientAssumption
       DEF IInv, SaveReady, Retrying, NoSpuriousFailure, RequestsAuthenticated, TypeOK,
           LockHeld, Locked, providerVars, Callers, Nobody
  <2> QED
    BY <1>3, <2>2, <2>3, <2>4, <2>5 DEF IInv
<1> QED
  BY <1>4, <1>5 DEF Ensure, t

\* Every step preserves the inductive invariant.
LEMMA NextIInv == IInv /\ [Next]_vars => IInv'
<1> SUFFICES ASSUME IInv, [Next]_vars PROVE IInv'
  OBVIOUS
<1>1. ASSUME NEW p \in Callers, Call(p) PROVE IInv'
  <2> USE TokenClientAssumption DEF IInv, TypeOK, LockHeld, LifeCycle, SaveReady, StoreMatches,
          Retrying, NoSpuriousFailure, StoredRefreshUsable, RequestsAuthenticated,
          Callers, Nobody, Labels, Locked, Tokens, NoTokens, Ids, providerVars, Goto, Faulted
  <2>1. CASE RefreshRejected(p)
    BY <2>1 DEF RefreshRejected
  <2>2. CASE RegisterDevice(p)
    BY <2>2 DEF RegisterDevice
  <2>3. CASE GetOk(p)
    BY <2>3 DEF GetOk, Return
  <2>4. CASE GetUnauthorized(p)
    BY <2>4 DEF GetUnauthorized
  <2>5. CASE GetFails(p)
    BY <2>5 DEF GetFails
  <2>6. CASE ReturnError(p)
    BY <2>6 DEF ReturnError, Return
  <2>7. CASE Ensure(p) \/ SaveOk(p) \/ SaveFails(p)
    BY <2>7, EnsureIInv, SaveOkIInv, SaveFailsIInv
  <2>8. CASE RefreshOk(p) \/ RefreshFails(p) \/ LoginWithPassword(p) \/ LoginFails(p)
    BY <2>8, RefreshOkIInv, RefreshFailsIInv, LoginIInv, LoginFailsIInv
  <2> QED
    BY <1>1, <2>1, <2>2, <2>3, <2>4, <2>5, <2>6, <2>7, <2>8 DEF Call
<1>2. CASE Crash \/ Exit
  <2>1. fault' \in [Callers -> BOOLEAN]
    BY <1>2 DEF Crash, Exit, IInv, TypeOK
  <2> QED
    BY <1>2, <2>1, DeathIInv DEF Crash, Exit
<1> USE TokenClientAssumption DEF IInv, TypeOK, LockHeld, LifeCycle, SaveReady, StoreMatches,
        Retrying, NoSpuriousFailure, StoredRefreshUsable, RequestsAuthenticated,
        Callers, Nobody, Labels, Locked, Tokens, NoTokens, Ids,
        vars, providerVars, callVars, Goto, Faulted
<1>3. CASE UNCHANGED vars
  BY <1>3
<1>4. CASE Connect
  BY <1>4 DEF Connect, Load
<1>5. ASSUME NEW n \in Ids, Expire(n) PROVE IInv'
  BY <1>5 DEF Expire
<1>6. ASSUME NEW n \in Ids, Revoke(n) PROVE IInv'
  BY <1>6 DEF Revoke
<1>7. ASSUME NEW p \in Requesters, BeginRequest(p) PROVE IInv'
  BY <1>7 DEF BeginRequest
<1> QED
  BY <1>1, <1>2, <1>3, <1>4, <1>5, <1>6, <1>7 DEF Next

\* The inductive invariant holds in every reachable state.
THEOREM Invariance == Spec => []IInv
BY InitIInv, NextIInv, PTL DEF Spec

\* Every variable of the client, the store and the provider keeps its type.
THEOREM TypeCorrect == Spec => []TypeOK
BY Invariance, PTL DEF IInv

\* Client.mu: no two callers are ever inside a refresh, a login or a Save, so a
\* refresh token is never spent twice and Saves are never reordered.
THEOREM Serialised == Spec => []AuthSerialised
<1>1. IInv => AuthSerialised
  BY TokenClientAssumption DEF IInv, LockHeld, AuthSerialised, Callers
<1> QED
  BY <1>1, Invariance, PTL

\* doAuthedGet fails only when something outside the client failed while it ran:
\* no sequence of expiries, revocations, rotations, lost answers, crashes and
\* restarts before it can make it fail.
THEOREM FailuresAreExternal == Spec => []NoSpuriousFailure
BY Invariance, PTL DEF IInv

\* The token store agrees with the client between calls unless a Save failed.
THEOREM StoreCorrect == Spec => []StoreFollowsMemory
<1>1. IInv => StoreFollowsMemory
  BY DEF IInv, StoreMatches, StoreFollowsMemory
<1> QED
  BY <1>1, Invariance, PTL

\* What the store holds still works after a crash unless an issue was lost unsaved.
THEOREM StoreUsable == Spec => []StoredRefreshUsable
<1>1. IInv => StoredRefreshUsable
  BY DEF IInv
<1> QED
  BY <1>1, Invariance, PTL

\* Every GET carries an access token and a device id, also while another caller
\* replaces the client's tokens.
THEOREM Authenticated == Spec => []RequestsAuthenticated
BY Invariance, PTL DEF IInv
=============================================================================
