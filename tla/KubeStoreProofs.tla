--------------------------- MODULE KubeStoreProofs ---------------------------
(***************************************************************************)
(* Proofs about the Kubernetes token store, for any number of processes    *)
(* that share the Secret: types, no lost changes of other owners, conflict *)
(* only after two rivals, and that the store implements TokenStore.        *)
(***************************************************************************)
EXTENDS KubeStore, TLAPS

\* A copy that would be accepted holds the other keys as they are; a Save has an
\* argument exactly while it runs, and no result.
Copies ==
  \A c \in Clients :
    /\ (arg[c] = None) <=> (pc[c] = "idle")
    /\ pc[c] # "idle" => result[c] = Pending
    /\ pc[c] = "reply" => reply[c] # "none"
    /\ pc[c] = "update" => copy[c].tokens = arg[c]
    /\ current[c] => pc[c] = "update" /\ copy[c].others = secret.others

\* So does an update that is still on its way.
Lates ==
  \A c \in Clients :
    late[c] # Blank => late[c].tokens \in Tokens /\ late[c].others = secret.others

\* Every lost race has a rival: one for each attempt that is over, and one more
\* once the copy of this attempt is stale.
Races ==
  \A c \in Clients :
    /\ pc[c] # "idle" => rivals[c] >= attempt[c]
    /\ pc[c] = "update" /\ ~current[c] => rivals[c] >= attempt[c] + 1
    /\ pc[c] = "reply" /\ reply[c] = "conflict" => rivals[c] >= attempt[c] + 1
    /\ pc[c] = "idle" => attempt[c] = 0

IInv == TypeOK /\ OthersNeverLost /\ Copies /\ Lates /\ Races

-----------------------------------------------------------------------------
\* The initial states satisfy it.
LEMMA InvInit == Init => IInv
<1> SUFFICES ASSUME Init PROVE IInv
  OBVIOUS
<1> USE KubeStoreAssumption DEF Init, Secrets, Contents, Blank
<1>1. TypeOK
  BY DEF TypeOK
<1>2. OthersNeverLost /\ Copies /\ Lates /\ Races
  BY DEF OthersNeverLost, Copies, Lates, Races
<1> QED
  BY <1>1, <1>2 DEF IInv

\* "No copy held" is a value of the Secret's type.
LEMMA BlankType == Blank \in Secrets
BY KubeStoreAssumption DEF Blank, Secrets, Contents

\* What a write of the Secret does to the other Saves.
LEMMA WrittenTypes ==
  ASSUME TypeOK, NEW by, Written(by)
  PROVE  /\ current' \in [Clients -> BOOLEAN]
         /\ late' \in [Clients -> Secrets]
         /\ rivals' \in [Clients -> 0 .. 2]
BY BlankType DEF Written, TypeOK

\* A step of a client keeps the types.
LEMMA TypesStep ==
  ASSUME TypeOK, Copies, NEW c \in Clients, Step(c) \/ Load(c) \/ LateUpdate(c) \/ \E t \in Tokens : CallSave(c, t)
  PROVE  TypeOK'
<1> USE DEF TypeOK
<1>1. CASE Load(c)
  <2>1. secret.tokens # Junk => secret.tokens \in Tokens \union {None}
    BY DEF Secrets, Contents
  <2> QED
    BY <1>1, <2>1 DEF Load
<1>2. CASE \E t \in Tokens : CallSave(c, t)
  BY <1>2 DEF CallSave
<1>3. CASE Get(c)
  <2>1. [secret EXCEPT !.tokens = arg[c]] \in Secrets
    BY DEF Secrets, Contents
  <2> QED
    BY <1>3, <2>1 DEF Get
<1>4. CASE GetFails(c)
  BY <1>4, BlankType DEF GetFails, Return
<1>5. CASE Update(c)
  BY <1>5, WrittenTypes DEF Update
<1>6. CASE UpdateFails(c)
  BY <1>6, BlankType DEF UpdateFails, Return
<1>7. CASE Answer(c)
  <2>1. CASE reply[c] = "conflict" /\ attempt[c] = 0
    BY <1>7, <2>1, BlankType DEF Answer, Again
  <2>2. CASE ~(reply[c] = "conflict" /\ attempt[c] = 0)
    <3>1. PICK r \in {Saved, Conflict} : Return(c, r)
      BY <1>7, <2>2 DEF Answer
    <3>2. UNCHANGED <<secret, late, owned>>
      BY <1>7 DEF Answer
    <3> QED
      BY <3>1, <3>2, BlankType DEF Return
  <2> QED
    BY <2>1, <2>2
<1>8. CASE LateUpdate(c)
  BY <1>8, WrittenTypes DEF LateUpdate
<1> QED
  BY <1>1, <1>2, <1>3, <1>4, <1>5, <1>6, <1>7, <1>8 DEF Step

\* So does a step of the other owners.
LEMMA TypesOutside ==
  ASSUME TypeOK, (\E v \in Others : OwnerWrites(v)) \/ (\E v \in {None, Junk} : TokensReplaced(v))
  PROVE  TypeOK'
<1> USE DEF TypeOK
<1>1. CASE \E v \in Others : OwnerWrites(v)
  <2> PICK v \in Others : OwnerWrites(v)
    BY <1>1
  <2>1. [secret EXCEPT !.others = v] \in Secrets
    BY DEF Secrets
  <2> QED
    BY <2>1, WrittenTypes DEF OwnerWrites
<1>2. CASE \E v \in {None, Junk} : TokensReplaced(v)
  <2> PICK v \in {None, Junk} : TokensReplaced(v)
    BY <1>2
  <2>1. [secret EXCEPT !.tokens = v] \in Secrets
    BY DEF Secrets, Contents
  <2> QED
    BY <2>1, WrittenTypes DEF TokensReplaced
<1> QED
  BY <1>1, <1>2

-----------------------------------------------------------------------------
\* The other keys, and the copies of them that would still be accepted.
LEMMA KeysStep ==
  ASSUME IInv, [Next]_vars
  PROVE  OthersNeverLost' /\ Copies' /\ Lates'
<1> USE KubeStoreAssumption DEF IInv, TypeOK, OthersNeverLost, Copies, Lates, Secrets, Contents
<1>1. ASSUME NEW c \in Clients, Load(c)
      PROVE  OthersNeverLost' /\ Copies' /\ Lates'
  BY <1>1 DEF Load
<1>2. ASSUME NEW c \in Clients, NEW t \in Tokens, CallSave(c, t)
      PROVE  OthersNeverLost' /\ Copies' /\ Lates'
  BY <1>2 DEF CallSave
<1>3. ASSUME NEW c \in Clients, Get(c)
      PROVE  OthersNeverLost' /\ Copies' /\ Lates'
  BY <1>3 DEF Get
<1>4. ASSUME NEW c \in Clients, GetFails(c)
      PROVE  OthersNeverLost' /\ Copies' /\ Lates'
  BY <1>4 DEF GetFails, Return
<1>5. ASSUME NEW c \in Clients, Update(c)
      PROVE  OthersNeverLost' /\ Copies' /\ Lates'
  <2>1. CASE current[c]
    BY <1>5, <2>1 DEF Update, Written
  <2>2. CASE ~current[c]
    BY <1>5, <2>2 DEF Update
  <2> QED
    BY <2>1, <2>2
<1>6. ASSUME NEW c \in Clients, UpdateFails(c)
      PROVE  OthersNeverLost' /\ Copies' /\ Lates'
  BY <1>6 DEF UpdateFails, Return
<1>7. ASSUME NEW c \in Clients, Answer(c)
      PROVE  OthersNeverLost' /\ Copies' /\ Lates'
  <2>1. CASE reply[c] = "conflict" /\ attempt[c] = 0
    BY <1>7, <2>1 DEF Answer, Again
  <2>2. CASE ~(reply[c] = "conflict" /\ attempt[c] = 0)
    <3>1. PICK r \in {Saved, Conflict} : Return(c, r)
      BY <1>7, <2>2 DEF Answer
    <3>2. UNCHANGED <<secret, late, owned>>
      BY <1>7 DEF Answer
    <3> QED
      BY <3>1, <3>2 DEF Return
  <2> QED
    BY <2>1, <2>2
<1>8. ASSUME NEW c \in Clients, LateUpdate(c)
      PROVE  OthersNeverLost' /\ Copies' /\ Lates'
  BY <1>8 DEF LateUpdate, Written
<1>9. ASSUME NEW v \in Others, OwnerWrites(v)
      PROVE  OthersNeverLost' /\ Copies' /\ Lates'
  BY <1>9 DEF OwnerWrites, Written
<1>10. ASSUME NEW v \in {None, Junk}, TokensReplaced(v)
       PROVE  OthersNeverLost' /\ Copies' /\ Lates'
  BY <1>10 DEF TokensReplaced, Written
<1>11. CASE UNCHANGED vars
  BY <1>11 DEF vars
<1> QED
  BY <1>1, <1>2, <1>3, <1>4, <1>5, <1>6, <1>7, <1>8, <1>9, <1>10, <1>11 DEF Next, Step
-----------------------------------------------------------------------------
\* The count of rivals keeps up with the attempts.
LEMMA RacesStep ==
  ASSUME IInv, [Next]_vars
  PROVE  Races'
<1> USE KubeStoreAssumption DEF IInv, TypeOK, Copies, Races
<1>1. ASSUME NEW c \in Clients, Load(c) PROVE Races'
  BY <1>1 DEF Load
<1>2. ASSUME NEW c \in Clients, NEW t \in Tokens, CallSave(c, t) PROVE Races'
  BY <1>2 DEF CallSave
<1>3. ASSUME NEW c \in Clients, Get(c) PROVE Races'
  BY <1>3 DEF Get
<1>4. ASSUME NEW c \in Clients, GetFails(c) PROVE Races'
  BY <1>4 DEF GetFails, Return
<1>5. ASSUME NEW c \in Clients, Update(c) PROVE Races'
  <2>1. CASE current[c]
    BY <1>5, <2>1 DEF Update, Written
  <2>2. CASE ~current[c]
    BY <1>5, <2>2 DEF Update
  <2> QED
    BY <2>1, <2>2
<1>6. ASSUME NEW c \in Clients, UpdateFails(c) PROVE Races'
  BY <1>6 DEF UpdateFails, Return
<1>7. ASSUME NEW c \in Clients, Answer(c) PROVE Races'
  <2>1. CASE reply[c] = "conflict" /\ attempt[c] = 0
    BY <1>7, <2>1 DEF Answer, Again
  <2>2. CASE ~(reply[c] = "conflict" /\ attempt[c] = 0)
    BY <1>7, <2>2 DEF Answer, Return
  <2> QED
    BY <2>1, <2>2
<1>8. ASSUME NEW c \in Clients, LateUpdate(c) PROVE Races'
  BY <1>8 DEF LateUpdate, Written
<1>9. ASSUME NEW v \in Others, OwnerWrites(v) PROVE Races'
  BY <1>9 DEF OwnerWrites, Written
<1>10. ASSUME NEW v \in {None, Junk}, TokensReplaced(v) PROVE Races'
  BY <1>10 DEF TokensReplaced, Written
<1>11. CASE UNCHANGED vars
  BY <1>11 DEF vars
<1> QED
  BY <1>1, <1>2, <1>3, <1>4, <1>5, <1>6, <1>7, <1>8, <1>9, <1>10, <1>11 DEF Next, Step

\* Every step keeps the invariant.
LEMMA InvNext ==
  ASSUME IInv, [Next]_vars
  PROVE  IInv'
<1>1. TypeOK'
  <2>1. CASE UNCHANGED vars
    BY <2>1 DEF IInv, TypeOK, vars
  <2>2. CASE Next
    BY <2>2, TypesStep, TypesOutside DEF Next, IInv
  <2> QED
    BY <2>1, <2>2
<1> QED
  BY <1>1, KeysStep, RacesStep DEF IInv

\* The strengthened invariant holds in every reachable state.
THEOREM Invariance == Spec => []IInv
<1>1. IInv /\ [Next]_vars => IInv'
  BY InvNext
<1> QED
  BY InvInit, <1>1, PTL DEF Spec

\* Every variable of the store, its callers and the Secret keeps its type.
THEOREM TypeCorrect == Spec => []TypeOK
BY Invariance, PTL DEF IInv

\* kubeSecretStore.Save: a change of another owner of the Secret is never
\* overwritten, neither by an update that races with it nor by one that arrives
\* after its Save has given up.
THEOREM OthersKept == Spec => []OthersNeverLost
BY Invariance, PTL DEF IInv

\* Save's single retry: a conflict is reported only after two changes by others.
THEOREM ConflictJustified == Spec => ConflictMeansTwoRivals
<1>1. ASSUME IInv, [Next]_vars, NEW c \in Clients, pc[c] # "idle", result'[c] = Conflict
      PROVE  rivals[c] = 2
  <2> USE <1>1 DEF IInv, TypeOK, Copies, Pending, Failed, Conflict, Saved
  <2>1. result[c] = Pending
    OBVIOUS
  <2>2. Answer(c)
    <3>1. ASSUME NEW d \in Clients, Step(d), d # c PROVE FALSE
      BY <3>1, <2>1 DEF Step, Get, GetFails, Update, UpdateFails, Answer, Again, Return
    <3>2. ASSUME NEW d \in Clients, Load(d) PROVE FALSE
      BY <3>2, <2>1 DEF Load
    <3>3. ASSUME NEW d \in Clients, NEW t \in Tokens, CallSave(d, t) PROVE FALSE
      BY <3>3, <2>1 DEF CallSave
    <3>4. ASSUME NEW d \in Clients, LateUpdate(d) PROVE FALSE
      BY <3>4, <2>1 DEF LateUpdate
    <3>5. ASSUME NEW v, OwnerWrites(v) \/ TokensReplaced(v) PROVE FALSE
      BY <3>5, <2>1 DEF OwnerWrites, TokensReplaced
    <3>6. ASSUME Get(c) \/ GetFails(c) \/ Update(c) \/ UpdateFails(c) PROVE FALSE
      BY <3>6, <2>1 DEF Get, GetFails, Update, UpdateFails, Return
    <3>7. ~UNCHANGED vars
      BY <2>1 DEF vars
    <3> QED
      BY <1>1, <3>1, <3>2, <3>3, <3>4, <3>5, <3>6, <3>7 DEF Next, Step
  <2>3. reply[c] = "conflict" /\ attempt[c] = 1
    <3>1. ~(reply[c] = "conflict" /\ attempt[c] = 0)
      BY <2>1, <2>2 DEF Answer, Again
    <3>2. Return(c, IF reply[c] = "ok" THEN Saved ELSE Conflict)
      BY <2>2, <3>1 DEF Answer
    <3>3. reply[c] # "ok"
      BY <3>2 DEF Return
    <3>4. reply[c] = "conflict"
      BY <2>2, <3>3 DEF Answer
    <3> QED
      BY <3>1, <3>4
  <2> QED
    BY <2>2, <2>3 DEF Answer, Races
<1>2. IInv /\ [Next]_vars
        => \A c \in Clients : pc[c] # "idle" /\ result'[c] = Conflict => rivals[c] = 2
  BY <1>1
<1> QED
  BY <1>2, Invariance, PTL DEF Spec, ConflictMeansTwoRivals
-----------------------------------------------------------------------------
(* The store implements TokenStore.                                        *)

\* Initial states map to initial states.
LEMMA ContractInit == Init => Store!Init
BY KubeStoreAssumption
DEF Init, Secrets, Contents, Blank, Phase, Lingering, Failed, None, Store!Init, Store!None, Store!Failed

\* What a write leaves of the updates that are still on their way.
LEMMA WrittenLingering ==
  ASSUME NEW by, Written(by)
  PROVE  Lingering' = [c \in Clients |-> None]
BY DEF Written, Lingering, Blank

\* A return from Save, with an update left on its way or not, is one in the
\* contract: nil only if the API server has accepted the update.
LEMMA ContractReturn ==
  ASSUME IInv, NEW c \in Clients, NEW r \in {Saved, Conflict, Failed}, Return(c, r),
         pc[c] # "idle", r = Saved => Took(c), UNCHANGED secret,
         \/ UNCHANGED late
         \/ r = Failed /\ pc[c] = "update" /\ late' = [late EXCEPT ![c] = copy[c]]
  PROVE  Store!Next
<1> USE DEF IInv, TypeOK, Copies
<1>1. Phase' = [Phase EXCEPT ![c] = "idle"]
  BY DEF Return, Phase, Took
<1>2. Phase[c] # "idle" /\ (r = Saved => Phase[c] = "done")
  BY DEF Phase
<1>3. \/ Lingering' = Lingering
      \/ /\ r = Failed /\ Phase[c] = "called"
         /\ Lingering' = [Lingering EXCEPT ![c] = arg[c]]
  <2>1. CASE UNCHANGED late
    BY <2>1 DEF Lingering
  <2>2. CASE r = Failed /\ pc[c] = "update" /\ late' = [late EXCEPT ![c] = copy[c]]
    BY <2>2 DEF Lingering, Phase, Took
  <2> QED
    BY <2>1, <2>2
<1>4. Store!ReturnSave(c, r)
  BY <1>1, <1>2, <1>3 DEF Return, Store!ReturnSave, Store!Failed, Store!None, None, Failed, Saved
<1> QED
  BY <1>4 DEF Store!Next, Store!Failed, Failed, Saved, Conflict

\* Every step of a client is a step of the contract or none.
LEMMA ContractStep ==
  ASSUME IInv, NEW c \in Clients,
         Step(c) \/ Load(c) \/ LateUpdate(c) \/ \E t \in Tokens : CallSave(c, t)
  PROVE  [Store!Next]_(Store!vars)
<1> USE DEF IInv, TypeOK, Copies, Store!vars
<1>1. CASE Load(c)
  <2>1. Phase' = Phase /\ Lingering' = Lingering
    BY <1>1 DEF Load, Phase, Took, Lingering
  <2>2. Phase[c] = "idle"
    BY <1>1 DEF Load, Phase
  <2>3. Store!Load(c) \/ Store!LoadFails(c)
    BY <1>1, <2>1, <2>2
    DEF Load, Store!Load, Store!LoadFails, Store!Failed, Store!Loaded, Store!Junk, Failed, Loaded, Junk
  <2> QED
    BY <2>3 DEF Store!Next
<1>2. CASE \E t \in Tokens : CallSave(c, t)
  <2> PICK t \in Tokens : CallSave(c, t)
    BY <1>2
  <2>1. Phase' = [Phase EXCEPT ![c] = "called"] /\ Phase[c] = "idle" /\ Lingering' = Lingering
    BY DEF CallSave, Phase, Took, Lingering
  <2>2. Store!CallSave(c, t)
    BY <2>1 DEF CallSave, Store!CallSave, Store!Pending, Pending
  <2> QED
    BY <2>2 DEF Store!Next
<1>3. CASE Get(c)
  <2>1. Phase' = Phase /\ Lingering' = Lingering
    BY <1>3 DEF Get, Phase, Took, Lingering
  <2> QED
    BY <1>3, <2>1 DEF Get
<1>4. CASE GetFails(c)
  BY <1>4, ContractReturn DEF GetFails, Failed, Saved
<1>5. CASE Update(c)
  <2>1. CASE current[c]
    <3>1. Phase' = [Phase EXCEPT ![c] = "done"] /\ Phase[c] = "called"
      <4>1. pc[c] = "update" /\ pc'[c] = "reply" /\ reply'[c] = "ok"
        BY <1>5, <2>1 DEF Update
      <4>2. \A d \in Clients \ {c} : pc'[d] = pc[d] /\ reply'[d] = reply[d]
        BY <1>5, <2>1 DEF Update
      <4> HIDE DEF IInv, TypeOK, Copies, Store!vars
      <4>3. Phase[c] = "called" /\ Phase'[c] = "done"
        BY <4>1 DEF Phase, Took
      <4>4. \A d \in Clients \ {c} : Phase'[d] = Phase[d]
        BY <4>2 DEF Phase, Took
      <4> QED
        BY <4>3, <4>4 DEF Phase
    <3>2. Lingering' = [d \in Clients |-> None]
      BY <1>5, <2>1, WrittenLingering DEF Update
    <3>3. secret'.tokens = arg[c] /\ secret'.others = secret.others
      BY <1>5, <2>1 DEF Update
    <3>4. Store!TakeEffect(c)
      BY <1>5, <3>1, <3>2, <3>3 DEF Update, Store!TakeEffect, Store!Forgotten, Store!None, None
    <3> QED
      BY <3>4 DEF Store!Next
  <2>2. CASE ~current[c]
    <3>1. Phase' = Phase /\ Lingering' = Lingering
      BY <1>5, <2>2 DEF Update, Phase, Took, Lingering
    <3> QED
      BY <1>5, <2>2, <3>1 DEF Update
  <2> QED
    BY <2>1, <2>2
<1>6. CASE UpdateFails(c)
  BY <1>6, ContractReturn DEF UpdateFails, Failed, Saved
<1>7. CASE Answer(c)
  <2>1. CASE reply[c] = "conflict" /\ attempt[c] = 0
    <3>1. Phase' = Phase /\ Lingering' = Lingering
      BY <1>7, <2>1 DEF Answer, Again, Phase, Took, Lingering
    <3> QED
      BY <1>7, <2>1, <3>1 DEF Answer, Again
  <2>2. CASE ~(reply[c] = "conflict" /\ attempt[c] = 0)
    <3>1. PICK r \in {Saved, Conflict} : Return(c, r) /\ (r = Saved => reply[c] = "ok")
      BY <1>7, <2>2 DEF Answer, Saved, Conflict
    <3> QED
      BY <1>7, <3>1, ContractReturn DEF Answer, Took
  <2> QED
    BY <2>1, <2>2
<1>8. CASE LateUpdate(c)
  <2>1. Phase' = Phase
    BY <1>8 DEF LateUpdate, Phase, Took
  <2>2. Lingering' = [d \in Clients |-> None]
    BY <1>8, WrittenLingering DEF LateUpdate
  <2>3. Lingering[c] # None /\ secret'.tokens = Lingering[c] /\ secret'.others = secret.others
    BY <1>8, KubeStoreAssumption DEF LateUpdate, Lingering, Lates
  <2>4. Store!LateEffect(c)
    BY <1>8, <2>1, <2>2, <2>3 DEF LateUpdate, Store!LateEffect, Store!Forgotten, Store!None, None
  <2> QED
    BY <2>4 DEF Store!Next
<1> QED
  BY <1>1, <1>2, <1>3, <1>4, <1>5, <1>6, <1>7, <1>8 DEF Step

\* The other owners' edits are the contract's outside.
LEMMA ContractOutside ==
  ASSUME IInv, (\E v \in Others : OwnerWrites(v)) \/ (\E v \in {None, Junk} : TokensReplaced(v))
  PROVE  Store!Next
<1> USE KubeStoreAssumption DEF IInv, TypeOK
<1>1. Phase' = Phase
  BY DEF OwnerWrites, TokensReplaced, Phase, Took
<1>2. Lingering' = [d \in Clients |-> None]
  BY WrittenLingering DEF OwnerWrites, TokensReplaced
<1>3. /\ secret'.tokens \in {secret.tokens} \union (Contents \ Tokens)
      /\ secret'.others \in Others
  BY DEF OwnerWrites, TokensReplaced, Secrets, Contents
<1>4. UNCHANGED <<arg, result>>
  BY DEF OwnerWrites, TokensReplaced
<1> QED
  BY <1>1, <1>2, <1>3, <1>4 DEF Store!Next, Store!Outside, Store!Forgotten, Store!None, None

\* kubeSecretStore implements TokenStore, for any number of processes that share
\* the Secret: a Save takes effect at most once, and has taken effect when it
\* returns nil.
THEOREM ImplementsTokenStore == Spec => KeepsStoreContract
<1>1. IInv /\ [Next]_vars => [Store!Next]_(Store!vars)
  <2> SUFFICES ASSUME IInv, [Next]_vars PROVE [Store!Next]_(Store!vars)
    OBVIOUS
  <2>1. CASE UNCHANGED vars
    BY <2>1 DEF vars, Store!vars, Phase, Took, Lingering
  <2>2. CASE Next
    BY <2>2, ContractStep, ContractOutside DEF Next
  <2> QED
    BY <2>1, <2>2
<1> QED
  BY ContractInit, Invariance, <1>1, PTL DEF Spec, KeepsStoreContract, Store!Spec
=============================================================================
