------------------------------ MODULE KubeStore ------------------------------
(***************************************************************************)
(* The token store on a Kubernetes Secret (internal/bluelink/              *)
(* tokenstore_kube.go): Load, and Save with its read, update and single    *)
(* retry on a conflict, used by processes that share the Secret (the old   *)
(* and the new pod of a rollout) while its other owners edit it.           *)
(*                                                                         *)
(* The API server is external: an update carries the resourceVersion that  *)
(* was read and is refused when the Secret has changed since.  Versions    *)
(* are only compared for equality, so current[c] stands for "the version c *)
(* read is still the Secret's".                                            *)
(***************************************************************************)
EXTENDS Naturals

CONSTANTS
  Clients,   \* processes with a kubeSecretStore for the Secret
  Tokens,    \* token sets
  Others     \* values of the Secret's other keys

None == "none"  \* tokens.json is missing or empty
Junk == "junk"  \* tokens.json is not the JSON of a token set
Contents == Tokens \union {None, Junk}
Secrets == [tokens : Contents, others : Others]
Blank == [tokens |-> None, others |-> CHOOSE v \in Others : TRUE]  \* no copy held

ASSUME KubeStoreAssumption ==
  /\ None \notin Tokens /\ Junk \notin Tokens
  /\ Clients # {} /\ Tokens # {} /\ Others # {}
  /\ Clients \intersect {"owner", "late"} = {}

VARIABLES
  secret,   \* the Secret's data
  current,  \* [Clients -> the version read last is still the Secret's]
  pc,       \* [Clients -> where a Save is]
  attempt,  \* [Clients -> the loop variable of Save]
  arg,      \* [Clients -> Save's argument, None outside Save]
  copy,     \* [Clients -> the Secret as read, with the tokens set]
  reply,    \* [Clients -> the API server's answer to the update]
  late,     \* [Clients -> an update Save has given up on but that is still on its way]
  result,   \* [Clients -> what the last call returned; Pending during Save]
  owned,    \* history: what the other owners last wrote to their keys
  rivals    \* history: [Clients -> changes by others during the Save, up to 2]

vars == <<secret, current, pc, attempt, arg, copy, reply, late, result, owned, rivals>>

Loaded(v) == <<"loaded", v>>
Pending == <<"pending">>
Failed == <<"failed">>
Conflict == <<"conflict">>
Saved == <<"saved">>

Init ==
  /\ secret \in Secrets
  /\ current = [c \in Clients |-> FALSE]
  /\ pc = [c \in Clients |-> "idle"]
  /\ attempt = [c \in Clients |-> 0]
  /\ arg = [c \in Clients |-> None]
  /\ copy = [c \in Clients |-> Blank]
  /\ reply = [c \in Clients |-> "none"]
  /\ late = [c \in Clients |-> Blank]
  /\ result = [c \in Clients |-> Failed]
  /\ owned = secret.others
  /\ rivals = [c \in Clients |-> 0]

\* Every write gives the Secret a new version: nobody's copy is current any more,
\* and an update that is still on its way will be refused.  A Save under way (of
\* anyone but the writer) has met one rival more.
Written(by) ==
  /\ current' = [c \in Clients |-> FALSE]
  /\ late' = [c \in Clients |-> Blank]
  /\ rivals' = [c \in Clients |-> IF c # by /\ pc[c] # "idle" /\ rivals[c] < 2
                                  THEN rivals[c] + 1 ELSE rivals[c]]

\* Save returns; its local variables are gone.
Return(c, r) ==
  /\ pc' = [pc EXCEPT ![c] = "idle"]
  /\ result' = [result EXCEPT ![c] = r]
  /\ attempt' = [attempt EXCEPT ![c] = 0]
  /\ arg' = [arg EXCEPT ![c] = None]
  /\ copy' = [copy EXCEPT ![c] = Blank]
  /\ reply' = [reply EXCEPT ![c] = "none"]
  /\ current' = [current EXCEPT ![c] = FALSE]
  /\ rivals' = [rivals EXCEPT ![c] = 0]

\* Another round of Save's loop.
Again(c, n) ==
  /\ pc' = [pc EXCEPT ![c] = "get"]
  /\ attempt' = [attempt EXCEPT ![c] = n]
  /\ reply' = [reply EXCEPT ![c] = "none"]
  /\ copy' = [copy EXCEPT ![c] = Blank]
  /\ UNCHANGED <<current, arg, result, rivals>>

-----------------------------------------------------------------------------
(* Load.                                                                   *)

Load(c) ==
  /\ pc[c] = "idle"
  /\ \/ result' = [result EXCEPT ![c] = IF secret.tokens = Junk THEN Failed
                                        ELSE Loaded(secret.tokens)]
     \/ result' = [result EXCEPT ![c] = Failed]   \* the request fails
  /\ UNCHANGED <<secret, current, pc, attempt, arg, copy, reply, late, owned, rivals>>

-----------------------------------------------------------------------------
(* Save.                                                                   *)

CallSave(c, t) ==
  /\ pc[c] = "idle"
  /\ pc' = [pc EXCEPT ![c] = "get"]
  /\ arg' = [arg EXCEPT ![c] = t]
  /\ result' = [result EXCEPT ![c] = Pending]
  /\ UNCHANGED <<secret, current, attempt, copy, reply, late, owned, rivals>>

\* Get, then the tokens are set in the copy; the other keys are sent back as read.
Get(c) ==
  /\ pc[c] = "get"
  /\ pc' = [pc EXCEPT ![c] = "update"]
  /\ copy' = [copy EXCEPT ![c] = [secret EXCEPT !.tokens = arg[c]]]
  /\ current' = [current EXCEPT ![c] = TRUE]
  /\ UNCHANGED <<secret, attempt, arg, reply, late, result, owned, rivals>>

GetFails(c) ==
  /\ pc[c] = "get"
  /\ Return(c, Failed)
  /\ UNCHANGED <<secret, late, owned>>

\* Mutant: an update without a resourceVersion is never refused.
Update_Unconditional(c) ==
  /\ pc[c] = "update"
  /\ pc' = [pc EXCEPT ![c] = "reply"]
  /\ secret' = copy[c]
  /\ reply' = [reply EXCEPT ![c] = "ok"]
  /\ Written(c)
  /\ UNCHANGED <<attempt, arg, copy, result, owned>>

\* The API server handles the update.
Update(c) ==
  /\ pc[c] = "update"
  /\ pc' = [pc EXCEPT ![c] = "reply"]
  /\ IF current[c]
     THEN /\ secret' = copy[c]
          /\ reply' = [reply EXCEPT ![c] = "ok"]
          /\ Written(c)
     ELSE /\ reply' = [reply EXCEPT ![c] = "conflict"]
          /\ UNCHANGED <<secret, current, late, rivals>>
  /\ UNCHANGED <<attempt, arg, copy, result, owned>>

\* The update fails on its way: lost, still to arrive after Save has given up on
\* it, or handled without its answer coming back.
UpdateFails(c) ==
  /\ pc[c] \in {"update", "reply"}
  /\ Return(c, Failed)
  /\ \/ UNCHANGED late
     \/ pc[c] = "update" /\ current[c] /\ late' = [late EXCEPT ![c] = copy[c]]
  /\ UNCHANGED <<secret, owned>>

\* An update that was given up on arrives; the version it carries is still current.
LateUpdate(c) ==
  /\ late[c] # Blank
  /\ secret' = late[c]
  /\ Written("late")
  /\ UNCHANGED <<pc, attempt, arg, copy, reply, result, owned>>

\* Mutant: the answer is not looked at.
Answer_Ignored(c) ==
  /\ pc[c] = "reply"
  /\ Return(c, Saved)
  /\ UNCHANGED <<secret, late, owned>>

\* Mutant: a conflict is not retried.
Answer_NoRetry(c) ==
  /\ pc[c] = "reply"
  /\ Return(c, IF reply[c] = "ok" THEN Saved ELSE Conflict)
  /\ UNCHANGED <<secret, late, owned>>

\* Mutant: a conflict is retried for as long as it takes.
Answer_RetryForever(c) ==
  /\ pc[c] = "reply"
  /\ IF reply[c] = "ok" THEN Return(c, Saved) ELSE Again(c, 0)
  /\ UNCHANGED <<secret, late, owned>>

\* Mutant: the loop makes one attempt too many.
Answer_OneMore(c) ==
  /\ pc[c] = "reply"
  /\ IF reply[c] = "conflict" /\ attempt[c] < 2
     THEN Again(c, attempt[c] + 1)
     ELSE Return(c, IF reply[c] = "ok" THEN Saved ELSE Conflict)
  /\ UNCHANGED <<secret, late, owned>>

\* Save looks at the answer: done, a second attempt after a first conflict, or
\* the error.
Answer(c) ==
  /\ pc[c] = "reply"
  /\ IF reply[c] = "conflict" /\ attempt[c] = 0
     THEN Again(c, 1)
     ELSE Return(c, IF reply[c] = "ok" THEN Saved ELSE Conflict)
  /\ UNCHANGED <<secret, late, owned>>

-----------------------------------------------------------------------------
(* Others.                                                                 *)

\* An owner of other keys writes them.
OwnerWrites(v) ==
  /\ secret' = [secret EXCEPT !.others = v]
  /\ owned' = v
  /\ Written("owner")
  /\ UNCHANGED <<pc, attempt, arg, copy, reply, result>>

\* The Secret is applied anew by the deployment, without tokens, or damaged.
TokensReplaced(v) ==
  /\ secret' = [secret EXCEPT !.tokens = v]
  /\ Written("owner")
  /\ UNCHANGED <<pc, attempt, arg, copy, reply, result, owned>>

Step(c) == Get(c) \/ GetFails(c) \/ Update(c) \/ UpdateFails(c) \/ Answer(c)

Next ==
  \/ \E c \in Clients : Load(c) \/ Step(c) \/ LateUpdate(c) \/ \E t \in Tokens : CallSave(c, t)
  \/ \E v \in Others : OwnerWrites(v)
  \/ \E v \in {None, Junk} : TokensReplaced(v)

Spec == Init /\ [][Next]_vars

\* Every request of client-go is answered or times out, and Save goes on.
Fairness == \A c \in Clients : WF_vars(Step(c))
FairSpec == Spec /\ Fairness

-----------------------------------------------------------------------------
(* Properties.                                                             *)

\* Every variable stays in its type.
TypeOK ==
  /\ secret \in Secrets
  /\ current \in [Clients -> BOOLEAN]
  /\ pc \in [Clients -> {"idle", "get", "update", "reply"}]
  /\ attempt \in [Clients -> 0 .. 1]
  /\ arg \in [Clients -> Tokens \union {None}]
  /\ copy \in [Clients -> Secrets]
  /\ reply \in [Clients -> {"none", "ok", "conflict"}]
  /\ late \in [Clients -> Secrets]
  /\ result \in [Clients -> {Pending, Failed, Conflict, Saved} \union {Loaded(v) : v \in Tokens \union {None}}]
  /\ owned \in Others
  /\ rivals \in [Clients -> 0 .. 2]

\* Save sends every key back, also those it only read: a change of another owner
\* between its read and its update is never overwritten.
OthersNeverLost == secret.others = owned

\* The retry of Save: it reports a conflict only if the Secret was changed twice
\* under it, never because of a single change by somebody else.
ConflictMeansTwoRivals ==
  [][\A c \in Clients : pc[c] # "idle" /\ result'[c] = Conflict => rivals[c] = 2]_vars

\* A Save in the contract's terms: it has taken effect once the API server has
\* accepted its update.
Took(c) == pc[c] = "reply" /\ reply[c] = "ok"
Phase == [c \in Clients |-> IF pc[c] = "idle" THEN "idle" ELSE IF Took(c) THEN "done" ELSE "called"]
Lingering == [c \in Clients |-> late[c].tokens]
Store == INSTANCE TokenStore WITH
  cell <- secret.tokens, beside <- secret.others, phase <- Phase, lingering <- Lingering

\* The store keeps the promises of TokenStore: nothing is stored before the call,
\* at most one effect per Save, nil only with the effect, and an effect after the
\* return only of a Save that returned an error.
KeepsStoreContract == Store!Spec

\* Save ends, however often the others change the Secret.
SaveEnds == \A c \in Clients : pc[c] # "idle" ~> pc[c] = "idle"
=============================================================================
