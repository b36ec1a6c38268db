----------------------------- MODULE TokenStore -----------------------------
(***************************************************************************)
(* What bluelink.TokenStore promises its callers (internal/bluelink/       *)
(* tokenstore.go): Save takes effect at most once, and between the call    *)
(* and the return if it returns nil; a Save that returned an error may     *)
(* still take effect later.  Load returns what is stored at one moment.    *)
(* The tokens may live next to data of others, which no operation touches. *)
(***************************************************************************)
CONSTANTS
  Clients,   \* processes that use the store
  Tokens,    \* token sets
  Contents,  \* what may be stored under the key: tokens, nothing, junk
  Others     \* values of the data next to the tokens

VARIABLES
  cell,   \* what is stored
  beside, \* the data of others
  phase,  \* [Clients -> "idle", "called" (no effect yet), "done" (took effect)]
  arg,    \* [Clients -> the tokens being saved, or None]
  lingering, \* [Clients -> tokens of a failed Save that may still take effect]
  result  \* [Clients -> what the last call returned]

vars == <<cell, beside, phase, arg, lingering, result>>

None == "none"
Junk == "junk"
Loaded(v) == <<"loaded", v>>
Pending == <<"pending">>
Failed == <<"failed">>

Init ==
  /\ cell \in Contents
  /\ beside \in Others
  /\ phase = [c \in Clients |-> "idle"]
  /\ arg = [c \in Clients |-> None]
  /\ lingering = [c \in Clients |-> None]
  /\ result = [c \in Clients |-> Failed]

CallSave(c, t) ==
  /\ phase[c] = "idle"
  /\ phase' = [phase EXCEPT ![c] = "called"]
  /\ arg' = [arg EXCEPT ![c] = t]
  /\ result' = [result EXCEPT ![c] = Pending]
  /\ UNCHANGED <<cell, beside, lingering>>

\* A change of the store may put an end to what lingers.
Forgotten == \A c \in Clients : lingering'[c] \in {lingering[c], None}

TakeEffect(c) ==
  /\ phase[c] = "called"
  /\ phase' = [phase EXCEPT ![c] = "done"]
  /\ cell' = arg[c]
  /\ Forgotten
  /\ UNCHANGED <<beside, arg, result>>

ReturnSave(c, r) ==
  /\ phase[c] # "idle"
  /\ r = <<"saved">> => phase[c] = "done"
  /\ phase' = [phase EXCEPT ![c] = "idle"]
  /\ arg' = [arg EXCEPT ![c] = None]
  /\ result' = [result EXCEPT ![c] = r]
  /\ \/ UNCHANGED lingering
     \/ r = Failed /\ phase[c] = "called" /\ lingering' = [lingering EXCEPT ![c] = arg[c]]
  /\ UNCHANGED <<cell, beside>>

\* The tokens of a Save that failed are stored after all.
LateEffect(c) ==
  /\ lingering[c] # None
  /\ cell' = lingering[c]
  /\ lingering'[c] = None /\ Forgotten
  /\ UNCHANGED <<beside, phase, arg, result>>

Load(c) ==
  /\ phase[c] = "idle"
  /\ result' = [result EXCEPT ![c] = IF cell = Junk THEN Failed ELSE Loaded(cell)]
  /\ UNCHANGED <<cell, beside, phase, arg, lingering>>

LoadFails(c) ==
  /\ phase[c] = "idle"
  /\ result' = [result EXCEPT ![c] = Failed]
  /\ UNCHANGED <<cell, beside, phase, arg, lingering>>

\* The owners of the Secret edit it; tokens come from Save alone.
Outside ==
  /\ cell' \in {cell} \union (Contents \ Tokens)
  /\ beside' \in Others
  /\ Forgotten
  /\ UNCHANGED <<phase, arg, result>>

Next ==
  \/ Outside
  \/ \E c \in Clients :
       \/ TakeEffect(c) \/ LateEffect(c) \/ Load(c) \/ LoadFails(c)
       \/ \E t \in Tokens : CallSave(c, t)
       \/ \E r \in {<<"saved">>, <<"conflict">>, Failed} : ReturnSave(c, r)

Spec == Init /\ [][Next]_vars
=============================================================================
