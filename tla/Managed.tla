------------------------------ MODULE Managed ------------------------------
(***************************************************************************)
(* What a resource promises whoever writes its block: Terraform works on   *)
(* what the texts of a block mean and never on how they are spelled.  An   *)
(* object is a key and a body, both meanings.  Every apply does what the   *)
(* difference between the block and the remembered object calls for, no    *)
(* more and no less, and a refresh remembers what the server holds.        *)
(* Module Spelling is shown to implement this one.                         *)
(***************************************************************************)

CONSTANTS
    None,           \* no block, or nothing remembered
    Acceptable(_)   \* Acceptable(o): the server takes object o

VARIABLES
    config,         \* the object the block describes, or None
    state,          \* the object Terraform remembers, or None
    server,         \* the objects at the server, of different keys
    step            \* what happened last

Holds(k) == \E o \in server : o.key = k
At(k) == CHOOSE o \in server : o.key = k
Except(objects, k) == {o \in objects : o.key # k}

Init == state = None /\ step = "start"

-----------------------------------------------------------------------------

Edit == step' = "changed" /\ UNCHANGED <<state, server>>

Outside == step' = "changed" /\ UNCHANGED <<config, state>>

Refresh ==
    /\ state # None
    /\ step' = "refresh"
    /\ state' = IF Holds(state.key) THEN At(state.key) ELSE None
    /\ UNCHANGED <<config, server>>

\* The operator imports the object the block describes.
Import ==
    /\ state = None /\ config # None
    /\ IF Holds(config.key)
       THEN step' = "import" /\ state' = At(config.key)
       ELSE step' = "missing" /\ UNCHANGED state
    /\ UNCHANGED <<config, server>>

-----------------------------------------------------------------------------
(***************************************************************************)
(* The apply.  A request is refused for an object the server does not      *)
(* take, for a new object whose key is in use and for a change of an       *)
(* object that is gone, and a refused replacement has lost the old object. *)
(***************************************************************************)

Made(before) ==
    /\ Acceptable(config)
    /\ server' = Except(before, config.key) \cup {config}
    /\ state' = config

Create ==
    /\ state = None /\ config # None
    /\ \/ step' = "create" /\ Made(server)
       \/ /\ ~ Acceptable(config) \/ Holds(config.key)
          /\ step' = "failed" /\ UNCHANGED <<state, server>>
    /\ UNCHANGED config

Update ==
    /\ state # None /\ config # None
    /\ config.key = state.key /\ config.body # state.body
    /\ \/ step' = "update" /\ Made(server)
       \/ /\ ~ Acceptable(config) \/ ~ Holds(config.key)
          /\ step' = "failed" /\ UNCHANGED <<state, server>>
    /\ UNCHANGED config

Replace ==
    /\ state # None /\ config # None /\ config.key # state.key
    /\ \/ step' = "replace" /\ Made(Except(server, state.key))
       \/ /\ ~ Acceptable(config) \/ Holds(config.key)
          /\ step' = "failed" /\ state' = None /\ server' = Except(server, state.key)
    /\ UNCHANGED config

Delete ==
    /\ state # None /\ config = None
    /\ step' = "delete" /\ state' = None /\ server' = Except(server, state.key)
    /\ UNCHANGED config

Nothing ==
    /\ state = config
    /\ step' = "nothing"
    /\ UNCHANGED <<config, state, server>>

-----------------------------------------------------------------------------

Next ==
    \/ Edit \/ Outside \/ Refresh \/ Import
    \/ Create \/ Update \/ Replace \/ Delete \/ Nothing

Spec == Init /\ [][Next]_<<config, state, server, step>>
=============================================================================
