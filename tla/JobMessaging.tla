---------------------------- MODULE JobMessaging ----------------------------
(***************************************************************************)
(* What the STOMP daemon promises about the command messages it is sent:   *)
(* at every moment somebody is responsible for a posted message.  It is    *)
(* the broker (which has not seen an acknowledgement and will deliver it   *)
(* again), or the daemon's message store on disk (a complete file in the   *)
(* inbox, or a saved response in the outbox), or nobody any more because a *)
(* response has been sent.  StompDaemon implements this specification.     *)
(***************************************************************************)
CONSTANT Messages

VARIABLES owed,      \* posted messages the broker has not seen acknowledged
          stored,    \* messages the daemon's store can answer after a crash
          answered   \* messages a response has been sent for

vars == <<owed, stored, answered>>

TypeOK ==
  /\ owed \subseteq Messages
  /\ stored \subseteq Messages
  /\ answered \subseteq Messages

Init ==
  /\ owed = {}
  /\ stored = {}
  /\ answered = {}

(* A client sends a command to the JOBS destination. *)
Post(m) ==
  /\ m \notin owed
  /\ owed' = owed \cup {m}
  /\ UNCHANGED <<stored, answered>>

(* The daemon stores a message that the broker may still deliver again; a  *)
(* second delivery of an answered message stores it again.                 *)
Store(m) ==
  /\ m \in owed
  /\ stored' = stored \cup {m}
  /\ UNCHANGED <<owed, answered>>

(* The broker forgets the message: only if it is stored or answered. *)
Ack(m) ==
  /\ m \in owed
  /\ m \in stored \cup answered
  /\ owed' = owed \ {m}
  /\ UNCHANGED <<stored, answered>>

(* A response is sent for a stored or already answered message; the store  *)
(* may be cleaned by a later step.                                         *)
Answer(m) ==
  /\ m \in stored \cup answered
  /\ answered' = answered \cup {m}
  /\ UNCHANGED <<owed, stored>>

(* The store lets go of a message that is somebody else's responsibility:  *)
(* it has been answered, or the broker still owes it.                      *)
Forget(m) ==
  /\ m \in stored
  /\ m \in answered \cup owed
  /\ stored' = stored \ {m}
  /\ UNCHANGED <<owed, answered>>

Next ==
  \E m \in Messages : Post(m) \/ Store(m) \/ Ack(m) \/ Answer(m) \/ Forget(m)

Spec == Init /\ [][Next]_vars
=============================================================================
