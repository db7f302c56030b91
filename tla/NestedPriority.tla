--------------------------- MODULE NestedPriority ---------------------------
(***************************************************************************)
(* What an interrupt controller with fixed, nested priorities promises:    *)
(* requests are latched until they are served or withdrawn, the            *)
(* highest-ranked unmasked request is served first, and a service is       *)
(* interrupted only by one that outranks it.  The cascaded pair of         *)
(* module Pic implements this specification (src/pic.rs, the comment on    *)
(* next_irq).                                                              *)
(***************************************************************************)
EXTENDS Integers

CONSTANTS
  Request,    \* the interrupt requests
  Priority    \* the rank of each: the smaller goes first

VARIABLES
  requested,  \* latched and not yet served
  inService,  \* served and not yet ended
  masked      \* requests the software keeps from being served

vars == <<requested, inService, masked>>

Init == requested = {} /\ inService = {} /\ masked = {}

Latch(r) ==
  /\ requested' = requested \cup {r}
  /\ UNCHANGED <<inService, masked>>

Serve(r) ==
  /\ r \in requested \ masked
  /\ \A other \in requested \ masked : Priority[r] <= Priority[other]
  /\ \A s \in inService : Priority[r] < Priority[s]
  /\ requested' = requested \ {r}
  /\ inService' = inService \cup {r}
  /\ UNCHANGED masked

End(ended) ==
  /\ inService' = inService \ ended
  /\ UNCHANGED <<requested, masked>>

SetMask(m) ==
  /\ masked' = m
  /\ UNCHANGED <<requested, inService>>

\* Re-initialising part of the controller forgets its requests and services.
Reset(part) ==
  /\ requested' = requested \ part
  /\ inService' = inService \ part
  /\ UNCHANGED masked

Next ==
  \/ \E r \in Request : Latch(r) \/ Serve(r)
  \/ \E s \in SUBSET Request : End(s) \/ SetMask(s) \/ Reset(s)

Spec == Init /\ [][Next]_vars
=============================================================================
