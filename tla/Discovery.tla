------------------------------ MODULE Discovery ------------------------------
(***************************************************************************)
(* What WS-Discovery promises its caller (wsd_probe.h), whatever the       *)
(* network does: a list that only grows, of addresses that answered, each  *)
(* of them once; and it reports a failure only when a system call failed.  *)
(***************************************************************************)
EXTENDS Sequences

CONSTANT Hosts    \* the addresses of the network

VARIABLES
  found,      \* the list, in the order of the answers
  answered,   \* the addresses that have got a probe, and answer it
  faulty,     \* a system call has a reason to fail
  result      \* "none", "true", "false"

dvars == <<found, answered, faulty, result>>

Found == {found[k] : k \in DOMAIN found}

Init == found = <<>> /\ answered = {} /\ faulty = FALSE /\ result = "none"

Answer(H) == /\ answered' = answered \cup H
             /\ UNCHANGED <<found, faulty, result>>

List(h) == /\ result = "none"
           /\ h \in answered \ Found
           /\ found' = Append(found, h)
           /\ UNCHANGED <<answered, faulty, result>>

Fault == /\ faulty' = TRUE
         /\ UNCHANGED <<found, answered, result>>

Return == /\ result = "none"
          /\ \/ result' = "true"
             \/ result' = "false" /\ faulty
          /\ UNCHANGED <<found, answered, faulty>>

Next == \/ Fault \/ Return
        \/ \E H \in SUBSET Hosts : Answer(H)
        \/ \E h \in Hosts : List(h)

Spec == Init /\ [][Next]_dvars
=============================================================================
