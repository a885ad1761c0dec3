--------------------------- MODULE BatchContract ----------------------------
(***************************************************************************)
(* What schedule() promises to its callers, with nothing of how: one batch *)
(* at a time, the waiting ones in the order they came, a promise that is   *)
(* rejected only before its batch has started, and otherwise resolved once *)
(* with one result per call.                                               *)
(***************************************************************************)
EXTENDS Naturals, SequencesExt

CONSTANTS Calls, Requests, BatchOf

VARIABLES promise, waiting, results

contractVars == <<promise, waiting, results>>

Running == {r \in Requests : promise[r] = "running"}

ContractInit ==
  /\ promise = [r \in Requests |-> "new"]
  /\ waiting = <<>>
  /\ results = [c \in Calls |-> 0]

Begin(r) ==
  /\ promise[r] = "new" /\ Running = {} /\ waiting = <<>>
  /\ promise' = [promise EXCEPT ![r] = "running"]
  /\ UNCHANGED <<waiting, results>>

Wait(r) ==
  /\ promise[r] = "new" /\ Running # {}
  /\ promise' = [promise EXCEPT ![r] = "queued"]
  /\ waiting' = Append(waiting, r)
  /\ UNCHANGED results

Refuse(r) ==
  /\ promise[r] = "new" /\ Running # {}
  /\ promise' = [promise EXCEPT ![r] = "rejected"]
  /\ UNCHANGED <<waiting, results>>

\* t is what remains of s without the elements of S, in the order of s.
Remains(t, s, S) ==
  \E at \in [DOMAIN t -> DOMAIN s] :
    /\ \A i, j \in DOMAIN t : i < j => at[i] < at[j]
    /\ \A i \in DOMAIN t : t[i] = s[at[i]] /\ t[i] \notin S
    /\ \A k \in DOMAIN s : s[k] \notin S => \E i \in DOMAIN t : at[i] = k

\* Some of the waiting requests are given up.
Drop(S) ==
  /\ S # {} /\ S \subseteq ToSet(waiting)
  /\ promise' = [r \in Requests |-> IF r \in S THEN "rejected" ELSE promise[r]]
  /\ waiting' \in Seq(Requests)
  /\ Remains(waiting', waiting, S)
  /\ UNCHANGED results

\* A batch ends, and the first one waiting begins in its place.
Resolve(r) ==
  /\ r \in Running
  /\ results' = [c \in Calls |-> IF c \in ToSet(BatchOf[r]) THEN 1 ELSE results[c]]
  /\ LET ended == [promise EXCEPT ![r] = "resolved"]
     IN  \/ /\ waiting = <<>>
            /\ promise' = ended
            /\ UNCHANGED waiting
         \/ /\ waiting # <<>>
            /\ promise' = [ended EXCEPT ![Head(waiting)] = "running"]
            /\ waiting' = Tail(waiting)

ContractNext ==
  \/ \E r \in Requests : Begin(r) \/ Wait(r) \/ Refuse(r) \/ Resolve(r)
  \/ \E S \in SUBSET Requests : Drop(S)

Contract == ContractInit /\ [][ContractNext]_contractVars
=============================================================================
