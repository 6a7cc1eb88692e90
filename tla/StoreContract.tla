---------------------------- MODULE StoreContract ----------------------------
(***************************************************************************)
(* What ReviewStore promises to the rest of the system: a review is saved     *)
(* whole or not at all, and the last save of a thread is what is stored.       *)
(***************************************************************************)
EXTENDS Sequences, Naturals

CONSTANTS Threads, States

VARIABLE saved \* [Threads -> the findings saved with their count, or NothingSaved]

NothingSaved == [count |-> 0, findings |-> <<>>, exists |-> FALSE]

ContractInit == saved = [t \in Threads |-> NothingSaved]

Save(t, findings) ==
  saved' = [saved EXCEPT ![t] = [count |-> Len(findings), findings |-> findings,
                                 exists |-> TRUE]]

ContractSpec ==
  ContractInit /\ [][\E t \in Threads, findings \in States : Save(t, findings)]_saved
=============================================================================
