------------------------------ MODULE DataStore ------------------------------
(***************************************************************************)
(* One SQL transaction of update() moves the chain, the balances, the      *)
(* holders of tokens and the names together, and the index-progress        *)
(* message follows it: the composition of Balances, Names (with            *)
(* NftCustody) and IndexProgress over one ChainStore.  Each of their       *)
(* actions conjoins the same ChainStore step.                              *)
(***************************************************************************)
EXTENDS Balances, NameReads, IndexProgress

dvars == <<vars, balance, balanceWork, custody, custodyWork, nvars, iState>>

DInit == BInit /\ NmInit /\ IInit

DBeginUpdate(b) == BBeginUpdate(b) /\ NmBeginUpdate(b) /\ IBeginUpdate(b)

DRestoreOrphanedChain ==
  BRestoreOrphanedChain /\ NmRestoreOrphanedChain /\ IRestoreOrphanedChain

DCommitUpdate == BCommitUpdate /\ NmCommitUpdate /\ ICommitUpdate

DAbortUpdate == BAbortUpdate /\ NmAbortUpdate /\ IAbortUpdate

DNotify ==
  Notify /\ UNCHANGED <<balance, balanceWork, custody, custodyWork, nvars>>

DLoseMessage ==
  LoseMessage /\ UNCHANGED <<balance, balanceWork, custody, custodyWork, nvars>>

DUpdateAttachments(b) ==
  /\ outbox = NoMessage
  /\ NmUpdateAttachments(b)
  /\ UNCHANGED <<balance, balanceWork, iState>>

DNext ==
  \/ \E b \in Block : DBeginUpdate(b)
  \/ DRestoreOrphanedChain
  \/ DCommitUpdate
  \/ DAbortUpdate
  \/ DNotify
  \/ DLoseMessage
  \/ \E b \in Block : DUpdateAttachments(b)

\* An update that runs goes on.
DFairness == WF_dvars(DRestoreOrphanedChain) /\ WF_dvars(DCommitUpdate)

DSpec == DInit /\ [][DNext]_dvars /\ DFairness

=============================================================================
