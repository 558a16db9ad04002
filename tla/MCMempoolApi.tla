---------------------------- MODULE MCMempoolApi ----------------------------
(***************************************************************************)
(* The instance of MCMempool with its readers.                             *)
(***************************************************************************)
EXTENDS MCMempool, MempoolApi
=============================================================================
