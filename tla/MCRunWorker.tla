---------------------------- MODULE MCRunWorker ----------------------------
(***************************************************************************)
(* Small instances of RunWorker: one conversation run, without tools.      *)
(***************************************************************************)
EXTENDS RunWorker, TLC

CONSTANTS r1, w1, w2, q1

NoTools == [t \in {} |-> r1]
FlatParent == [r \in Run |-> NoRun]
FlatDeps == [r \in Run |-> {}]
FlatMode == [r \in Run |-> "required"]
OneThread == [r \in Run |-> "thread"]
=============================================================================
