---------------------------- MODULE MCAnswerSuite ----------------------------
(* One question for the smoke stage, of the two of the full one.             *)
EXTENDS AnswerSuite
CONSTANTS f1, f2
MCLimit == [smoke |-> 1, full |-> 2]
=============================================================================
