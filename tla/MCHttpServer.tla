---------------------------- MODULE MCHttpServer ----------------------------
(***************************************************************************)
(* Instances of HttpServer for TLC.  Four jobs differ in what batching     *)
(* tells apart: the questions they weigh, the requests they bring and the  *)
(* flaw the predictor finds in them.                                       *)
(***************************************************************************)
EXTENDS HttpServer

CONSTANTS plain, wide, badInput, fatal

MCQuestions ==
  [j \in Jobs |-> IF j \in {wide, fatal} THEN 2 ELSE 1]

MCRequests ==
  [j \in Jobs |-> IF j = wide THEN 2 ELSE 1]

MCFlaw ==
  [j \in Jobs |-> IF j = badInput THEN "input"
                  ELSE IF j = fatal THEN "internal" ELSE "none"]
=============================================================================
