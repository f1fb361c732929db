---------------------------- MODULE MCEventStream ----------------------------
(***************************************************************************)
(* EventStream with the batches the code appends: a claim, a completed     *)
(* stage, the stage that opens the review (two events), a failure, and an  *)
(* approval (two events).                                                  *)
(***************************************************************************)
EXTENDS EventStream

MCBatches == {<<"stage_started">>,
              <<"stage_completed", "awaiting_human_review">>,
              <<"stage_failed">>,
              <<"human_approved", "run_finalized">>}

MCTerminal == {"stage_failed", "run_finalized"}
=============================================================================
