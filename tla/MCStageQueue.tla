----------------------------- MODULE MCStageQueue -----------------------------
(***************************************************************************)
(* StageQueue on one run whose topology keeps the shape of STAGE_SEQUENCE: *)
(* a preparation stage that may fail, the two review blocks that share a   *)
(* stage_order, and the stages that open and close the human review.       *)
(***************************************************************************)
EXTENDS StageQueue, TLC

MCStage == {"parse_ocr_normalize", "harvey_review_block", "kira_review_block",
            "awaiting_human_review", "finalized"}

MCOrder == [s \in MCStage |->
               CASE s = "parse_ocr_normalize"   -> 3
                 [] s = "harvey_review_block"   -> 7
                 [] s = "kira_review_block"     -> 7
                 [] s = "awaiting_human_review" -> 9
                 [] s = "finalized"             -> 10]

\* Harvey's body catches its own errors; the others raise into retry_stage.
MCFallible == {"parse_ocr_normalize", "kira_review_block"}
MCBlocking == {"kira_review_block"}

AllOps == Request
RetryOps == {"retry"}
CancelOps == {"cancel"}

Symmetry == Permutations(Worker) \cup Permutations(Client)
=============================================================================
