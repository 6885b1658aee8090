------------------------- MODULE MCImageEnhanceTask -------------------------
(* A small instance of ImageEnhanceTask: two online steps that cost the same capability, *)
(* the second may be skipped; an online and a local step; an empty pipeline.             *)
EXTENDS ImageEnhanceTask

MCPipelines ==
  {<<[type |-> "document_rectify_enhance", skip |-> FALSE], [type |-> "doc_crop_enhance", skip |-> TRUE]>>,
   <<[type |-> "remove_moire", skip |-> FALSE], [type |-> "doc_repair", skip |-> FALSE]>>,
   <<[type |-> "crop", skip |-> FALSE]>>,
   <<>>}
=============================================================================
