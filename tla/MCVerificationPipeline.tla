---- MODULE MCVerificationPipeline ----
(* Instances of VerificationPipeline for TLC.  Deliveries are interchangeable. *)
EXTENDS VerificationPipeline, TLC

Symmetry == Permutations(Run)

EveryShape == AllShapes
TextShape == {{"text"}}
UrlShape == {{"url", "text"}}
ImageShape == {{"image", "text"}}
MediaShapes == {{"image"}, {"image", "text"}, {"video"}, {"video", "text"}}

EveryStage == Stage
FewStages == {"NORMALIZING", "EXTRACTING_CONTENT", "ANALYZING_MEDIA",
              "EXTRACTING_CLAIMS", "RETRIEVING_EVIDENCE",
              "SCORING", "GENERATING_REPORT"}
====
