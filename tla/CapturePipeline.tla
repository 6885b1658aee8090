--------------------------- MODULE CapturePipeline ---------------------------
(***************************************************************************)
(* What a processing worker does with one captured picture: the stages of  *)
(* CapturePipelineService::Run (application/capture_pipeline_service.cpp)  *)
(* and the enhancement that RunProcessingPipeline adds to them             *)
(* (application/capture_task_service.cpp).  CaptureTask sees all of it as  *)
(* one step with an outcome.                                               *)
(*                                                                         *)
(* The image providers are outside the repository.  They may refuse, fail, *)
(* or split the picture into pages, named as they like or not at all; a    *)
(* file they say they wrote is taken to be there.  The picture is always   *)
(* captured before the pipeline runs (RunCaptureTask), so that CaptureRaw  *)
(* only stages it and never asks the device.                               *)
(*                                                                         *)
(* A file's content is the page it shows: 0 is the whole picture, k the    *)
(* k-th output of the page provider.                                       *)
(***************************************************************************)
EXTENDS Naturals, Sequences

CONSTANTS
  MaxOutputs,  \* bound on the outputs of a page provider, for model checking
  MaxSteps     \* bound on the enabled steps of the enhancement pipeline

ASSUME PipelineAssumption == MaxOutputs \in Nat \ {0} /\ MaxSteps \in Nat

Whole == 0
Unnamed == 0
Single == 0      \* the suffix of an id when there is one page only: none
Nothing == MaxOutputs + 1

ThumbnailTargets == {"original", "page_processed", "color_processed", "final"}

\* An asset is named by its kind and its page; its file has a name of the same form, and
\* the page provider chooses names of its own.
Id(kind, page) == <<kind, page>>
Ids == {Id(kind, page) : kind \in ThumbnailTargets \cup {"thumbnail-original", "thumbnail-page",
          "thumbnail-color", "thumbnail-final", "provider"}, page \in 0..MaxOutputs}

VARIABLES
  thumbnails,  \* thumbnail_... of the profile
  hasSteps,    \* does request.pipeline have steps?  They may all be disabled.
  steps,       \* its enabled steps that have not run
  at,          \* where the worker is
  listed,      \* the outputs of the page provider that have not been looked at
  ofOne,       \* did the page provider give exactly one output?
  outputs,     \* page_outputs_
  n,           \* the output in work
  files,       \* the output directory
  assets,      \* assets_
  named,       \* assets that a finished stage names as its input or output
  code,        \* code of the result
  status,      \* status of the result
  given        \* the assets handed to the enhancement provider: first, and what is left of them

profile == <<thumbnails, hasSteps, steps>>
result == <<code, status>>
vars == <<profile, at, listed, ofOne, outputs, n, files, assets, named, result, given>>

Init ==
  /\ thumbnails \in SUBSET ThumbnailTargets
  /\ hasSteps \in BOOLEAN
  /\ steps \in 0..MaxSteps /\ (steps > 0 => hasSteps)
  /\ at = "capture_raw"
  /\ listed = <<>> /\ ofOne = FALSE
  /\ outputs = <<>> /\ n = 1
  /\ files = [f \in Ids |-> Nothing]
  /\ assets = <<>> /\ named = {}
  /\ code = "ok" /\ status = "succeeded"
  /\ given = [first |-> <<>>, now |-> <<>>]

\* An asset with a known id takes the other's place.
AddAsset(list, id, file) ==
  LET new == [id |-> id, file |-> file] IN
  IF \E i \in DOMAIN list : list[i].id = id
  THEN [i \in DOMAIN list |-> IF list[i].id = id THEN new ELSE list[i]]
  ELSE Append(list, new)

AssetIds == {assets[i].id : i \in DOMAIN assets}

Fail(c) == at' = "enhance" /\ status' = "failed" /\ code' = c

-----------------------------------------------------------------------------
CaptureRaw ==
  /\ at = "capture_raw"
  /\ at' = "original_thumbnail"
  /\ files' = [files EXCEPT ![Id("original", Single)] = Whole]
  /\ assets' = AddAsset(assets, Id("original", Single), Id("original", Single))
  /\ named' = named \cup {Id("original", Single)}
  /\ UNCHANGED <<profile, listed, ofOne, outputs, n, result, given>>

\* The captured picture, or the laser picture, is not there or cannot be copied.
CaptureRawFails ==
  /\ at = "capture_raw"
  /\ Fail("error")
  /\ UNCHANGED <<profile, listed, ofOne, outputs, n, files, assets, named, given>>

\* A thumbnail is made by the provider, or else is a copy of its input, or else is left out.
GenerateThumbnail(target, input, inputFile, thumbnail) ==
  IF target \notin thumbnails
  THEN UNCHANGED <<files, assets, named>>
  ELSE \/ /\ files' = [files EXCEPT ![thumbnail] = files[inputFile]]
          /\ assets' = AddAsset(assets, thumbnail, thumbnail)
          /\ named' = named \cup {input, thumbnail}
       \/ /\ named' = named \cup {input}
          /\ UNCHANGED <<files, assets>>

OriginalThumbnail ==
  /\ at = "original_thumbnail"
  /\ GenerateThumbnail("original", Id("original", Single), Id("original", Single),
                       Id("thumbnail-original", Single))
  /\ at' = "page_process"
  /\ UNCHANGED <<profile, listed, ofOne, outputs, n, result, given>>

Output(id, page, file, pic) ==
  [id |-> id, page |-> page, pageFile |-> file, color |-> file, final |-> file, pic |-> pic]

\* Without a page provider, or when it refuses or fails, the picture is the page.
PageFallback ==
  /\ at = "page_process"
  /\ LET page == Id("page_processed", Single) IN
       /\ outputs' = <<Output(1, page, Id("original", Single), Whole)>>
       /\ assets' = AddAsset(assets, page, Id("original", Single))
       /\ named' = named \cup {Id("original", Single), page}
  /\ at' = "page_thumbnail"
  /\ UNCHANGED <<profile, listed, ofOne, n, files, result, given>>

\* The provider lists its pages, some perhaps without a file; if it lists none, there is one
\* under the name that was asked for.
ProcessPage ==
  /\ at = "page_process"
  /\ \E k \in 1..MaxOutputs :
       \E list \in [1..k -> [name : Unnamed..MaxOutputs, hasFile : BOOLEAN]] :
         /\ listed' = [i \in 1..k |-> [name |-> list[i].name, hasFile |-> list[i].hasFile, pic |-> i]]
         /\ ofOne' = (k = 1)
         /\ files' = [f \in Ids |-> IF \E i \in 1..k : list[i].hasFile /\ f = Id("provider", i)
                                    THEN f[2] ELSE files[f]]
  /\ at' = "pages"
  /\ UNCHANGED <<profile, outputs, n, assets, named, result, given>>

\* An output whose name has no letter or digit is named by its place among those that have
\* a file; names here are what is left of the provider's.
SanitizeAssetToken(name, place) == IF name = Unnamed THEN place ELSE name

PageSuffix(id) == IF ofOne THEN Single ELSE id

AddPageOutputFromProvider ==
  /\ at = "pages" /\ listed # <<>>
  /\ listed' = Tail(listed)
  /\ LET out == Head(listed)
         id == SanitizeAssetToken(out.name, Len(outputs) + 1)
         page == Id("page_processed", PageSuffix(id))
         file == Id("provider", out.pic)
     IN  IF out.hasFile
         THEN /\ outputs' = Append(outputs, Output(id, page, file, out.pic))
              /\ assets' = AddAsset(assets, page, file)
         ELSE UNCHANGED <<outputs, assets>>
  /\ UNCHANGED <<profile, at, ofOne, n, files, named, result, given>>

PageProcessEnds ==
  /\ at = "pages" /\ listed = <<>>
  /\ IF outputs = <<>>
     THEN /\ Fail("error")
          /\ UNCHANGED named
     ELSE /\ at' = "page_thumbnail"
          /\ named' = named \cup {Id("original", Single)}
                            \cup {outputs[i].page : i \in DOMAIN outputs}
          /\ UNCHANGED result
  /\ UNCHANGED <<profile, listed, ofOne, outputs, n, files, assets, given>>

-----------------------------------------------------------------------------
(* ProcessOutputWorkflow, for each output in turn.                         *)

Suffix == IF Len(outputs) <= 1 THEN Single ELSE outputs[n].id

PageThumbnail ==
  /\ at = "page_thumbnail"
  /\ GenerateThumbnail("page_processed", outputs[n].page, outputs[n].pageFile,
                       Id("thumbnail-page", Suffix))
  /\ at' = "color_mode"
  /\ UNCHANGED <<profile, listed, ofOne, outputs, n, result, given>>

\* Mutant: the stage names the page by the number of pages, not by the id it was given.
ApplyColorModeByCount ==
  /\ at = "color_mode"
  /\ LET color == Id("color_processed", Suffix) IN
       /\ outputs' = [outputs EXCEPT ![n].color = color]
       /\ files' = [files EXCEPT ![color] = files[outputs[n].pageFile]]
       /\ assets' = AddAsset(assets, color, outputs'[n].color)
       /\ named' = named \cup {Id("page_processed", Suffix), color}
  /\ at' = "color_thumbnail"
  /\ UNCHANGED <<profile, listed, ofOne, n, result, given>>

\* When the provider refuses or fails, the page stays as it is.
ApplyColorMode ==
  /\ at = "color_mode"
  /\ LET color == Id("color_processed", Suffix) IN
       /\ \/ /\ outputs' = [outputs EXCEPT ![n].color = color]
             /\ files' = [files EXCEPT ![color] = files[outputs[n].pageFile]]
          \/ /\ outputs' = [outputs EXCEPT ![n].color = outputs[n].pageFile]
             /\ UNCHANGED files
       /\ assets' = AddAsset(assets, color, outputs'[n].color)
       /\ named' = named \cup {outputs[n].page, color}
  /\ at' = "color_thumbnail"
  /\ UNCHANGED <<profile, listed, ofOne, n, result, given>>

ColorThumbnail ==
  /\ at = "color_thumbnail"
  /\ GenerateThumbnail("color_processed", Id("color_processed", Suffix), outputs[n].color,
                       Id("thumbnail-color", Suffix))
  /\ at' = "format_convert"
  /\ UNCHANGED <<profile, listed, ofOne, outputs, n, result, given>>

\* Mutant: every page is converted to the file of a single one.
FormatConvertToOneFile ==
  /\ at = "format_convert"
  /\ outputs' = [outputs EXCEPT ![n].final = Id("final", Single)]
  /\ files' = [files EXCEPT ![Id("final", Single)] = files[outputs[n].color]]
  /\ assets' = AddAsset(assets, Id("final", Suffix), outputs'[n].final)
  /\ named' = named \cup {Id("color_processed", Suffix), Id("final", Suffix)}
  /\ at' = "final_thumbnail"
  /\ UNCHANGED <<profile, listed, ofOne, n, result, given>>

\* A file that has the format, size and quality already is passed through.
FormatConvert ==
  /\ at = "format_convert"
  /\ LET final == Id("final", Suffix) IN
       /\ \/ /\ outputs' = [outputs EXCEPT ![n].final = outputs[n].color]
             /\ UNCHANGED files
          \/ /\ outputs' = [outputs EXCEPT ![n].final = final]
             /\ files' = [files EXCEPT ![final] = files[outputs[n].color]]
       /\ assets' = AddAsset(assets, final, outputs'[n].final)
       /\ named' = named \cup {Id("color_processed", Suffix), final}
  /\ at' = "final_thumbnail"
  /\ UNCHANGED <<profile, listed, ofOne, n, result, given>>

\* The result takes the provider's code, which is Ok when it answers "not converted".
FormatConvertFails ==
  /\ at = "format_convert"
  /\ \E c \in {"ok", "error"} : Fail(c)
  /\ named' = named \cup {Id("color_processed", Suffix)}
  /\ UNCHANGED <<profile, listed, ofOne, outputs, n, files, assets, given>>

FinalThumbnail ==
  /\ at = "final_thumbnail"
  /\ GenerateThumbnail("final", Id("final", Suffix), outputs[n].final,
                       Id("thumbnail-final", Suffix))
  /\ n' = n + 1
  /\ at' = IF n = Len(outputs) THEN "finalize_result" ELSE "page_thumbnail"
  /\ UNCHANGED <<profile, listed, ofOne, outputs, result, given>>

FinalizeResult ==
  /\ at = "finalize_result"
  /\ at' = "enhance"
  /\ code' = "ok" /\ status' = "succeeded"
  /\ UNCHANGED <<profile, listed, ofOne, outputs, n, files, assets, named, given>>

-----------------------------------------------------------------------------
(* RunProcessingPipeline                                                   *)

\* The kinds that are, or begin with, "final": the thumbnails of the converted pages
\* (final_thumbnail) are taken for pages too.
FinalKinds == {"final", "thumbnail-final"}

\* A loop over a list of assets: what it collects of the first i, a value for each asset of
\* some kinds.
CollectUpTo(list, kinds, value) ==
  LET collected[i \in 0..Len(list)] ==
        IF i = 0 THEN <<>>
        ELSE IF list[i].id[1] \in kinds THEN Append(collected[i - 1], value[i])
        ELSE collected[i - 1]
  IN  collected
Collect(list, kinds, value) == CollectUpTo(list, kinds, value)[Len(list)]

FinalPages == Collect(assets, FinalKinds, assets)

\* It is the code that decides, not the status.
SkipEnhance ==
  /\ at = "enhance"
  /\ code # "ok" \/ ~hasSteps \/ FinalPages = <<>>
  /\ at' = "done"
  /\ UNCHANGED <<profile, listed, ofOne, outputs, n, files, assets, named, result, given>>

BeginEnhance ==
  /\ at = "enhance"
  /\ code = "ok" /\ hasSteps /\ FinalPages # <<>>
  /\ given' = [first |-> FinalPages, now |-> FinalPages]
  /\ at' = "enhancing"
  /\ UNCHANGED <<profile, listed, ofOne, outputs, n, files, assets, named, result>>

\* A step may drop pages (blank ones), even all of them; the others keep their place.
RunStep ==
  /\ at = "enhancing" /\ steps > 0
  /\ steps' = steps - 1
  /\ \E blank \in SUBSET {given.now[i] : i \in DOMAIN given.now} :
       given' = [given EXCEPT !.now = SelectSeq(@, LAMBDA page : page \notin blank)]
  /\ UNCHANGED <<thumbnails, hasSteps, at, listed, ofOne, outputs, n, files, assets, named, result>>

\* on_error "skip": the pages stay what they were.
SkipStep ==
  /\ at = "enhancing" /\ steps > 0
  /\ steps' = steps - 1
  /\ UNCHANGED <<thumbnails, hasSteps, at, listed, ofOne, outputs, n, files, assets, named, result, given>>

\* A step failed, or nothing is left: the assets of the stages are kept.
EnhanceFails ==
  /\ at = "enhancing"
  /\ steps > 0 \/ given.now = <<>>
  /\ steps' = 0
  /\ at' = "done"
  /\ code' = "error" /\ status' = "failed"
  /\ UNCHANGED <<thumbnails, hasSteps, listed, ofOne, outputs, n, files, assets, named, given>>

\* Mutant: enhanced pages make up for a conversion that failed.
EnhanceSucceeds ==
  /\ at = "enhancing" /\ steps = 0 /\ given.now # <<>>
  /\ at' = "done"
  /\ status' = "succeeded"
  /\ assets' = [i \in DOMAIN given.now |-> [id |-> Id("enhanced", i), file |-> Id("enhanced", i)]]
  /\ UNCHANGED <<profile, listed, ofOne, outputs, n, files, named, code, given>>

\* The enhanced pages take the place of all assets; the status stays what it was.
EnhanceEnds ==
  /\ at = "enhancing" /\ steps = 0 /\ given.now # <<>>
  /\ at' = "done"
  /\ assets' = [i \in DOMAIN given.now |-> [id |-> Id("enhanced", i), file |-> Id("enhanced", i)]]
  /\ UNCHANGED <<profile, listed, ofOne, outputs, n, files, named, result, given>>

Next ==
  \/ CaptureRaw \/ CaptureRawFails \/ OriginalThumbnail
  \/ PageFallback \/ ProcessPage \/ AddPageOutputFromProvider \/ PageProcessEnds
  \/ PageThumbnail \/ ApplyColorMode \/ ColorThumbnail
  \/ FormatConvert \/ FormatConvertFails \/ FinalThumbnail \/ FinalizeResult
  \/ SkipEnhance \/ BeginEnhance \/ RunStep \/ SkipStep \/ EnhanceFails \/ EnhanceEnds

Spec == Init /\ [][Next]_vars

-----------------------------------------------------------------------------
\* Are the pages told apart once their names are sanitized?
Distinct == \A i, j \in DOMAIN outputs : outputs[i].id = outputs[j].id => i = j

Pictures == [i \in DOMAIN outputs |-> outputs[i].pic]

\* What a list of assets delivers: the pictures its pages show, thumbnails left aside.
PagesOf(list, content) ==
  Collect(list, {"final"}, [i \in 1..Len(list) |-> content[list[i].file]])

\* A capture that is reported as succeeded delivers every page: its final assets are the
\* pages of the page provider, each with its own picture and in their order, whatever was
\* converted, passed through or fell back on the way.  Providers whose names collide when
\* sanitized are excepted: AddAsset would let one page take the other's place.
SucceededDeliversPages ==
  at = "enhance" /\ status = "succeeded" /\ Distinct => PagesOf(assets, files) = Pictures

\* An enhanced capture that is reported as succeeded was made of all its pages, each once
\* and in their order: one whose conversion was refused half-way with code Ok goes through
\* the enhancement with the pages before, and must stay failed.  Between the pages the
\* provider is also given their thumbnails, where the profile has them made.
EnhancedFromAllPages ==
  at = "done" /\ status = "succeeded" /\ Distinct /\ given.first # <<>>
    => PagesOf(given.first, files) = Pictures

\* Until the enhancement replaces the assets, whatever a finished stage names as an input or
\* an output is an asset of the result: the ids of the page stage, which go by the number of
\* pages the provider listed, and those of the later stages, which go by the number that had
\* a file, are never mixed up.
StagesNameAssets ==
  at # "done" => named \subseteq AssetIds
=============================================================================
