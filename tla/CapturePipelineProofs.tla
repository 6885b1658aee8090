----------------------- MODULE CapturePipelineProofs -----------------------
(***************************************************************************)
(* Proofs about CapturePipeline, for any number of pages and of steps: a   *)
(* stage names only assets that the result holds, and a capture that       *)
(* succeeds delivers every page.                                           *)
(***************************************************************************)
EXTENDS CapturePipeline, SequenceTheorems, WellFoundedInduction, TLAPS

Kinds == ThumbnailTargets \cup {"thumbnail-original", "thumbnail-page", "thumbnail-color",
                                "thumbnail-final", "provider"}
Name == Kinds \X Nat
Asset == [id : Name, file : Name]
OutputRecord == [id : Nat, page : Name, pageFile : Name, color : Name, final : Name, pic : Nat]
Listed == [name : Nat, hasFile : BOOLEAN, pic : Nat]

Staged == {"original_thumbnail", "page_process", "pages"}
Working == {"page_thumbnail", "color_mode", "color_thumbnail", "format_convert",
            "final_thumbnail"}

TypeInv ==
  /\ assets \in Seq(Asset)
  /\ outputs \in Seq(OutputRecord)
  /\ listed \in Seq(Listed)
  /\ n \in Nat \ {0}

\* Ids only join the assets, until the enhancement replaces them all.
HeldInv ==
  /\ named \subseteq AssetIds
  /\ at \in Staged \cup Working => Id("original", Single) \in AssetIds
  /\ \A i \in DOMAIN outputs : outputs[i].page \in AssetIds

\* What the next stage takes as its input.
InputInv ==
  /\ at \in {"capture_raw"} \cup Staged => n = 1
  /\ at \in Working => n \in DOMAIN outputs
  /\ at \in {"color_thumbnail", "format_convert"} => Id("color_processed", Suffix) \in AssetIds
  /\ at = "final_thumbnail" => Id("final", Suffix) \in AssetIds

Inv == at # "done" => TypeInv /\ HeldInv /\ InputInv

IdsOf(list) == {list[i].id : i \in DOMAIN list}
-----------------------------------------------------------------------------
\* AddAsset adds its id to those of the list and keeps the others.
LEMMA AddAssetIds ==
  ASSUME NEW list \in Seq(Asset), NEW id \in Name, NEW file \in Name
  PROVE  /\ AddAsset(list, id, file) \in Seq(Asset)
         /\ IdsOf(AddAsset(list, id, file)) = IdsOf(list) \cup {id}
  <1> DEFINE new == [id |-> id, file |-> file]
  <1>1. new \in Asset /\ new.id = id
    BY DEF Asset
  <1>2. CASE \E i \in DOMAIN list : list[i].id = id
    <2> DEFINE other == [i \in DOMAIN list |-> IF list[i].id = id THEN new ELSE list[i]]
    <2>1. AddAsset(list, id, file) = other
      BY <1>2 DEF AddAsset
    <2>2. DOMAIN list = 1..Len(list) /\ Len(list) \in Nat
      OBVIOUS
    <2>3. \A i \in DOMAIN list : other[i] \in Asset /\ other[i].id = list[i].id
      BY <1>1, <2>2
    <2>4. other \in Seq(Asset)
      BY <2>2, <2>3
    <2>5. IdsOf(other) = IdsOf(list) /\ id \in IdsOf(list)
      BY <1>2, <2>3 DEF IdsOf
    <2> QED
      BY <2>1, <2>4, <2>5
  <1>3. CASE ~\E i \in DOMAIN list : list[i].id = id
    <2> DEFINE longer == Append(list, new)
    <2>1. AddAsset(list, id, file) = longer
      BY <1>3 DEF AddAsset
    <2>2. /\ longer \in Seq(Asset)
          /\ DOMAIN longer = DOMAIN list \cup {Len(list) + 1}
          /\ longer[Len(list) + 1] = new
          /\ \A i \in DOMAIN list : longer[i] = list[i]
      BY <1>1
    <2>3. IdsOf(longer) = IdsOf(list) \cup {id}
      BY <1>1, <2>2 DEF IdsOf
    <2> QED
      BY <2>1, <2>2, <2>3
  <1> QED
    BY <1>2, <1>3

\* One more asset: nothing that is named is lost.
LEMMA OneMore ==
  ASSUME assets \in Seq(Asset), NEW id \in Name, NEW file \in Name,
         assets' = AddAsset(assets, id, file)
  PROVE  assets' \in Seq(Asset) /\ AssetIds' = AssetIds \cup {id}
  <1>1. assets' \in Seq(Asset) /\ IdsOf(assets') = IdsOf(assets) \cup {id}
    BY AddAssetIds
  <1>2. AssetIds = IdsOf(assets) /\ AssetIds' = IdsOf(assets')
    BY DEF AssetIds, IdsOf
  <1> QED
    BY <1>1, <1>2

\* Names are pairs of a kind and a number.
LEMMA Naming ==
  \A kind \in Kinds, page \in Nat : Id(kind, page) \in Name
  BY DEF Id, Name

\* A thumbnail names the input it was made of, which is an asset, and perhaps itself.
LEMMA ThumbnailKeeps ==
  ASSUME assets \in Seq(Asset), named \subseteq AssetIds,
         NEW target, NEW input \in AssetIds, NEW inputFile, NEW thumbnail \in Name,
         GenerateThumbnail(target, input, inputFile, thumbnail)
  PROVE  /\ assets' \in Seq(Asset)
         /\ AssetIds \subseteq AssetIds'
         /\ named' \subseteq AssetIds'
  <1>1. CASE assets' = AddAsset(assets, thumbnail, thumbnail) /\ named' = named \cup {input, thumbnail}
    BY <1>1, OneMore
  <1>2. CASE UNCHANGED assets /\ named' \subseteq named \cup {input}
    BY <1>2 DEF AssetIds
  <1> QED
    BY <1>1, <1>2 DEF GenerateThumbnail

LEMMA SuffixType ==
  ASSUME TypeInv, n \in DOMAIN outputs
  PROVE  Suffix \in Nat /\ outputs[n] \in OutputRecord
  <1>1. outputs[n] \in OutputRecord
    BY DEF TypeInv
  <1>2. outputs[n].id \in Nat
    BY <1>1 DEF OutputRecord
  <1> QED
    BY <1>1, <1>2 DEF Suffix, Single

\* An output that gets another file stays the same page.
LEMMA Rewritten ==
  ASSUME NEW list \in Seq(OutputRecord), NEW k \in DOMAIN list, NEW file \in Name, NEW other,
         other = [list EXCEPT ![k].color = file] \/ other = [list EXCEPT ![k].final = file]
  PROVE  /\ other \in Seq(OutputRecord) /\ DOMAIN other = DOMAIN list /\ Len(other) = Len(list)
         /\ \A i \in DOMAIN list : other[i].page = list[i].page /\ other[i].id = list[i].id
  <1>1. DOMAIN list = 1..Len(list) /\ Len(list) \in Nat /\ list[k] \in OutputRecord
    OBVIOUS
  <1>2. /\ [list[k] EXCEPT !.color = file] \in OutputRecord
        /\ [list[k] EXCEPT !.final = file] \in OutputRecord
    BY <1>1 DEF OutputRecord
  <1>3. DOMAIN other = DOMAIN list /\ \A i \in DOMAIN list : i # k => other[i] = list[i]
    BY <1>1
  <1>4. \/ other[k] = [list[k] EXCEPT !.color = file]
        \/ other[k] = [list[k] EXCEPT !.final = file]
    BY <1>1
  <1>5. other[k] \in OutputRecord /\ other[k].page = list[k].page /\ other[k].id = list[k].id
    BY <1>1, <1>2, <1>4 DEF OutputRecord
  <1>6. \A i \in 1..Len(list) : other[i] \in OutputRecord
    BY <1>1, <1>3, <1>5
  <1>7. other \in Seq(OutputRecord) /\ Len(other) = Len(list)
    <2>1. other = [i \in 1..Len(list) |-> other[i]]
      BY <1>1, <1>3
    <2> QED
      BY <1>1, <1>6, <2>1
  <1> QED
    BY <1>3, <1>5, <1>7

LEMMA InvInit == Init => Inv
  BY DEF Init, Inv, TypeInv, HeldInv, InputInv, AssetIds, Staged, Working

\* A step that leaves the tables alone and leads to no stage that takes an input.
LEMMA Elsewhere ==
  ASSUME Inv, at # "done", UNCHANGED <<listed, outputs, n, assets>>,
         named' = named, at' \notin {"capture_raw"} \cup Staged \cup Working
  PROVE  Inv'
  BY DEF Inv, TypeInv, HeldInv, InputInv, AssetIds, Working

LEMMA InvStep ==
  ASSUME Inv, [Next]_vars
  PROVE  Inv'
  <1> USE DEF Inv
  <1>1. CASE CaptureRaw
    <2>1. Id("original", Single) \in Name
      BY Naming DEF Kinds, ThumbnailTargets, Single
    <2>2. assets' \in Seq(Asset) /\ AssetIds' = AssetIds \cup {Id("original", Single)}
      BY <1>1, <2>1, OneMore DEF CaptureRaw, TypeInv
    <2> QED
      BY <1>1, <2>2 DEF CaptureRaw, TypeInv, HeldInv, InputInv, Working, Staged
  <1>2. CASE CaptureRawFails
    BY <1>2, Elsewhere DEF CaptureRawFails, Fail, Staged, Working
  <1>3. CASE OriginalThumbnail
    <2>1. Id("thumbnail-original", Single) \in Name
      BY Naming DEF Kinds, ThumbnailTargets, Single
    <2>2. /\ assets' \in Seq(Asset)
          /\ AssetIds \subseteq AssetIds'
          /\ named' \subseteq AssetIds'
      BY <1>3, <2>1, ThumbnailKeeps DEF OriginalThumbnail, TypeInv, HeldInv, Staged
    <2> QED
      BY <1>3, <2>2 DEF OriginalThumbnail, TypeInv, HeldInv, InputInv, Working, Staged
  <1>4. CASE PageFallback
    <2> DEFINE page == Id("page_processed", Single)
               original == Id("original", Single)
               out == Output(1, page, original, Whole)
    <2>1. page \in Name /\ original \in Name
      BY Naming DEF Kinds, ThumbnailTargets, Single
    <2>2. assets' \in Seq(Asset) /\ AssetIds' = AssetIds \cup {page}
      BY <1>4, <2>1, OneMore DEF PageFallback, TypeInv
    <2>3. out \in OutputRecord /\ out.page = page
      BY <2>1 DEF Output, OutputRecord, Whole
    <2>4. outputs' = <<out>> /\ named' = named \cup {original, page} /\ at' = "page_thumbnail"
      BY <1>4 DEF PageFallback
    <2>5. /\ outputs' \in Seq(OutputRecord) /\ DOMAIN outputs' = {1}
          /\ \A i \in DOMAIN outputs' : outputs'[i].page = page
      BY <2>3, <2>4
    <2> QED
      BY <1>4, <2>2, <2>4, <2>5 DEF PageFallback, TypeInv, HeldInv, InputInv, Working, Staged
  <1>5. CASE ProcessPage
    <2>1. listed' \in Seq(Listed)
      <3>1. PICK k \in 1..MaxOutputs : \E list \in [1..k -> [name : Unnamed..MaxOutputs, hasFile : BOOLEAN]] :
              listed' = [i \in 1..k |-> [name |-> list[i].name, hasFile |-> list[i].hasFile, pic |-> i]]
        BY <1>5 DEF ProcessPage
      <3>2. PICK list \in [1..k -> [name : Unnamed..MaxOutputs, hasFile : BOOLEAN]] :
              listed' = [i \in 1..k |-> [name |-> list[i].name, hasFile |-> list[i].hasFile, pic |-> i]]
        BY <3>1
      <3>3. k \in Nat /\ \A i \in 1..k : listed'[i] \in Listed
        BY <3>2, PipelineAssumption DEF Listed, Unnamed
      <3> QED
        BY <3>2, <3>3
    <2> QED
      BY <1>5, <2>1 DEF ProcessPage, TypeInv, HeldInv, InputInv, AssetIds, Working, Staged
  <1>6. CASE AddPageOutputFromProvider
    <2> DEFINE out == Head(listed)
               id == SanitizeAssetToken(out.name, Len(outputs) + 1)
               page == Id("page_processed", PageSuffix(id))
               file == Id("provider", out.pic)
               new == Output(id, page, file, out.pic)
    <2>1. out \in Listed /\ listed' \in Seq(Listed) /\ UNCHANGED <<n, named, at>> /\ at = "pages"
      BY <1>6 DEF AddPageOutputFromProvider, TypeInv
    <2>2. id \in Nat /\ page \in Name /\ file \in Name
      <3>1. id \in Nat /\ out.pic \in Nat /\ PageSuffix(id) \in Nat
        BY <2>1 DEF SanitizeAssetToken, Listed, PageSuffix, Single, TypeInv
      <3> QED
        BY <3>1, Naming DEF Kinds, ThumbnailTargets
    <2>3. CASE out.hasFile
      <3>1. outputs' = Append(outputs, new) /\ assets' = AddAsset(assets, page, file)
        BY <1>6, <2>3 DEF AddPageOutputFromProvider
      <3>2. assets' \in Seq(Asset) /\ AssetIds' = AssetIds \cup {page}
        BY <2>1, <2>2, <3>1, OneMore DEF TypeInv
      <3>3. new \in OutputRecord /\ new.page = page
        BY <2>1, <2>2 DEF Output, OutputRecord, Listed
      <3>4. outputs' \in Seq(OutputRecord) /\ \A i \in DOMAIN outputs' :
              outputs'[i].page = page \/ (i \in DOMAIN outputs /\ outputs'[i] = outputs[i])
        BY <2>1, <3>1, <3>3 DEF TypeInv
      <3> QED
        BY <2>1, <3>2, <3>4 DEF TypeInv, HeldInv, InputInv, Working, Staged
    <2>4. CASE ~out.hasFile
      <3>1. UNCHANGED <<outputs, assets>>
        BY <1>6, <2>4 DEF AddPageOutputFromProvider
      <3> QED
        BY <2>1, <3>1 DEF TypeInv, HeldInv, InputInv, AssetIds, Working, Staged
    <2> QED
      BY <2>3, <2>4
  <1>7. CASE PageProcessEnds
    <2>1. CASE outputs = <<>>
      BY <1>7, <2>1, Elsewhere DEF PageProcessEnds, Fail, Staged, Working
    <2>2. CASE outputs # <<>>
      <3>1. 1 \in DOMAIN outputs
        BY <1>7, <2>2 DEF PageProcessEnds, TypeInv
      <3> QED
        BY <1>7, <2>2, <3>1 DEF PageProcessEnds, TypeInv, HeldInv, InputInv, AssetIds, Working, Staged
    <2> QED
      BY <2>1, <2>2
  <1>8. CASE PageThumbnail
    <2>1. Suffix \in Nat /\ outputs[n] \in OutputRecord /\ outputs[n].page \in AssetIds
      BY <1>8, SuffixType DEF PageThumbnail, HeldInv, InputInv, Working
    <2>2. Id("thumbnail-page", Suffix) \in Name
      BY <2>1, Naming DEF Kinds
    <2>3. /\ assets' \in Seq(Asset)
          /\ AssetIds \subseteq AssetIds'
          /\ named' \subseteq AssetIds'
      BY <1>8, <2>1, <2>2, ThumbnailKeeps DEF PageThumbnail, TypeInv, HeldInv
    <2> QED
      BY <1>8, <2>3 DEF PageThumbnail, TypeInv, HeldInv, InputInv, Working, Staged
  <1>9. CASE ApplyColorMode
    <2> DEFINE color == Id("color_processed", Suffix)
    <2>1. Suffix \in Nat /\ outputs[n] \in OutputRecord /\ outputs[n].page \in AssetIds /\ n \in DOMAIN outputs
      BY <1>9, SuffixType DEF ApplyColorMode, HeldInv, InputInv, Working
    <2>2. color \in Name
      BY <2>1, Naming DEF Kinds, ThumbnailTargets
    <2>3. PICK new \in Name : outputs' = [outputs EXCEPT ![n].color = new]
      BY <1>9, <2>1, <2>2 DEF ApplyColorMode, OutputRecord
    <2>4. /\ outputs' \in Seq(OutputRecord) /\ DOMAIN outputs' = DOMAIN outputs
          /\ Len(outputs') = Len(outputs)
          /\ \A i \in DOMAIN outputs : outputs'[i].page = outputs[i].page /\ outputs'[i].id = outputs[i].id
      <3>1. outputs \in Seq(OutputRecord)
        BY <1>9 DEF TypeInv, ApplyColorMode
      <3>2. n \in DOMAIN outputs
        BY <2>1
      <3> HIDE DEF Inv
      <3> QED
        BY <2>3, <3>1, <3>2, Rewritten
    <2>5. assets' \in Seq(Asset) /\ AssetIds' = AssetIds \cup {color}
      <3>1. outputs'[n].color = new
        BY <2>1, <2>3 DEF OutputRecord
      <3>2. assets' = AddAsset(assets, color, new)
        BY <1>9, <3>1 DEF ApplyColorMode
      <3> QED
        BY <1>9, <2>2, <3>2, OneMore DEF ApplyColorMode, TypeInv
    <2>6. Suffix' = Suffix
      BY <1>9, <2>1, <2>4 DEF ApplyColorMode, Suffix
    <2>7. named' = named \cup {outputs[n].page, color} /\ at' = "color_thumbnail" /\ UNCHANGED <<listed, n>>
      BY <1>9 DEF ApplyColorMode
    <2> QED
      BY <1>9, <2>1, <2>4, <2>5, <2>6, <2>7 DEF ApplyColorMode, TypeInv, HeldInv, InputInv, Working, Staged
  <1>10. CASE ColorThumbnail
    <2>1. Suffix \in Nat /\ Id("color_processed", Suffix) \in AssetIds
      BY <1>10, SuffixType DEF ColorThumbnail, InputInv, Working
    <2>2. Id("thumbnail-color", Suffix) \in Name
      BY <2>1, Naming DEF Kinds
    <2>3. /\ assets' \in Seq(Asset)
          /\ AssetIds \subseteq AssetIds'
          /\ named' \subseteq AssetIds'
      BY <1>10, <2>1, <2>2, ThumbnailKeeps DEF ColorThumbnail, TypeInv, HeldInv
    <2>4. Suffix' = Suffix
      BY <1>10 DEF ColorThumbnail, Suffix
    <2> QED
      BY <1>10, <2>1, <2>3, <2>4 DEF ColorThumbnail, TypeInv, HeldInv, InputInv, Working, Staged
  <1>11. CASE FormatConvert
    <2> DEFINE final == Id("final", Suffix)
    <2>1. Suffix \in Nat /\ outputs[n] \in OutputRecord /\ n \in DOMAIN outputs
      BY <1>11, SuffixType DEF FormatConvert, InputInv, Working
    <2>2. final \in Name
      BY <2>1, Naming DEF Kinds, ThumbnailTargets
    <2>3. PICK new \in Name : outputs' = [outputs EXCEPT ![n].final = new]
      BY <1>11, <2>1, <2>2 DEF FormatConvert, OutputRecord
    <2>4. /\ outputs' \in Seq(OutputRecord) /\ DOMAIN outputs' = DOMAIN outputs
          /\ Len(outputs') = Len(outputs)
          /\ \A i \in DOMAIN outputs : outputs'[i].page = outputs[i].page /\ outputs'[i].id = outputs[i].id
      <3>1. outputs \in Seq(OutputRecord)
        BY <1>11 DEF TypeInv, FormatConvert
      <3>2. n \in DOMAIN outputs
        BY <2>1
      <3> HIDE DEF Inv
      <3> QED
        BY <2>3, <3>1, <3>2, Rewritten
    <2>5. assets' \in Seq(Asset) /\ AssetIds' = AssetIds \cup {final}
      <3>1. outputs'[n].final = new
        BY <2>1, <2>3 DEF OutputRecord
      <3>2. assets' = AddAsset(assets, final, new)
        BY <1>11, <3>1 DEF FormatConvert
      <3> QED
        BY <1>11, <2>2, <3>2, OneMore DEF FormatConvert, TypeInv
    <2>6. Suffix' = Suffix
      BY <1>11, <2>1, <2>4 DEF FormatConvert, Suffix
    <2>7. /\ named' = named \cup {Id("color_processed", Suffix), final}
          /\ Id("color_processed", Suffix) \in AssetIds
          /\ at' = "final_thumbnail" /\ UNCHANGED <<listed, n>>
      BY <1>11 DEF FormatConvert, InputInv
    <2> QED
      BY <1>11, <2>1, <2>4, <2>5, <2>6, <2>7 DEF FormatConvert, TypeInv, HeldInv, InputInv, Working, Staged
  <1>12. CASE FormatConvertFails
    BY <1>12 DEF FormatConvertFails, Fail, TypeInv, HeldInv, InputInv, AssetIds, Working, Staged
  <1>13. CASE FinalThumbnail
    <2>1. Suffix \in Nat /\ Id("final", Suffix) \in AssetIds /\ n \in DOMAIN outputs
      BY <1>13, SuffixType DEF FinalThumbnail, InputInv, Working
    <2>2. Id("thumbnail-final", Suffix) \in Name
      BY <2>1, Naming DEF Kinds
    <2>3. /\ assets' \in Seq(Asset)
          /\ AssetIds \subseteq AssetIds'
          /\ named' \subseteq AssetIds'
      BY <1>13, <2>1, <2>2, ThumbnailKeeps DEF FinalThumbnail, TypeInv, HeldInv
    <2>4. /\ n' \in Nat \ {0} /\ UNCHANGED <<listed, outputs>>
          /\ at' = "finalize_result" \/ (at' = "page_thumbnail" /\ n' \in DOMAIN outputs)
      BY <1>13, <2>1 DEF FinalThumbnail, TypeInv
    <2> QED
      BY <1>13, <2>3, <2>4 DEF FinalThumbnail, TypeInv, HeldInv, InputInv, Working, Staged
  <1>14. CASE FinalizeResult
    BY <1>14, Elsewhere DEF FinalizeResult, Staged, Working
  <1>15. CASE SkipEnhance
    BY <1>15 DEF SkipEnhance
  <1>16. CASE BeginEnhance
    BY <1>16, Elsewhere DEF BeginEnhance, Staged, Working
  <1>17. CASE RunStep
    BY <1>17, Elsewhere DEF RunStep, Staged, Working
  <1>18. CASE SkipStep
    BY <1>18, Elsewhere DEF SkipStep, Staged, Working
  <1>19. CASE EnhanceFails
    BY <1>19 DEF EnhanceFails
  <1>20. CASE EnhanceEnds
    BY <1>20 DEF EnhanceEnds
  <1>21. CASE UNCHANGED vars
    BY <1>21 DEF vars, profile, result, TypeInv, HeldInv, InputInv, AssetIds, Suffix
  <1> QED
    BY <1>1, <1>2, <1>3, <1>4, <1>5, <1>6, <1>7, <1>8, <1>9, <1>10, <1>11, <1>12, <1>13, <1>14,
       <1>15, <1>16, <1>17, <1>18, <1>19, <1>20, <1>21 DEF Next

\* However the providers name, split or refuse the pages, and however many there are, a stage
\* names only assets of the result (StagesNameAssets): a client that follows the inputs and
\* outputs of CaptureTaskSnapshot::stages finds them among its assets.
THEOREM StagesFollow == Spec => []StagesNameAssets
  <1>1. Inv => StagesNameAssets
    BY DEF Inv, HeldInv, StagesNameAssets
  <1> QED
    BY <1>1, InvInit, InvStep, PTL DEF Spec

-----------------------------------------------------------------------------
(* What a succeeded capture delivers.                                      *)

Early == {"capture_raw"} \cup Staged \cup Working

\* The suffix of the ids of an output, and how many outputs have their final asset.
SuffixOf(i) == IF Len(outputs) <= 1 THEN Single ELSE outputs[i].id
DeliveredPages == PagesOf(assets, files)
IsPage(asset) == asset.id[1] = "final"
Delivered == IF at = "final_thumbnail" THEN n ELSE n - 1

\* What the provider lists stays within the names and the files there can be.
ListedInv ==
  at \in Early =>
    /\ DOMAIN files = Ids
    /\ at \notin {"capture_raw", "pages"} \cup Working => files[Id("original", Single)] = Whole
    /\ at \notin {"pages"} \cup Working => outputs = <<>>
    /\ at = "pages" => Len(outputs) + Len(listed) <= MaxOutputs
    /\ \A i \in DOMAIN listed :
         /\ listed[i].name <= MaxOutputs /\ listed[i].pic \in 1..MaxOutputs
         /\ listed[i].hasFile /\ at = "pages" => files[Id("provider", listed[i].pic)] = listed[i].pic

\* Every output is shown by the files it has gone through: no page overwrites another's.
FilesInv ==
  at \in Early =>
    \A i \in DOMAIN outputs :
      LET o == outputs[i] IN
        /\ o.id \in 1..MaxOutputs /\ o.pic \in 0..MaxOutputs
        /\ o.pageFile \in {Id("original", Single), Id("provider", o.pic)}
        /\ o.color \in {o.pageFile, Id("color_processed", SuffixOf(i))}
        /\ o.final \in {o.pageFile, Id("color_processed", SuffixOf(i)), Id("final", SuffixOf(i))}
        /\ files[o.pageFile] = o.pic
        /\ Distinct => files[o.color] = o.pic /\ files[o.final] = o.pic
        /\ at = "pages" => o.color = o.pageFile /\ o.final = o.pageFile

\* The final assets are those of the outputs that are done.
FinalsInv ==
  at \in Early /\ Distinct =>
    \A i \in DOMAIN assets : IsPage(assets[i]) =>
      \E j \in DOMAIN outputs :
        /\ j <= Delivered
        /\ assets[i].id = Id("final", SuffixOf(j)) /\ assets[i].file = outputs[j].final

PagesInv ==
  /\ at \in Early /\ Distinct => DeliveredPages = [i \in 1..Delivered |-> outputs[i].pic]
  /\ at = "finalize_result" /\ Distinct => DeliveredPages = Pictures
  /\ at = "enhance" /\ status = "succeeded" /\ Distinct => DeliveredPages = Pictures

GivenInv ==
  /\ DOMAIN given = {"first", "now"}
  /\ given.first # <<>> => at \in {"enhancing", "done"}
  /\ given.first # <<>> /\ status = "succeeded" /\ Distinct => PagesOf(given.first, files) = Pictures

DeliverInv == ListedInv /\ FilesInv /\ FinalsInv /\ PagesInv /\ GivenInv

\* One round of a loop, and some of them.
Round(list, kinds, value, i, collected) ==
  IF list[i].id[1] \in kinds THEN Append(collected, value[i]) ELSE collected

Rounds(list, kinds, value, k, f) ==
  /\ DOMAIN f = 0..k
  /\ f[0] = <<>>
  /\ \A i \in 1..k : f[i] = Round(list, kinds, value, i, f[i - 1])

LEMMA LeastNumber ==
  ASSUME NEW T \in SUBSET Nat, T # {}
  PROVE  \E x \in T : \A y \in T : x <= y
  <1>1. PICK x \in T : \A y \in T : <<y, x>> \notin OpToRel(<, Nat)
    BY WFMin, NatLessThanWellFounded
  <1>2. \A y \in T : ~(y < x)
    BY <1>1 DEF OpToRel
  <1> QED
    BY <1>2

LEMMA LoopRuns ==
  ASSUME NEW list, NEW kinds, NEW value, NEW k \in Nat
  PROVE  \E f : Rounds(list, kinds, value, k, f)
  <1> DEFINE T == {m \in Nat : ~\E f : Rounds(list, kinds, value, m, f)}
  <1> SUFFICES ASSUME k \in T PROVE FALSE
    OBVIOUS
  <1>1. PICK m \in T : \A y \in T : m <= y
    <2>1. T \in SUBSET Nat /\ T # {}
      OBVIOUS
    <2> HIDE DEF T
    <2> QED
      BY <2>1, LeastNumber
  <1>2. CASE m = 0
    <2>1. Rounds(list, kinds, value, 0, [i \in 0..0 |-> <<>>])
      BY DEF Rounds
    <2> QED
      BY <1>2, <2>1
  <1>3. CASE m # 0
    <2>1. m - 1 \in Nat /\ m - 1 \notin T
      BY <1>1, <1>3
    <2>2. PICK f : Rounds(list, kinds, value, m - 1, f)
      BY <2>1
    <2> DEFINE g == [i \in 0..m |-> IF i = m THEN Round(list, kinds, value, m, f[m - 1]) ELSE f[i]]
    <2>3. DOMAIN g = 0..m /\ g[0] = <<>>
      BY <1>1, <1>3, <2>2 DEF Rounds
    <2>4. \A i \in 1..m : g[i] = Round(list, kinds, value, i, g[i - 1])
      <3> TAKE i \in 1..m
      <3>1. CASE i = m
        BY <1>1, <3>1
      <3>2. CASE i # m
        <4>1. i \in 1..(m - 1) /\ i - 1 \in 0..m /\ i - 1 # m /\ i \in 0..m
          BY <1>1, <3>2
        <4>2. f[i] = Round(list, kinds, value, i, f[i - 1])
          BY <2>2, <4>1 DEF Rounds
        <4> QED
          BY <4>1, <4>2, <3>2
      <3> QED
        BY <3>1, <3>2
    <2> QED
      BY <2>3, <2>4 DEF Rounds
  <1> QED
    BY <1>2, <1>3

LEMMA LoopIs ==
  ASSUME NEW list, NEW kinds, NEW value, Len(list) \in Nat
  PROVE  Rounds(list, kinds, value, Len(list), CollectUpTo(list, kinds, value))
  <1> DEFINE K == Len(list)
             Body(f) == [i \in 0..K |->
                IF i = 0 THEN <<>>
                ELSE IF list[i].id[1] \in kinds THEN Append(f[i - 1], value[i]) ELSE f[i - 1]]
  <1>1. PICK f : Rounds(list, kinds, value, K, f)
    BY LoopRuns
  <1> DEFINE g == [i \in 0..K |-> f[i]]
  <1>2. g = Body(g)
    <2>1. \A i \in 0..K : g[i] = Body(g)[i]
      <3> TAKE i \in 0..K
      <3>1. CASE i = 0
        BY <1>1, <3>1 DEF Rounds
      <3>2. CASE i # 0
        <4>1. i \in 1..K /\ i - 1 \in 0..K
          BY <3>2
        <4>2. f[i] = Round(list, kinds, value, i, f[i - 1]) /\ g[i - 1] = f[i - 1] /\ g[i] = f[i]
          BY <1>1, <4>1 DEF Rounds
        <4> QED
          BY <3>2, <4>1, <4>2 DEF Round
      <3> QED
        BY <3>1, <3>2
    <2> HIDE DEF K
    <2> QED
      BY <2>1
  <1>3. CollectUpTo(list, kinds, value) = CHOOSE h : h = Body(h)
    BY DEF CollectUpTo
  <1> DEFINE p == CollectUpTo(list, kinds, value)
  <1>4. p = Body(p)
    <2> HIDE DEF Body, g
    <2> QED
      BY <1>2, <1>3
  <1>5. DOMAIN p = 0..K /\ \A i \in 0..K : p[i] = Body(p)[i]
    <2>1. DOMAIN Body(p) = 0..K
      OBVIOUS
    <2> HIDE DEF Body
    <2> QED
      BY <1>4, <2>1
  <1> HIDE DEF p
  <1>6. p[0] = <<>>
    BY <1>5
  <1>7. \A i \in 1..K : p[i] = Round(list, kinds, value, i, p[i - 1])
    <2> TAKE i \in 1..K
    <2>1. i \in 0..K /\ i # 0
      OBVIOUS
    <2>2. Body(p)[i] = Round(list, kinds, value, i, p[i - 1])
      BY <2>1 DEF Round
    <2> QED
      BY <1>5, <2>1, <2>2
  <1>8. Rounds(list, kinds, value, K, p)
    BY <1>5, <1>6, <1>7 DEF Rounds
  <1> QED
    BY <1>8 DEF p

\* The loop over the pages.
PagesUpTo(list, content) ==
  CollectUpTo(list, {"final"}, [i \in 1..Len(list) |-> content[list[i].file]])
PageRound(list, content, i, pages) ==
  IF IsPage(list[i]) THEN Append(pages, content[list[i].file]) ELSE pages

LEMMA PageLoopIs ==
  ASSUME NEW list, NEW content, Len(list) \in Nat
  PROVE  /\ PagesOf(list, content) = PagesUpTo(list, content)[Len(list)]
         /\ PagesUpTo(list, content)[0] = <<>>
         /\ \A i \in 1..Len(list) :
              PagesUpTo(list, content)[i] = PageRound(list, content, i, PagesUpTo(list, content)[i - 1])
  <1> DEFINE shown == [i \in 1..Len(list) |-> content[list[i].file]]
             p == PagesUpTo(list, content)
  <1>1. Rounds(list, {"final"}, shown, Len(list), p)
    <2> HIDE DEF shown
    <2>1. Rounds(list, {"final"}, shown, Len(list), CollectUpTo(list, {"final"}, shown))
      BY LoopIs
    <2> QED
      BY <2>1 DEF PagesUpTo, shown
  <1>2. \A i \in 1..Len(list) : shown[i] = content[list[i].file]
    OBVIOUS
  <1>3. PagesOf(list, content) = p[Len(list)]
    BY DEF PagesOf, Collect, PagesUpTo
  <1> HIDE DEF shown, p
  <1>4. \A i \in 1..Len(list) : p[i] = PageRound(list, content, i, p[i - 1])
    BY <1>1, <1>2 DEF Rounds, Round, PageRound, IsPage
  <1> QED
    BY <1>1, <1>3, <1>4 DEF Rounds, p

\* The pages of a list depend on its final assets and their files only.
LEMMA SamePages ==
  ASSUME NEW list, NEW content, NEW list2, NEW content2, Len(list) \in Nat, Len(list2) \in Nat,
         Len(list) <= Len(list2),
         \A i \in 1..Len(list) :
           /\ IsPage(list2[i]) <=> IsPage(list[i])
           /\ IsPage(list[i]) => content2[list2[i].file] = content[list[i].file]
  PROVE  \A i \in 0..Len(list) : PagesUpTo(list2, content2)[i] = PagesUpTo(list, content)[i]
  <1> DEFINE K == Len(list)
             p == PagesUpTo(list, content)
             q == PagesUpTo(list2, content2)
             T == {m \in 0..K : q[m] # p[m]}
  <1>1. /\ p[0] = <<>> /\ \A i \in 1..K : p[i] = PageRound(list, content, i, p[i - 1])
        /\ q[0] = <<>> /\ \A i \in 1..Len(list2) : q[i] = PageRound(list2, content2, i, q[i - 1])
    BY PageLoopIs
  <1> SUFFICES ASSUME T # {} PROVE FALSE
    OBVIOUS
  <1>2. T \in SUBSET Nat
    OBVIOUS
  <1>3. PICK m \in T : \A y \in T : m <= y
    <2> HIDE DEF T
    <2> QED
      BY <1>2, LeastNumber
  <1> HIDE DEF p, q
  <1>4. m # 0
    BY <1>1, <1>3
  <1>5. m \in 1..K /\ m \in 1..Len(list2) /\ m - 1 \in 0..K /\ q[m - 1] = p[m - 1]
    BY <1>3, <1>4
  <1>6. p[m] = PageRound(list, content, m, p[m - 1]) /\ q[m] = PageRound(list2, content2, m, q[m - 1])
    BY <1>1, <1>5
  <1>7. PageRound(list, content, m, p[m - 1]) = PageRound(list2, content2, m, p[m - 1])
    BY <1>5 DEF PageRound
  <1> QED
    BY <1>3, <1>5, <1>6, <1>7

LEMMA NoPages ==
  ASSUME NEW content
  PROVE  PagesOf(<<>>, content) = <<>>
  <1>1. Len(<<>>) = 0
    OBVIOUS
  <1> QED
    BY <1>1, PageLoopIs

\* An asset in the place of another, or one more that is not final.
Extends(list2, content2, list, content) ==
  /\ Len(list) <= Len(list2)
  /\ \A i \in 1..Len(list) :
       /\ IsPage(list2[i]) <=> IsPage(list[i])
       /\ IsPage(list[i]) => content2[list2[i].file] = content[list[i].file]
  /\ \A i \in 1..Len(list2) : i > Len(list) => i = Len(list) + 1 /\ ~IsPage(list2[i])

LEMMA PagesKept ==
  ASSUME NEW list \in Seq(Asset), NEW content, NEW list2 \in Seq(Asset), NEW content2,
         Extends(list2, content2, list, content)
  PROVE  PagesOf(list2, content2) = PagesOf(list, content)
  <1> USE DEF Extends
  <1>1. Len(list) \in Nat /\ Len(list2) \in Nat
    OBVIOUS
  <1>2. PagesUpTo(list2, content2)[Len(list)] = PagesUpTo(list, content)[Len(list)]
    BY <1>1, SamePages
  <1>3. CASE Len(list2) = Len(list)
    BY <1>1, <1>2, <1>3, PageLoopIs
  <1>4. CASE Len(list2) # Len(list)
    <2>1. Len(list2) = Len(list) + 1 /\ ~IsPage(list2[Len(list2)])
      BY <1>1, <1>4
    <2>2. PagesUpTo(list2, content2)[Len(list2)] = PageRound(list2, content2, Len(list2), PagesUpTo(list2, content2)[Len(list)])
      BY <1>1, <2>1, PageLoopIs
    <2> QED
      BY <1>1, <1>2, <2>1, <2>2, PageLoopIs DEF PageRound
  <1> QED
    BY <1>3, <1>4

LEMMA PageAdded ==
  ASSUME NEW list \in Seq(Asset), NEW content, NEW new \in Asset, NEW content2, IsPage(new),
         \A i \in 1..Len(list) : IsPage(list[i]) => content2[list[i].file] = content[list[i].file]
  PROVE  PagesOf(Append(list, new), content2) = Append(PagesOf(list, content), content2[new.file])
  <1> DEFINE list2 == Append(list, new)
  <1>1. Len(list) \in Nat /\ Len(list2) = Len(list) + 1 /\ list2[Len(list) + 1] = new
        /\ \A i \in 1..Len(list) : list2[i] = list[i]
    OBVIOUS
  <1> HIDE DEF list2
  <1>2. PagesUpTo(list2, content2)[Len(list)] = PagesUpTo(list, content)[Len(list)]
    BY <1>1, SamePages
  <1>3. PagesUpTo(list2, content2)[Len(list2)] = PageRound(list2, content2, Len(list2), PagesUpTo(list2, content2)[Len(list)])
    BY <1>1, PageLoopIs
  <1>4. PagesOf(list2, content2) = Append(PagesOf(list, content), content2[new.file])
    BY <1>1, <1>2, <1>3, PageLoopIs DEF PageRound
  <1> QED
    BY <1>4 DEF list2

\* What the enhancement takes of the assets delivers the pages they deliver: the thumbnails
\* among it are no pages.
LEMMA FinalsDeliver ==
  ASSUME NEW list \in Seq(Asset), NEW content
  PROVE  PagesOf(Collect(list, FinalKinds, list), content) = PagesOf(list, content)
  <1> DEFINE K == Len(list)
             c == CollectUpTo(list, FinalKinds, list)
             p == PagesUpTo(list, content)
             Same(i) == c[i] \in Seq(Asset) /\ PagesOf(c[i], content) = p[i]
             T == {m \in 0..K : ~Same(m)}
  <1>1. K \in Nat /\ \A i \in 1..K : list[i] \in Asset
    OBVIOUS
  <1>2. Collect(list, FinalKinds, list) = c[K] /\ PagesOf(list, content) = p[K]
    BY <1>1, PageLoopIs DEF Collect
  <1>3. c[0] = <<>> /\ \A i \in 1..K : c[i] = Round(list, FinalKinds, list, i, c[i - 1])
    BY <1>1, LoopIs DEF Rounds
  <1>4. p[0] = <<>> /\ \A i \in 1..K : p[i] = PageRound(list, content, i, p[i - 1])
    BY <1>1, PageLoopIs
  <1> SUFFICES T = {}
    BY <1>1, <1>2
  <1> SUFFICES ASSUME T # {} PROVE FALSE
    OBVIOUS
  <1>5. PICK m \in T : \A y \in T : m <= y
    <2>1. T \in SUBSET Nat
      OBVIOUS
    <2> HIDE DEF T
    <2> QED
      BY <2>1, LeastNumber
  <1> HIDE DEF c, p
  <1>6. m # 0
    <2>1. <<>> \in Seq(Asset) /\ PagesOf(<<>>, content) = <<>>
      BY NoPages
    <2>2. Same(0)
      BY <1>3, <1>4, <2>1
    <2> QED
      BY <1>5, <2>2
  <1>7. m \in 1..K /\ m - 1 \in 0..K /\ c[m - 1] \in Seq(Asset) /\ PagesOf(c[m - 1], content) = p[m - 1]
    BY <1>1, <1>5, <1>6
  <1>8. /\ c[m] = Round(list, FinalKinds, list, m, c[m - 1])
        /\ p[m] = PageRound(list, content, m, p[m - 1]) /\ list[m] \in Asset
    BY <1>1, <1>3, <1>4, <1>7
  <1>9. CASE IsPage(list[m])
    <2>1. c[m] = Append(c[m - 1], list[m]) /\ p[m] = Append(p[m - 1], content[list[m].file])
      BY <1>8, <1>9 DEF Round, PageRound, FinalKinds, IsPage
    <2>2. PagesOf(c[m], content) = p[m]
      BY <1>7, <1>8, <1>9, <2>1, PageAdded
    <2>3. c[m] \in Seq(Asset)
      BY <1>7, <1>8, <2>1
    <2> QED
      BY <1>5, <2>2, <2>3
  <1>10. CASE ~IsPage(list[m])
    <2>1. p[m] = p[m - 1] /\ c[m] \in {c[m - 1], Append(c[m - 1], list[m])}
      BY <1>8, <1>10 DEF Round, PageRound
    <2> DEFINE before == c[m - 1]
               new == list[m]
    <2>2. before \in Seq(Asset) /\ new \in Asset /\ ~IsPage(new) /\ c[m] \in {before, Append(before, new)}
      BY <1>7, <1>8, <1>10, <2>1
    <2> HIDE DEF before, new
    <2>3. Append(before, new) \in Seq(Asset)
      BY <2>2
    <2>4. c[m] \in Seq(Asset)
      BY <2>2, <2>3
    <2>5. Extends(c[m], content, before, content)
      <3>1. CASE c[m] = before
        BY <2>2, <3>1 DEF Extends
      <3>2. CASE c[m] = Append(before, new)
        BY <2>2, <3>2 DEF Extends
      <3> QED
        BY <2>2, <3>1, <3>2
    <2>6. PagesOf(c[m], content) = p[m]
      BY <1>7, <2>1, <2>4, <2>5, PagesKept DEF before
    <2> QED
      BY <1>5, <2>4, <2>6
  <1> QED
    BY <1>9, <1>10

FileKinds == {"original", "provider", "color_processed", "final"}
ThumbnailKinds == {"thumbnail-original", "thumbnail-page", "thumbnail-color", "thumbnail-final"}

LEMMA SameId ==
  /\ \A k1, k2, p1, p2 : Id(k1, p1) = Id(k2, p2) <=> k1 = k2 /\ p1 = p2
  /\ \A k, p : Id(k, p)[1] = k /\ Id(k, p)[2] = p
  BY DEF Id

\* A final asset of the list, with its place.
Finals(list) == {i \in DOMAIN list : IsPage(list[i])}

\* An asset that is not final disturbs none that is.
LEMMA AddOther ==
  ASSUME assets \in Seq(Asset), NEW id \in Name, NEW file \in Name, id[1] # "final",
         assets' = AddAsset(assets, id, file),
         \A i \in Finals(assets) : files'[assets[i].file] = files[assets[i].file]
  PROVE  /\ DeliveredPages' = DeliveredPages
         /\ \A i \in Finals(assets') : i \in Finals(assets) /\ assets'[i] = assets[i]
  <1> DEFINE new == [id |-> id, file |-> file]
  <1>1. new \in Asset /\ new.id = id /\ ~IsPage(new)
    BY DEF Asset, IsPage
  <1>2. assets' \in Seq(Asset) /\ DOMAIN assets = 1..Len(assets) /\ DOMAIN assets' = 1..Len(assets')
    BY AddAssetIds
  <1>3. /\ Len(assets) <= Len(assets')
        /\ \A i \in 1..Len(assets) : assets'[i] = assets[i] \/ (assets[i].id = id /\ assets'[i] = new)
        /\ \A i \in 1..Len(assets') : i > Len(assets) => i = Len(assets) + 1 /\ assets'[i] = new
    <2>1. CASE \E i \in DOMAIN assets : assets[i].id = id
      <3>1. assets' = [i \in 1..Len(assets) |-> IF assets[i].id = id THEN new ELSE assets[i]]
        BY <1>2, <2>1 DEF AddAsset
      <3> HIDE DEF new
      <3>2. Len(assets) \in Nat
        OBVIOUS
      <3>3. Len(assets') = Len(assets)
        BY <3>1, <3>2
      <3> QED
        BY <1>2, <3>1, <3>3
    <2>2. CASE ~\E i \in DOMAIN assets : assets[i].id = id
      <3>1. assets' = Append(assets, new)
        BY <2>2 DEF AddAsset
      <3> HIDE DEF new
      <3> QED
        BY <1>1, <3>1
    <2> QED
      BY <2>1, <2>2
  <1>4. \A i \in 1..Len(assets) : IsPage(assets'[i]) <=> IsPage(assets[i])
    BY <1>1, <1>3 DEF IsPage
  <1>5. \A i \in 1..Len(assets) : IsPage(assets[i]) => assets'[i] = assets[i]
    BY <1>1, <1>3, <1>4 DEF IsPage
  <1>6. \A i \in 1..Len(assets') : i > Len(assets) => i = Len(assets) + 1 /\ ~IsPage(assets'[i])
    BY <1>1, <1>3
  <1>7. \A i \in 1..Len(assets) : IsPage(assets[i]) => files'[assets'[i].file] = files[assets[i].file]
    BY <1>2, <1>5 DEF Finals
  <1>8. DeliveredPages' = DeliveredPages
    <2>1. PagesOf(assets', files') = PagesOf(assets, files)
      <3> HIDE DEF new
      <3>1. Extends(assets', files', assets, files)
        BY <1>3, <1>4, <1>6, <1>7 DEF Extends
      <3> QED
        BY <1>2, <3>1, PagesKept
    <2> QED
      BY <2>1 DEF DeliveredPages
  <1>9. \A i \in Finals(assets') : i \in Finals(assets) /\ assets'[i] = assets[i]
    BY <1>2, <1>4, <1>5, <1>6 DEF Finals
  <1> QED
    BY <1>8, <1>9

\* A final asset with a new id comes last.
LEMMA AddFinal ==
  ASSUME assets \in Seq(Asset), NEW id \in Name, NEW file \in Name, id[1] = "final",
         id \notin AssetIds, assets' = AddAsset(assets, id, file),
         \A i \in Finals(assets) : files'[assets[i].file] = files[assets[i].file]
  PROVE  /\ DeliveredPages' = Append(DeliveredPages, files'[file])
         /\ \A i \in Finals(assets') :
              \/ i \in Finals(assets) /\ assets'[i] = assets[i]
              \/ assets'[i] = [id |-> id, file |-> file]
  <1> DEFINE new == [id |-> id, file |-> file]
  <1>1. new \in Asset /\ IsPage(new) /\ new.file = file
    BY DEF Asset, IsPage
  <1>2. assets' = Append(assets, new)
    BY DEF AddAsset, AssetIds
  <1> HIDE DEF new
  <1>3. PagesOf(assets', files') = Append(PagesOf(assets, files), files'[new.file])
    BY <1>1, <1>2, PageAdded DEF Finals
  <1>4. \A i \in DOMAIN assets' : assets'[i] = new \/ (i \in DOMAIN assets /\ assets'[i] = assets[i])
    BY <1>1, <1>2
  <1> QED
    BY <1>1, <1>3, <1>4 DEF Finals, DeliveredPages, new

\* What the stages do not touch: the files that show the pages, and the final assets.
FilesStay == \A kind \in FileKinds, page \in 0..MaxOutputs : files'[Id(kind, page)] = files[Id(kind, page)]
FinalsStay ==
  /\ DeliveredPages' = DeliveredPages
  /\ \A i \in Finals(assets') : i \in Finals(assets) /\ assets'[i] = assets[i]

\* Names within the bounds are those of files the directory can hold.
LEMMA InDirectory ==
  \A kind \in Kinds, page \in 0..MaxOutputs : Id(kind, page) \in Ids
  BY DEF Ids, Kinds

LEMMA SuffixOfType ==
  ASSUME FilesInv, at \in Early, NEW i \in DOMAIN outputs
  PROVE  SuffixOf(i) \in 0..MaxOutputs
  BY PipelineAssumption DEF FilesInv, SuffixOf, Single

LEMMA ShownByFiles ==
  ASSUME FilesInv, at \in Early, NEW i \in DOMAIN outputs,
         NEW f \in {outputs[i].pageFile, outputs[i].color, outputs[i].final}
  PROVE  /\ \E kind \in FileKinds, page \in 0..MaxOutputs : f = Id(kind, page)
         /\ f \in Ids
  <1>1. SuffixOf(i) \in 0..MaxOutputs
    BY SuffixOfType
  <1>2. outputs[i].pic \in 0..MaxOutputs
    BY DEF FilesInv
  <1>3. f \in {Id("original", Single), Id("provider", outputs[i].pic),
               Id("color_processed", SuffixOf(i)), Id("final", SuffixOf(i))}
    BY DEF FilesInv
  <1>4. \E kind \in FileKinds, page \in 0..MaxOutputs : f = Id(kind, page)
    BY <1>1, <1>2, <1>3, PipelineAssumption DEF FileKinds, Single
  <1> QED
    BY <1>4, InDirectory DEF FileKinds, Kinds, ThumbnailTargets

LEMMA FinalsAreFiles ==
  ASSUME FilesInv, FinalsInv, at \in Early, Distinct, FilesStay
  PROVE  \A i \in Finals(assets) : files'[assets[i].file] = files[assets[i].file]
  <1> TAKE i \in Finals(assets)
  <1>1. PICK j \in DOMAIN outputs : assets[i].file = outputs[j].final
    BY DEF FinalsInv, Finals
  <1>2. \E kind \in FileKinds, page \in 0..MaxOutputs : outputs[j].final = Id(kind, page)
    BY ShownByFiles
  <1> QED
    BY <1>1, <1>2 DEF FilesStay

LEMMA SameAssets ==
  ASSUME TypeInv, UNCHANGED assets,
         \A i \in Finals(assets) : files'[assets[i].file] = files[assets[i].file]
  PROVE  FinalsStay
  <1>1. assets \in Seq(Asset) /\ assets' \in Seq(Asset) /\ DOMAIN assets = 1..Len(assets)
    BY DEF TypeInv
  <1>2. Extends(assets', files', assets, files)
    BY <1>1 DEF Extends, Finals
  <1>3. PagesOf(assets', files') = PagesOf(assets, files)
    BY <1>1, <1>2, PagesKept
  <1> QED
    BY <1>3 DEF FinalsStay, DeliveredPages

\* A thumbnail has a file of its own.
LEMMA ThumbnailApart ==
  ASSUME TypeInv, ListedInv, FilesInv, FinalsInv, at \in Early,
         NEW kind \in ThumbnailKinds, NEW page \in Nat, NEW target, NEW input, NEW inputFile,
         GenerateThumbnail(target, input, inputFile, Id(kind, page))
  PROVE  /\ FilesStay /\ DOMAIN files' = Ids
         /\ Distinct => FinalsStay
  <1>1. DOMAIN files = Ids
    BY DEF ListedInv
  <1>2. \/ UNCHANGED <<files, assets>>
        \/ /\ files' = [files EXCEPT ![Id(kind, page)] = files[inputFile]]
           /\ assets' = AddAsset(assets, Id(kind, page), Id(kind, page))
    BY DEF GenerateThumbnail
  <1>3. FilesStay /\ DOMAIN files' = Ids
    <2>1. \A k \in FileKinds, p \in 0..MaxOutputs : Id(k, p) # Id(kind, page) /\ Id(k, p) \in Ids
      BY SameId, InDirectory DEF FileKinds, ThumbnailKinds, Kinds, ThumbnailTargets
    <2>2. DOMAIN files' = Ids /\ \A f \in Ids : f # Id(kind, page) => files'[f] = files[f]
      <3>1. CASE files' = files
        BY <1>1, <3>1
      <3>2. CASE files' = [files EXCEPT ![Id(kind, page)] = files[inputFile]]
        BY <1>1, <3>2
      <3> QED
        BY <1>2, <3>1, <3>2
    <2> QED
      BY <2>1, <2>2 DEF FilesStay
  <1>4. ASSUME Distinct PROVE FinalsStay
    <2>1. \A i \in Finals(assets) : files'[assets[i].file] = files[assets[i].file]
      BY <1>3, <1>4, FinalsAreFiles
    <2>2. CASE UNCHANGED assets
      BY <2>1, <2>2, SameAssets
    <2>3. CASE assets' = AddAsset(assets, Id(kind, page), Id(kind, page))
      <3>1. Id(kind, page) \in Name /\ Id(kind, page)[1] # "final"
        BY SameId, Naming DEF Kinds, ThumbnailKinds
      <3>2. assets \in Seq(Asset)
        BY DEF TypeInv
      <3> QED
        BY <2>1, <2>3, <3>1, <3>2, AddOther DEF FinalsStay
    <2> QED
      BY <1>2, <2>2, <2>3
  <1> QED
    BY <1>3, <1>4

\* A step that touches neither the outputs nor their files.
LEMMA Harmless ==
  ASSUME FilesInv, FinalsInv, PagesInv, GivenInv, at \in Early, at' \in Early,
         at' = "pages" => at = "pages", UNCHANGED <<outputs, given>>, Delivered' = Delivered,
         FilesStay, Distinct => FinalsStay
  PROVE  FilesInv' /\ FinalsInv' /\ PagesInv' /\ GivenInv'
  <1>1. Distinct' <=> Distinct
    BY DEF Distinct
  <1>2. \A i : SuffixOf(i)' = SuffixOf(i)
    BY DEF SuffixOf
  <1>3. FilesInv'
    <2>1. \A i \in DOMAIN outputs : \A f \in {outputs[i].pageFile, outputs[i].color, outputs[i].final} :
            files'[f] = files[f]
      BY ShownByFiles DEF FilesStay
    <2> QED
      BY <1>1, <1>2, <2>1 DEF FilesInv
  <1>4. FinalsInv'
    <2> SUFFICES ASSUME Distinct, NEW i \in Finals(assets')
                 PROVE  \E j \in DOMAIN outputs : /\ j <= Delivered
                          /\ assets'[i].id = Id("final", SuffixOf(j)) /\ assets'[i].file = outputs[j].final
      BY <1>1, <1>2 DEF FinalsInv, Finals
    <2> QED
      BY DEF FinalsInv, FinalsStay, Finals
  <1>5. PagesInv'
    BY <1>1 DEF PagesInv, FinalsStay, Early, Staged, Working
  <1>6. GivenInv'
    BY DEF GivenInv, Early, Staged, Working
  <1> QED
    BY <1>3, <1>4, <1>5, <1>6

\* While pages are told apart, no page's files are another's.
LEMMA OtherFiles ==
  ASSUME TypeInv, FilesInv, at \in Early, Distinct, NEW i \in DOMAIN outputs, NEW j \in DOMAIN outputs,
         i # j, NEW kind \in {"color_processed", "final"},
         NEW f \in {outputs[j].pageFile, outputs[j].color, outputs[j].final}
  PROVE  f # Id(kind, SuffixOf(i)) /\ SuffixOf(i) # SuffixOf(j)
  <1>1. DOMAIN outputs = 1..Len(outputs) /\ Len(outputs) \in Nat
    BY DEF TypeInv
  <1>2. SuffixOf(i) = outputs[i].id /\ SuffixOf(j) = outputs[j].id /\ outputs[i].id # outputs[j].id
    BY <1>1 DEF SuffixOf, Distinct
  <1>3. f \in {Id("original", Single), Id("provider", outputs[j].pic),
               Id("color_processed", SuffixOf(j)), Id("final", SuffixOf(j))}
    BY DEF FilesInv
  <1> QED
    BY <1>2, <1>3, SameId

LEMMA SuffixIs ==
  Suffix = SuffixOf(n)
  BY DEF Suffix, SuffixOf

\* An output that gets another file keeps everything else.
LEMMA RewrittenRest ==
  ASSUME NEW list \in Seq(OutputRecord), NEW k \in DOMAIN list, NEW file \in Name, NEW other
  PROVE  /\ other = [list EXCEPT ![k].color = file] =>
              /\ other[k].color = file /\ other[k].final = list[k].final
              /\ other[k].pageFile = list[k].pageFile /\ other[k].pic = list[k].pic
              /\ \A i \in DOMAIN list : i # k => other[i] = list[i]
         /\ other = [list EXCEPT ![k].final = file] =>
              /\ other[k].final = file /\ other[k].color = list[k].color
              /\ other[k].pageFile = list[k].pageFile /\ other[k].pic = list[k].pic
              /\ \A i \in DOMAIN list : i # k => other[i] = list[i]
  <1>1. list[k] \in OutputRecord
    OBVIOUS
  <1> QED
    BY <1>1 DEF OutputRecord

\* Before there are outputs there are no final assets.
LEMMA NoFinals ==
  ASSUME FinalsInv, at \in Early, outputs = <<>>
  PROVE  Distinct /\ Finals(assets) = {}
  <1>1. DOMAIN outputs = {}
    OBVIOUS
  <1> QED
    BY <1>1 DEF FinalsInv, Distinct, Finals

LEMMA ThumbnailStep ==
  ASSUME TypeInv, DeliverInv, at \in Early, at' \in Early, at # "pages", at' # "pages",
         at \notin {"capture_raw"}, at' \notin {"capture_raw", "original_thumbnail"},
         UNCHANGED <<outputs, listed, given>>, Delivered' = Delivered,
         at' \notin Working => at \notin Working,
         NEW kind \in ThumbnailKinds, NEW page \in Nat, NEW target, NEW input, NEW inputFile,
         GenerateThumbnail(target, input, inputFile, Id(kind, page))
  PROVE  DeliverInv'
  <1> USE DEF DeliverInv
  <1>1. FilesStay /\ DOMAIN files' = Ids /\ (Distinct => FinalsStay)
    BY ThumbnailApart
  <1>2. FilesInv' /\ FinalsInv' /\ PagesInv' /\ GivenInv'
    BY <1>1, Harmless
  <1>3. ListedInv'
    <2>1. files'[Id("original", Single)] = files[Id("original", Single)]
      BY <1>1, PipelineAssumption DEF FilesStay, FileKinds, Single
    <2> QED
      BY <1>1, <2>1 DEF ListedInv, Early, Staged, Working
  <1> QED
    BY <1>2, <1>3

LEMMA CaptureRawDelivers ==
  ASSUME TypeInv, InputInv, DeliverInv, CaptureRaw
  PROVE  DeliverInv'
  <1> USE DEF DeliverInv
  <1> DEFINE original == Id("original", Single)
  <1>1. /\ at = "capture_raw" /\ at' = "original_thumbnail" /\ n = 1
        /\ files' = [files EXCEPT ![original] = Whole]
        /\ assets' = AddAsset(assets, original, original)
        /\ UNCHANGED <<listed, outputs, n, given>>
    BY DEF CaptureRaw, InputInv
  <1>2. outputs = <<>> /\ DOMAIN files = Ids
    BY <1>1 DEF ListedInv, Early, Staged, Working
  <1>3. Distinct /\ Finals(assets) = {}
    BY <1>1, <1>2, NoFinals DEF Early
  <1>4. original \in Ids /\ original \in Name /\ original[1] # "final"
    BY InDirectory, Naming, SameId, PipelineAssumption DEF Kinds, ThumbnailTargets, Single
  <1>5. DOMAIN files' = Ids /\ files'[original] = Whole
    BY <1>1, <1>2, <1>4
  <1>6. DeliveredPages' = DeliveredPages /\ Finals(assets') = {}
    BY <1>1, <1>3, <1>4, AddOther DEF TypeInv
  <1>7. ListedInv'
    BY <1>1, <1>2, <1>5 DEF ListedInv, Early, Staged, Working
  <1>8. FilesInv' /\ FinalsInv'
    BY <1>1, <1>2, <1>6 DEF FilesInv, FinalsInv, Finals
  <1>9. PagesInv' /\ GivenInv'
    <2>1. Delivered = 0 /\ Delivered' = 0
      BY <1>1 DEF Delivered
    <2> QED
      BY <1>1, <1>3, <1>6, <2>1 DEF PagesInv, GivenInv, Early, Staged
  <1> QED
    BY <1>7, <1>8, <1>9

LEMMA OriginalThumbnailDelivers ==
  ASSUME TypeInv, InputInv, DeliverInv, OriginalThumbnail
  PROVE  DeliverInv'
  <1>1. /\ at = "original_thumbnail" /\ at' = "page_process"
        /\ UNCHANGED <<listed, outputs, n, given>>
        /\ GenerateThumbnail("original", Id("original", Single), Id("original", Single),
                             Id("thumbnail-original", Single))
    BY DEF OriginalThumbnail
  <1>2. Delivered' = Delivered
    BY <1>1 DEF Delivered
  <1>3. "thumbnail-original" \in ThumbnailKinds /\ Single \in Nat
    BY DEF ThumbnailKinds, Single
  <1>4. at \in Early /\ at' \in Early /\ at' \notin Working /\ at \notin Working
    BY <1>1 DEF Early, Staged, Working
  <1> QED
    BY <1>1, <1>2, <1>3, <1>4, ThumbnailStep

LEMMA PageFallbackDelivers ==
  ASSUME TypeInv, InputInv, DeliverInv, PageFallback
  PROVE  DeliverInv'
  <1> USE DEF DeliverInv
  <1> DEFINE original == Id("original", Single)
             page == Id("page_processed", Single)
             out == Output(1, page, original, Whole)
  <1>1. /\ at = "page_process" /\ at' = "page_thumbnail" /\ n = 1
        /\ outputs' = <<out>>
        /\ assets' = AddAsset(assets, page, original)
        /\ UNCHANGED <<listed, files, n, given>>
    BY DEF PageFallback, InputInv, Staged
  <1>2. outputs = <<>> /\ DOMAIN files = Ids /\ files[original] = Whole
    BY <1>1 DEF ListedInv, Early, Staged, Working
  <1>3. Distinct /\ Finals(assets) = {}
    BY <1>1, <1>2, NoFinals DEF Early, Staged
  <1>4. page \in Name /\ original \in Name /\ page[1] # "final"
    BY Naming, SameId DEF Kinds, ThumbnailTargets, Single
  <1>5. DeliveredPages' = DeliveredPages /\ Finals(assets') = {}
    BY <1>1, <1>3, <1>4, AddOther DEF TypeInv
  <1>6. ListedInv'
    BY <1>1, <1>2 DEF ListedInv, Early, Staged, Working
  <1>7. FilesInv'
    <2>1. /\ out.id = 1 /\ out.pic = Whole
          /\ out.pageFile = original /\ out.color = original /\ out.final = original
      BY DEF Output
    <2>2. DOMAIN outputs' = {1} /\ outputs'[1] = out
      BY <1>1
    <2> HIDE DEF out, original
    <2> QED
      BY <1>1, <1>2, <2>1, <2>2, PipelineAssumption DEF FilesInv, Whole, original
  <1>8. FinalsInv'
    BY <1>5 DEF FinalsInv, Finals
  <1>9. PagesInv' /\ GivenInv'
    <2>1. Delivered = 0 /\ Delivered' = 0
      BY <1>1 DEF Delivered
    <2> QED
      BY <1>1, <1>3, <1>5, <2>1 DEF PagesInv, GivenInv, Early, Staged, Working
  <1> QED
    BY <1>6, <1>7, <1>8, <1>9

LEMMA ProcessPageDelivers ==
  ASSUME TypeInv, InputInv, DeliverInv, ProcessPage
  PROVE  DeliverInv'
  <1> USE DEF DeliverInv
  <1>1. PICK k \in 1..MaxOutputs : \E list \in [1..k -> [name : Unnamed..MaxOutputs, hasFile : BOOLEAN]] :
          /\ listed' = [i \in 1..k |-> [name |-> list[i].name, hasFile |-> list[i].hasFile, pic |-> i]]
          /\ files' = [f \in Ids |-> IF \E i \in 1..k : list[i].hasFile /\ f = Id("provider", i)
                                     THEN f[2] ELSE files[f]]
    BY DEF ProcessPage
  <1>2. PICK list \in [1..k -> [name : Unnamed..MaxOutputs, hasFile : BOOLEAN]] :
          /\ listed' = [i \in 1..k |-> [name |-> list[i].name, hasFile |-> list[i].hasFile, pic |-> i]]
          /\ files' = [f \in Ids |-> IF \E i \in 1..k : list[i].hasFile /\ f = Id("provider", i)
                                     THEN f[2] ELSE files[f]]
    BY <1>1
  <1>3. /\ at = "page_process" /\ at' = "pages" /\ n = 1 /\ outputs = <<>>
        /\ UNCHANGED <<outputs, n, assets, given>>
    BY DEF ProcessPage, InputInv, ListedInv, Early, Staged, Working
  <1>4. Distinct /\ Finals(assets) = {}
    BY <1>3, NoFinals DEF Early, Staged
  <1>5. DeliveredPages' = DeliveredPages /\ Finals(assets') = {}
    BY <1>3, <1>4, SameAssets DEF FinalsStay
  <1>6. ListedInv'
    <2>1. Len(listed') = k /\ DOMAIN listed' = 1..k /\ k \in 1..MaxOutputs
      BY <1>2, PipelineAssumption
    <2>2. \A i \in 1..k :
            /\ listed'[i].name <= MaxOutputs /\ listed'[i].pic = i
            /\ listed'[i].hasFile => files'[Id("provider", i)] = i
      <3> TAKE i \in 1..k
      <3>1. listed'[i].name = list[i].name /\ listed'[i].pic = i /\ listed'[i].hasFile = list[i].hasFile
        BY <1>2
      <3>2. list[i].name \in Unnamed..MaxOutputs
        BY <1>2
      <3>3. Id("provider", i) \in Ids /\ Id("provider", i)[2] = i
        <4>1. i \in 0..MaxOutputs
          BY PipelineAssumption
        <4> QED
          BY <4>1, InDirectory, SameId DEF Kinds
      <3>4. list[i].hasFile => files'[Id("provider", i)] = i
        BY <1>2, <3>3
      <3> QED
        BY <3>1, <3>2, <3>4, PipelineAssumption DEF Unnamed
    <2>3. DOMAIN files' = Ids
      BY <1>2
    <2>4. Len(outputs') = 0
      BY <1>3
    <2>5. Len(outputs') + Len(listed') <= MaxOutputs
      BY <2>1, <2>4, PipelineAssumption
    <2>6. \A i \in 1..k : i \in 1..MaxOutputs
      BY <2>1, PipelineAssumption
    <2> QED
      BY <1>3, <2>1, <2>2, <2>3, <2>5, <2>6 DEF ListedInv, Early, Staged, Working
  <1>7. FilesInv' /\ FinalsInv'
    BY <1>3, <1>5 DEF FilesInv, FinalsInv, Finals
  <1>8. PagesInv' /\ GivenInv'
    <2>1. Delivered = 0 /\ Delivered' = 0
      BY <1>3 DEF Delivered
    <2> QED
      BY <1>3, <1>4, <1>5, <2>1 DEF PagesInv, GivenInv, Early, Staged
  <1> QED
    BY <1>6, <1>7, <1>8

LEMMA AddPageDelivers ==
  ASSUME TypeInv, InputInv, DeliverInv, AddPageOutputFromProvider
  PROVE  DeliverInv'
  <1> USE DEF DeliverInv
  <1> DEFINE out == Head(listed)
             id == SanitizeAssetToken(out.name, Len(outputs) + 1)
             page == Id("page_processed", PageSuffix(id))
             file == Id("provider", out.pic)
             new == Output(id, page, file, out.pic)
  <1>1. /\ at = "pages" /\ at' = "pages" /\ n = 1 /\ listed # <<>>
        /\ listed' = Tail(listed) /\ UNCHANGED <<files, n, given>>
    BY DEF AddPageOutputFromProvider, InputInv, Staged
  <1>2. /\ Len(listed) \in Nat \ {0} /\ listed[1] = out /\ 1 \in DOMAIN listed
        /\ Len(listed') = Len(listed) - 1
        /\ DOMAIN listed' = 1..(Len(listed) - 1)
        /\ \A i \in DOMAIN listed' : i + 1 \in DOMAIN listed /\ listed'[i] = listed[i + 1]
    BY <1>1 DEF TypeInv
  <1>3. Len(outputs) \in Nat /\ Len(outputs) + Len(listed) <= MaxOutputs /\ DOMAIN files = Ids
    BY <1>1 DEF ListedInv, TypeInv, Early, Staged
  <1>4. out \in Listed /\ out.name <= MaxOutputs /\ out.pic \in 1..MaxOutputs
        /\ (out.hasFile => files[file] = out.pic)
    BY <1>1, <1>2 DEF ListedInv, TypeInv, Early, Staged
  <1>5. id \in 1..MaxOutputs
    BY <1>2, <1>3, <1>4, PipelineAssumption DEF SanitizeAssetToken, Listed, Unnamed
  <1>6. PageSuffix(id) \in Nat /\ out.pic \in Nat
    BY <1>4, <1>5, PipelineAssumption DEF PageSuffix, Single
  <1>7. page \in Name /\ file \in Name /\ page[1] # "final"
    BY <1>6, Naming, SameId DEF Kinds, ThumbnailTargets
  <1> HIDE DEF page, file, id
  <1>8. CASE ~out.hasFile
    <2>1. UNCHANGED <<outputs, assets>>
      BY <1>8 DEF AddPageOutputFromProvider
    <2>2. ListedInv'
      <3>1. Len(outputs') + Len(listed') <= MaxOutputs
        BY <1>2, <1>3, <2>1, PipelineAssumption
      <3> HIDE DEF out
      <3> QED
        BY <1>1, <1>2, <1>3, <3>1 DEF ListedInv, Early, Staged, Working
    <2>3. FilesStay /\ FinalsStay /\ Delivered' = Delivered
      BY <1>1, <2>1, SameAssets DEF FilesStay, Delivered
    <2> QED
      BY <1>1, <2>1, <2>2, <2>3, Harmless DEF Early, Staged
  <1>9. CASE out.hasFile
    <2>1. outputs' = Append(outputs, new) /\ assets' = AddAsset(assets, page, file)
      BY <1>9 DEF AddPageOutputFromProvider, page, file, id
    <2>2. /\ new.id = id /\ new.pic = out.pic /\ new.pageFile = file /\ new.color = file /\ new.final = file
      BY DEF Output
    <2> HIDE DEF new, out
    <2>3. /\ Len(outputs') = Len(outputs) + 1 /\ DOMAIN outputs = 1..Len(outputs)
          /\ DOMAIN outputs' = 1..(Len(outputs) + 1) /\ outputs'[Len(outputs) + 1] = new
          /\ \A i \in DOMAIN outputs : outputs'[i] = outputs[i]
      BY <2>1 DEF TypeInv
    <2>4. Distinct' => Distinct
      BY <1>3, <2>3 DEF Distinct
    <2>5. ListedInv'
      BY <1>1, <1>2, <1>3, <2>3 DEF ListedInv, Early, Staged, Working
    <2>6. FilesInv'
      <3>1. at \in Early
        BY <1>1 DEF Early, Staged
      <3>2. \A i \in DOMAIN outputs :
              LET o == outputs[i] IN
                /\ o.id \in 1..MaxOutputs /\ o.pic \in 0..MaxOutputs
                /\ o.pageFile \in {Id("original", Single), Id("provider", o.pic)}
                /\ files[o.pageFile] = o.pic
                /\ o.color = o.pageFile /\ o.final = o.pageFile
        BY <1>1, <3>1 DEF FilesInv
      <3>3. \A i \in DOMAIN outputs' :
              LET o == outputs'[i] IN
                /\ o.id \in 1..MaxOutputs /\ o.pic \in 0..MaxOutputs
                /\ o.pageFile \in {Id("original", Single), Id("provider", o.pic)}
                /\ files[o.pageFile] = o.pic
                /\ o.color = o.pageFile /\ o.final = o.pageFile
        <4> TAKE i \in DOMAIN outputs'
        <4>1. CASE i = Len(outputs) + 1
          <5>1. outputs'[i] = new
            BY <2>3, <4>1
          <5>2. file = Id("provider", out.pic) /\ files[file] = out.pic
            BY <1>4, <1>9 DEF file
          <5> QED
            BY <1>4, <1>5, <2>2, <5>1, <5>2, PipelineAssumption
        <4>2. CASE i # Len(outputs) + 1
          <5>1. i \in DOMAIN outputs /\ outputs'[i] = outputs[i]
            BY <1>3, <2>3, <4>2
          <5> QED
            BY <3>2, <5>1
        <4> QED
          BY <4>1, <4>2
      <3> QED
        BY <1>1, <3>3 DEF FilesInv
    <2>7. ASSUME Distinct
          PROVE  DeliveredPages' = DeliveredPages /\ Finals(assets) = {} /\ Finals(assets') = {}
      <3>1. Delivered = 0 /\ at \in Early
        BY <1>1 DEF Delivered, Early, Staged
      <3>2. Finals(assets) = {}
        BY <1>3, <2>3, <2>7, <3>1 DEF FinalsInv, Finals
      <3> QED
        BY <1>7, <2>1, <3>2, AddOther DEF TypeInv
    <2>8. FinalsInv'
      BY <2>4, <2>7 DEF FinalsInv, Finals
    <2>9. PagesInv' /\ GivenInv'
      <3>1. Delivered = 0 /\ Delivered' = 0
        BY <1>1 DEF Delivered
      <3>2. Distinct => DeliveredPages = <<>>
        BY <1>1, <3>1 DEF PagesInv, Early, Staged
      <3> QED
        BY <1>1, <2>4, <2>7, <3>1, <3>2 DEF PagesInv, GivenInv, Early, Staged
    <2> QED
      BY <2>5, <2>6, <2>8, <2>9
  <1> QED
    BY <1>8, <1>9

LEMMA PageProcessEndsDelivers ==
  ASSUME TypeInv, InputInv, DeliverInv, PageProcessEnds
  PROVE  DeliverInv'
  <1> USE DEF DeliverInv
  <1>1. at = "pages" /\ n = 1 /\ UNCHANGED <<listed, outputs, n, files, assets, given>>
    BY DEF PageProcessEnds, InputInv, Staged
  <1>2. CASE outputs = <<>>
    <2>1. at' = "enhance" /\ status' = "failed"
      BY <1>2 DEF PageProcessEnds, Fail
    <2> QED
      BY <1>1, <2>1 DEF ListedInv, FilesInv, FinalsInv, PagesInv, GivenInv, Early, Staged, Working
  <1>3. CASE outputs # <<>>
    <2>1. at' = "page_thumbnail"
      BY <1>3 DEF PageProcessEnds
    <2>2. FilesStay /\ FinalsStay /\ Delivered' = Delivered
      BY <1>1, <2>1, SameAssets DEF FilesStay, Delivered
    <2>3. ListedInv'
      BY <1>1, <2>1 DEF ListedInv, Early, Staged, Working
    <2> QED
      BY <1>1, <2>1, <2>2, <2>3, Harmless DEF Early, Staged, Working
  <1> QED
    BY <1>2, <1>3

LEMMA PageThumbnailDelivers ==
  ASSUME TypeInv, InputInv, DeliverInv, PageThumbnail
  PROVE  DeliverInv'
  <1>1. /\ at = "page_thumbnail" /\ at' = "color_mode" /\ n \in DOMAIN outputs
        /\ UNCHANGED <<listed, outputs, n, given>>
        /\ GenerateThumbnail("page_processed", outputs[n].page, outputs[n].pageFile,
                             Id("thumbnail-page", Suffix))
    BY DEF PageThumbnail, InputInv, Working
  <1>2. Delivered' = Delivered /\ at \in Early /\ at' \in Early /\ at' \in Working
    BY <1>1 DEF Delivered, Early, Working
  <1>3. "thumbnail-page" \in ThumbnailKinds /\ Suffix \in Nat
    BY <1>1, SuffixType DEF ThumbnailKinds
  <1> QED
    BY <1>1, <1>2, <1>3, ThumbnailStep

LEMMA ColorThumbnailDelivers ==
  ASSUME TypeInv, InputInv, DeliverInv, ColorThumbnail
  PROVE  DeliverInv'
  <1>1. /\ at = "color_thumbnail" /\ at' = "format_convert" /\ n \in DOMAIN outputs
        /\ UNCHANGED <<listed, outputs, n, given>>
        /\ GenerateThumbnail("color_processed", Id("color_processed", Suffix), outputs[n].color,
                             Id("thumbnail-color", Suffix))
    BY DEF ColorThumbnail, InputInv, Working
  <1>2. Delivered' = Delivered /\ at \in Early /\ at' \in Early /\ at' \in Working
    BY <1>1 DEF Delivered, Early, Working
  <1>3. "thumbnail-color" \in ThumbnailKinds /\ Suffix \in Nat
    BY <1>1, SuffixType DEF ThumbnailKinds
  <1> QED
    BY <1>1, <1>2, <1>3, ThumbnailStep

\* The last thumbnail of an output, and the next output or the end.
LEMMA FinalThumbnailDelivers ==
  ASSUME TypeInv, InputInv, DeliverInv, FinalThumbnail
  PROVE  DeliverInv'
  <1> USE DEF DeliverInv
  <1>1. /\ at = "final_thumbnail" /\ n \in DOMAIN outputs /\ n' = n + 1
        /\ at' = IF n = Len(outputs) THEN "finalize_result" ELSE "page_thumbnail"
        /\ UNCHANGED <<listed, outputs, given>>
        /\ GenerateThumbnail("final", Id("final", Suffix), outputs[n].final,
                             Id("thumbnail-final", Suffix))
    BY DEF FinalThumbnail, InputInv, Working
  <1>2. "thumbnail-final" \in ThumbnailKinds /\ Suffix \in Nat
    BY <1>1, SuffixType DEF ThumbnailKinds
  <1>3. n \in Nat /\ Delivered = n
    BY <1>1 DEF Delivered, TypeInv
  <1>4. CASE n = Len(outputs)
    <2>1. at' = "finalize_result"
      BY <1>1, <1>4
    <2>2. at \in Early
      BY <1>1 DEF Early, Working
    <2>3. Distinct => DeliveredPages' = DeliveredPages
      BY <1>1, <1>2, <2>2, ThumbnailApart DEF FinalsStay
    <2>4. Distinct => DeliveredPages = Pictures
      <3>1. DOMAIN outputs = 1..n
        BY <1>4 DEF TypeInv
      <3> QED
        BY <1>3, <2>2, <3>1 DEF PagesInv, Pictures
    <2>5. (Distinct' <=> Distinct) /\ Pictures' = Pictures
      BY <1>1 DEF Distinct, Pictures
    <2> QED
      BY <1>1, <2>1, <2>3, <2>4, <2>5
         DEF ListedInv, FilesInv, FinalsInv, PagesInv, GivenInv, Early, Staged, Working
  <1>5. CASE n # Len(outputs)
    <2>1. at' = "page_thumbnail" /\ Delivered' = Delivered
      BY <1>1, <1>3, <1>5 DEF Delivered
    <2>2. at \in Early /\ at' \in Early /\ at' \in Working
      BY <1>1, <2>1 DEF Early, Working
    <2> QED
      BY <1>1, <1>2, <2>1, <2>2, ThumbnailStep
  <1> QED
    BY <1>4, <1>5

LEMMA ColorModeDelivers ==
  ASSUME TypeInv, InputInv, DeliverInv, ApplyColorMode
  PROVE  DeliverInv'
  <1> USE DEF DeliverInv
  <1> DEFINE color == Id("color_processed", Suffix)
             o == outputs[n]
  <1>1. /\ at = "color_mode" /\ at' = "color_thumbnail" /\ n \in DOMAIN outputs
        /\ UNCHANGED <<listed, n, given>> /\ at \in Early /\ at' \in Early
    BY DEF ApplyColorMode, InputInv, Early, Working
  <1>2. Suffix = SuffixOf(n) /\ Suffix \in 0..MaxOutputs
    BY <1>1, SuffixIs, SuffixOfType
  <1>3. /\ color \in Ids /\ color \in Name /\ color[1] # "final"
        /\ o \in OutputRecord /\ o.pageFile \in Name
    <2>1. o \in OutputRecord
      BY <1>1 DEF TypeInv
    <2> QED
      BY <1>2, <2>1, InDirectory, Naming, SameId, PipelineAssumption
         DEF Kinds, ThumbnailTargets, OutputRecord
  <1>4. PICK new \in {color, o.pageFile} :
          /\ outputs' = [outputs EXCEPT ![n].color = new]
          /\ new = color => files' = [files EXCEPT ![color] = files[o.pageFile]]
          /\ new # color => files' = files
          /\ assets' = AddAsset(assets, color, outputs'[n].color)
    <2>1. color # o.pageFile
      BY <1>1, SameId DEF FilesInv
    <2> QED
      BY <2>1 DEF ApplyColorMode
  <1>5. /\ DOMAIN outputs' = DOMAIN outputs /\ Len(outputs') = Len(outputs)
        /\ \A i \in DOMAIN outputs : outputs'[i].id = outputs[i].id /\ outputs'[i].pic = outputs[i].pic
        /\ \A i \in DOMAIN outputs : i # n => outputs'[i] = outputs[i]
        /\ outputs'[n].color = new /\ outputs'[n].final = o.final /\ outputs'[n].pageFile = o.pageFile
    <2>1. new \in Name /\ outputs \in Seq(OutputRecord)
      BY <1>3 DEF TypeInv
    <2>2. /\ DOMAIN outputs' = DOMAIN outputs /\ Len(outputs') = Len(outputs)
          /\ \A i \in DOMAIN outputs : outputs'[i].id = outputs[i].id
      BY <1>1, <1>4, <2>1, Rewritten
    <2>3. /\ outputs'[n].color = new /\ outputs'[n].final = outputs[n].final
          /\ outputs'[n].pageFile = outputs[n].pageFile /\ outputs'[n].pic = outputs[n].pic
          /\ \A i \in DOMAIN outputs : i # n => outputs'[i] = outputs[i]
      BY <1>1, <1>4, <2>1, RewrittenRest
    <2> QED
      BY <2>2, <2>3
  <1>6. /\ Distinct' <=> Distinct
        /\ \A i \in DOMAIN outputs : SuffixOf(i)' = SuffixOf(i)
    BY <1>5 DEF Distinct, SuffixOf
  <1>7. /\ DOMAIN files' = Ids
        /\ \A f \in Ids : f # color => files'[f] = files[f]
        /\ files'[new] = files[o.pageFile]
    <2>1. DOMAIN files = Ids
      BY <1>1 DEF ListedInv
    <2>2. CASE new = color
      BY <1>3, <1>4, <2>1, <2>2
    <2>3. CASE new # color
      BY <1>4, <2>1, <2>3
    <2> QED
      BY <2>2, <2>3
  <1>8. ListedInv'
    BY <1>1, <1>7 DEF ListedInv, Early, Staged, Working
  <1> HIDE DEF color
  <1>8a. \A i \in DOMAIN outputs :
              outputs[i].pageFile \in Ids /\ outputs[i].color \in Ids /\ outputs[i].final \in Ids
    BY <1>1, ShownByFiles
  <1>9. FilesInv'
    <2> SUFFICES ASSUME NEW i \in DOMAIN outputs
                 PROVE  LET p == outputs'[i] IN
                          /\ p.id \in 1..MaxOutputs /\ p.pic \in 0..MaxOutputs
                          /\ p.pageFile \in {Id("original", Single), Id("provider", p.pic)}
                          /\ p.color \in {p.pageFile, Id("color_processed", SuffixOf(i))}
                          /\ p.final \in {p.pageFile, Id("color_processed", SuffixOf(i)), Id("final", SuffixOf(i))}
                          /\ files'[p.pageFile] = p.pic
                          /\ Distinct => files'[p.color] = p.pic /\ files'[p.final] = p.pic
      BY <1>1, <1>5, <1>6 DEF FilesInv
    <2>1. outputs[i].pageFile # color
      BY <1>1, SameId DEF FilesInv, color
    <2>2. CASE i = n
      <3>1. files'[o.pageFile] = o.pic
        BY <1>1, <1>7, <1>8a, <2>1, <2>2 DEF FilesInv
      <3>2. Distinct => files'[o.final] = o.pic
        <4>1. CASE o.final = color
          <5>1. new = color \/ files' = files
            BY <1>4
          <5> QED
            BY <1>1, <1>7, <1>8a, <4>1, <5>1 DEF FilesInv
        <4>2. CASE o.final # color
          BY <1>1, <1>7, <1>8a, <4>2 DEF FilesInv
        <4> QED
          BY <4>1, <4>2
      <3> QED
        BY <1>1, <1>2, <1>4, <1>5, <1>7, <2>2, <3>1, <3>2 DEF FilesInv, color
    <2>3. CASE i # n
      <3>1. outputs'[i] = outputs[i]
        BY <1>5, <2>3
      <3>2. Distinct => outputs[i].color # color /\ outputs[i].final # color
        BY <1>1, <1>2, <2>3, OtherFiles DEF color
      <3> QED
        BY <1>1, <1>7, <1>8a, <2>1, <3>1, <3>2 DEF FilesInv
    <2> QED
      BY <2>2, <2>3
  <1>10. ASSUME Distinct
         PROVE  /\ DeliveredPages' = DeliveredPages
                /\ \A i \in Finals(assets') :
                     /\ i \in Finals(assets) /\ assets'[i] = assets[i]
                     /\ \E j \in DOMAIN outputs : j <= Delivered /\ j # n
                          /\ assets[i].id = Id("final", SuffixOf(j)) /\ assets[i].file = outputs[j].final
    <2>1. n \in Nat /\ Delivered = n - 1
      BY <1>1 DEF Delivered, TypeInv
    <2>2. \A i \in Finals(assets) : \E j \in DOMAIN outputs : j <= Delivered /\ j # n
             /\ assets[i].id = Id("final", SuffixOf(j)) /\ assets[i].file = outputs[j].final
      <3> TAKE i \in Finals(assets)
      <3>1. PICK j \in DOMAIN outputs : j <= Delivered
               /\ assets[i].id = Id("final", SuffixOf(j)) /\ assets[i].file = outputs[j].final
        BY <1>1, <1>10 DEF FinalsInv, Finals
      <3>2. j # n
        BY <2>1, <3>1
      <3> QED
        BY <3>1, <3>2
    <2>3. \A i \in Finals(assets) : files'[assets[i].file] = files[assets[i].file]
      <3> TAKE i \in Finals(assets)
      <3>1. PICK j \in DOMAIN outputs : j # n /\ assets[i].file = outputs[j].final
        BY <2>2
      <3>2. outputs[j].final # color
        BY <1>1, <1>2, <1>10, <3>1, OtherFiles DEF color
      <3> QED
        BY <1>7, <1>8a, <3>1, <3>2
    <2>4. assets' = AddAsset(assets, color, new) /\ new \in Name /\ assets \in Seq(Asset)
      BY <1>3, <1>4, <1>5 DEF TypeInv, color
    <2>5. color \in Name /\ color[1] # "final"
      BY <1>3 DEF color
    <2>6. DeliveredPages' = DeliveredPages /\ \A i \in Finals(assets') : i \in Finals(assets) /\ assets'[i] = assets[i]
      BY <2>3, <2>4, <2>5, AddOther
    <2> QED
      BY <2>2, <2>6
  <1>11. Delivered' = Delivered /\ Delivered = n - 1 /\ n \in Nat \ {0}
    BY <1>1 DEF Delivered, TypeInv
  <1>12. FinalsInv'
    <2> SUFFICES ASSUME Distinct, NEW i \in Finals(assets')
                 PROVE  \E j \in DOMAIN outputs' :
                          /\ j <= Delivered
                          /\ assets'[i].id = Id("final", SuffixOf(j)') /\ assets'[i].file = outputs'[j].final
      BY <1>6, <1>11 DEF FinalsInv, Finals
    <2>1. PICK j \in DOMAIN outputs : j <= Delivered /\ j # n
             /\ assets[i].id = Id("final", SuffixOf(j)) /\ assets[i].file = outputs[j].final
      BY <1>10
    <2> QED
      BY <1>5, <1>6, <1>10, <2>1
  <1>13. PagesInv'
    <2>1. Distinct => DeliveredPages = [i \in 1..(n - 1) |-> outputs[i].pic]
      BY <1>1, <1>11 DEF PagesInv
    <2>2. \A i \in 1..(n - 1) : i \in DOMAIN outputs
      BY <1>1, <1>11 DEF TypeInv
    <2>3. [i \in 1..(n - 1) |-> outputs'[i].pic] = [i \in 1..(n - 1) |-> outputs[i].pic]
      BY <1>5, <2>2
    <2>4. Distinct' => DeliveredPages' = [i \in 1..(n - 1) |-> outputs'[i].pic]
      BY <1>6, <1>10, <2>1, <2>3
    <2> QED
      BY <1>1, <1>11, <2>4 DEF PagesInv
  <1>14. GivenInv'
    BY <1>1 DEF GivenInv
  <1> QED
    BY <1>8, <1>9, <1>12, <1>13, <1>14

LEMMA FormatConvertDelivers ==
  ASSUME TypeInv, InputInv, DeliverInv, FormatConvert
  PROVE  DeliverInv'
  <1> USE DEF DeliverInv
  <1> DEFINE final == Id("final", Suffix)
             o == outputs[n]
  <1>1. /\ at = "format_convert" /\ at' = "final_thumbnail" /\ n \in DOMAIN outputs
        /\ UNCHANGED <<listed, n, given>> /\ at \in Early /\ at' \in Early
    BY DEF FormatConvert, InputInv, Early, Working
  <1>2. Suffix = SuffixOf(n) /\ Suffix \in 0..MaxOutputs
    BY <1>1, SuffixIs, SuffixOfType
  <1>3. /\ final \in Ids /\ final \in Name /\ final[1] = "final"
        /\ o \in OutputRecord /\ o.color \in Name
    <2>1. o \in OutputRecord
      BY <1>1 DEF TypeInv
    <2> QED
      BY <1>2, <2>1, InDirectory, Naming, SameId, PipelineAssumption
         DEF Kinds, ThumbnailTargets, OutputRecord
  <1>4. o.color # final
    BY <1>1, SameId DEF FilesInv
  <1>5. PICK new \in {final, o.color} :
          /\ outputs' = [outputs EXCEPT ![n].final = new]
          /\ new = final => files' = [files EXCEPT ![final] = files[o.color]]
          /\ new # final => files' = files
          /\ assets' = AddAsset(assets, final, outputs'[n].final)
    BY <1>4 DEF FormatConvert
  <1>6. /\ DOMAIN outputs' = DOMAIN outputs /\ Len(outputs') = Len(outputs)
        /\ \A i \in DOMAIN outputs : outputs'[i].id = outputs[i].id /\ outputs'[i].pic = outputs[i].pic
        /\ \A i \in DOMAIN outputs : i # n => outputs'[i] = outputs[i]
        /\ outputs'[n].final = new /\ outputs'[n].color = o.color /\ outputs'[n].pageFile = o.pageFile
    <2>1. new \in Name /\ outputs \in Seq(OutputRecord)
      BY <1>3 DEF TypeInv
    <2>2. /\ DOMAIN outputs' = DOMAIN outputs /\ Len(outputs') = Len(outputs)
          /\ \A i \in DOMAIN outputs : outputs'[i].id = outputs[i].id
      BY <1>1, <1>5, <2>1, Rewritten
    <2>3. /\ outputs'[n].final = new /\ outputs'[n].color = outputs[n].color
          /\ outputs'[n].pageFile = outputs[n].pageFile /\ outputs'[n].pic = outputs[n].pic
          /\ \A i \in DOMAIN outputs : i # n => outputs'[i] = outputs[i]
      BY <1>1, <1>5, <2>1, RewrittenRest
    <2> QED
      BY <2>2, <2>3
  <1>7. /\ Distinct' <=> Distinct
        /\ \A i \in DOMAIN outputs : SuffixOf(i)' = SuffixOf(i)
    BY <1>6 DEF Distinct, SuffixOf
  <1>8. /\ DOMAIN files' = Ids
        /\ \A f \in Ids : f # final => files'[f] = files[f]
        /\ files'[new] = files[o.color]
    <2>1. DOMAIN files = Ids
      BY <1>1 DEF ListedInv
    <2>2. CASE new = final
      BY <1>3, <1>5, <2>1, <2>2
    <2>3. CASE new # final
      BY <1>5, <2>1, <2>3
    <2> QED
      BY <2>2, <2>3
  <1>9. ListedInv'
    BY <1>1, <1>8 DEF ListedInv, Early, Staged, Working
  <1>10. \A i \in DOMAIN outputs :
           outputs[i].pageFile \in Ids /\ outputs[i].color \in Ids /\ outputs[i].final \in Ids
    BY <1>1, ShownByFiles
  <1> HIDE DEF final
  <1>11. FilesInv'
    <2> SUFFICES ASSUME NEW i \in DOMAIN outputs
                 PROVE  LET p == outputs'[i] IN
                          /\ p.id \in 1..MaxOutputs /\ p.pic \in 0..MaxOutputs
                          /\ p.pageFile \in {Id("original", Single), Id("provider", p.pic)}
                          /\ p.color \in {p.pageFile, Id("color_processed", SuffixOf(i))}
                          /\ p.final \in {p.pageFile, Id("color_processed", SuffixOf(i)), Id("final", SuffixOf(i))}
                          /\ files'[p.pageFile] = p.pic
                          /\ Distinct => files'[p.color] = p.pic /\ files'[p.final] = p.pic
      BY <1>1, <1>6, <1>7 DEF FilesInv
    <2>1. outputs[i].pageFile # final
      BY <1>1, SameId DEF FilesInv, final
    <2>2. CASE i = n
      <3>1. files'[o.pageFile] = o.pic
        BY <1>1, <1>8, <1>10, <2>1, <2>2 DEF FilesInv
      <3>2. Distinct => files'[o.color] = o.pic /\ files'[new] = o.pic
        BY <1>1, <1>4, <1>8, <1>10 DEF FilesInv
      <3> QED
        BY <1>1, <1>2, <1>5, <1>6, <2>2, <3>1, <3>2 DEF FilesInv, final
    <2>3. CASE i # n
      <3>1. outputs'[i] = outputs[i]
        BY <1>6, <2>3
      <3>2. Distinct => outputs[i].color # final /\ outputs[i].final # final
        BY <1>1, <1>2, <2>3, OtherFiles DEF final
      <3> QED
        BY <1>1, <1>8, <1>10, <2>1, <3>1, <3>2 DEF FilesInv
    <2> QED
      BY <2>2, <2>3
  <1>12. n \in Nat \ {0} /\ Delivered = n - 1 /\ Delivered' = n
    BY <1>1 DEF Delivered, TypeInv
  <1>13. ASSUME Distinct, NEW i \in Finals(assets)
         PROVE  \E j \in DOMAIN outputs :
                  /\ j <= n - 1 /\ j # n
                  /\ assets[i].id = Id("final", SuffixOf(j)) /\ assets[i].file = outputs[j].final
                  /\ assets[i].id # final /\ files'[assets[i].file] = files[assets[i].file]
    <2>1. PICK j \in DOMAIN outputs : j <= n - 1
             /\ assets[i].id = Id("final", SuffixOf(j)) /\ assets[i].file = outputs[j].final
      BY <1>1, <1>12, <1>13 DEF FinalsInv, Finals
    <2>2. j # n
      BY <1>12, <2>1
    <2>3. outputs[j].final # final /\ SuffixOf(n) # SuffixOf(j)
      BY <1>1, <1>2, <1>13, <2>2, OtherFiles DEF final
    <2>4. assets[i].id # final
      BY <1>2, <2>1, <2>3, SameId DEF final
    <2> QED
      BY <1>8, <1>10, <2>1, <2>2, <2>3, <2>4
  <1>14. ASSUME Distinct
         PROVE  /\ DeliveredPages' = Append(DeliveredPages, files'[new])
                /\ \A i \in Finals(assets') :
                     \/ i \in Finals(assets) /\ assets'[i] = assets[i]
                     \/ assets'[i] = [id |-> final, file |-> new]
    <2>1. final \notin AssetIds
      BY <1>3, <1>13, <1>14 DEF AssetIds, Finals, IsPage, final
    <2>2. assets' = AddAsset(assets, final, new) /\ new \in Name /\ assets \in Seq(Asset)
      BY <1>3, <1>5, <1>6 DEF TypeInv, final
    <2>3. final \in Name /\ final[1] = "final"
      BY <1>3 DEF final
    <2>4. \A i \in Finals(assets) : files'[assets[i].file] = files[assets[i].file]
      BY <1>13, <1>14
    <2> QED
      BY <2>1, <2>2, <2>3, <2>4, AddFinal
  <1>15. FinalsInv'
    <2> SUFFICES ASSUME Distinct, NEW i \in Finals(assets')
                 PROVE  \E j \in DOMAIN outputs' :
                          /\ j <= n
                          /\ assets'[i].id = Id("final", SuffixOf(j)') /\ assets'[i].file = outputs'[j].final
      BY <1>7, <1>12 DEF FinalsInv, Finals
    <2>1. CASE i \in Finals(assets) /\ assets'[i] = assets[i]
      <3>1. PICK j \in DOMAIN outputs : j <= n - 1 /\ j # n
               /\ assets[i].id = Id("final", SuffixOf(j)) /\ assets[i].file = outputs[j].final
        BY <1>13, <2>1
      <3>2. j <= n /\ outputs'[j] = outputs[j] /\ SuffixOf(j)' = SuffixOf(j)
        <4>1. j \in Nat
          BY <3>1 DEF TypeInv
        <4> QED
          BY <1>6, <1>7, <1>12, <3>1, <4>1
      <3> QED
        BY <1>6, <2>1, <3>1, <3>2
    <2>2. CASE assets'[i] = [id |-> final, file |-> new]
      <3>1. assets'[i].id = Id("final", SuffixOf(n)') /\ assets'[i].file = outputs'[n].final
        BY <1>1, <1>2, <1>6, <1>7, <2>2 DEF final
      <3> QED
        BY <1>1, <1>6, <1>12, <3>1
    <2> QED
      BY <1>14, <2>1, <2>2
  <1>16. PagesInv'
    <2>1. Distinct => DeliveredPages = [i \in 1..(n - 1) |-> outputs[i].pic]
      BY <1>1, <1>12 DEF PagesInv
    <2>2. \A i \in 1..n : i \in DOMAIN outputs
      BY <1>1, <1>12 DEF TypeInv
    <2>3. [i \in 1..n |-> outputs'[i].pic] = [i \in 1..n |-> outputs[i].pic]
      BY <1>6, <2>2
    <2>4. Distinct => files'[new] = o.pic
      BY <1>1, <1>8 DEF FilesInv
    <2>5. Append([i \in 1..(n - 1) |-> outputs[i].pic], o.pic) = [i \in 1..n |-> outputs[i].pic]
      <3> DEFINE pics == [i \in 1..(n - 1) |-> outputs[i].pic]
                 more == [i \in 1..n |-> outputs[i].pic]
      <3>1. pics \in Seq({outputs[i].pic : i \in DOMAIN outputs}) /\ Len(pics) = n - 1
        BY <1>12, <2>2
      <3> QED
        BY <1>12, <3>1
    <2>6. Distinct' => DeliveredPages' = [i \in 1..n |-> outputs'[i].pic]
      BY <1>7, <1>14, <2>1, <2>3, <2>4, <2>5
    <2> QED
      BY <1>1, <1>12, <2>6 DEF PagesInv
  <1>17. GivenInv'
    BY <1>1 DEF GivenInv
  <1> QED
    BY <1>9, <1>11, <1>15, <1>16, <1>17

LEMMA DeliverInit == Init => DeliverInv
  <1> SUFFICES ASSUME Init PROVE DeliverInv
    OBVIOUS
  <1>1. outputs = <<>> /\ listed = <<>> /\ assets = <<>> /\ n = 1 /\ at = "capture_raw"
        /\ DOMAIN files = Ids /\ given.first = <<>> /\ DOMAIN given = {"first", "now"}
    BY DEF Init
  <1>2. DeliveredPages = <<>>
    BY <1>1, NoPages DEF DeliveredPages
  <1>3. Delivered = 0
    BY <1>1 DEF Delivered
  <1> QED
    BY <1>1, <1>2, <1>3 DEF DeliverInv, ListedInv, FilesInv, FinalsInv, PagesInv, GivenInv, Early, Staged, Working

LEMMA DeliverStep ==
  ASSUME Inv, DeliverInv, [Next]_vars
  PROVE  DeliverInv'
  <1>1. at # "done" => TypeInv /\ InputInv
    BY DEF Inv
  <1>2. CASE CaptureRaw \/ OriginalThumbnail \/ PageFallback
    BY <1>1, <1>2, CaptureRawDelivers, OriginalThumbnailDelivers, PageFallbackDelivers
       DEF CaptureRaw, OriginalThumbnail, PageFallback
  <1>3. CASE ProcessPage \/ AddPageOutputFromProvider \/ PageProcessEnds
    BY <1>1, <1>3, ProcessPageDelivers, AddPageDelivers, PageProcessEndsDelivers
       DEF ProcessPage, AddPageOutputFromProvider, PageProcessEnds
  <1>4. CASE PageThumbnail \/ ApplyColorMode \/ ColorThumbnail
    BY <1>1, <1>4, PageThumbnailDelivers, ColorModeDelivers, ColorThumbnailDelivers
       DEF PageThumbnail, ApplyColorMode, ColorThumbnail
  <1>5. CASE FormatConvert \/ FinalThumbnail
    BY <1>1, <1>5, FormatConvertDelivers, FinalThumbnailDelivers DEF FormatConvert, FinalThumbnail
  <1>6. CASE CaptureRawFails \/ FormatConvertFails
    <2>1. at' = "enhance" /\ status' = "failed" /\ UNCHANGED given /\ at \in Early
      BY <1>6 DEF CaptureRawFails, FormatConvertFails, Fail, Early, Working
    <2> QED
      BY <2>1 DEF DeliverInv, ListedInv, FilesInv, FinalsInv, PagesInv, GivenInv, Early, Staged, Working
  <1> USE DEF DeliverInv, ListedInv, FilesInv, FinalsInv, PagesInv, GivenInv, Early, Staged, Working
  <1>7. UNCHANGED <<outputs, assets, files>> =>
          /\ Distinct' <=> Distinct
          /\ Pictures' = Pictures /\ DeliveredPages' = DeliveredPages
    BY DEF Distinct, Pictures, DeliveredPages
  <1>8. CASE FinalizeResult
    BY <1>7, <1>8 DEF FinalizeResult
  <1>9. CASE SkipEnhance
    BY <1>9 DEF SkipEnhance
  <1>10. CASE BeginEnhance
    <2>1. /\ at = "enhance" /\ at' = "enhancing" /\ UNCHANGED <<outputs, assets, files, status>>
          /\ given' = [first |-> FinalPages, now |-> FinalPages]
      BY <1>10 DEF BeginEnhance, result
    <2>2. PagesOf(given'.first, files') = DeliveredPages /\ DOMAIN given' = {"first", "now"}
      <3>1. given'.first = Collect(assets, FinalKinds, assets) /\ files' = files
        BY <2>1 DEF FinalPages
      <3>2. assets \in Seq(Asset)
        BY <1>1, <2>1 DEF TypeInv
      <3> QED
        BY <2>1, <3>1, <3>2, FinalsDeliver DEF DeliveredPages
    <2> QED
      BY <1>7, <2>1, <2>2
  <1>11. CASE RunStep \/ SkipStep
    <2>1. given'.first = given.first /\ DOMAIN given' = {"first", "now"}
      BY <1>11 DEF RunStep, SkipStep
    <2>2. at = "enhancing" /\ at' = at /\ UNCHANGED <<outputs, assets, files, status>>
      BY <1>11 DEF RunStep, SkipStep, result
    <2> QED
      BY <1>7, <2>1, <2>2
  <1>12. CASE EnhanceFails
    BY <1>12 DEF EnhanceFails
  <1>13. CASE EnhanceEnds
    <2>1. at = "enhancing" /\ at' = "done" /\ UNCHANGED <<outputs, files, status, given>>
      BY <1>13 DEF EnhanceEnds, result
    <2>2. (Distinct' <=> Distinct) /\ Pictures' = Pictures
      BY <2>1 DEF Distinct, Pictures
    <2> QED
      BY <2>1, <2>2
  <1>14. CASE UNCHANGED vars
    <2>1. UNCHANGED <<at, listed, outputs, n, files, assets, status, given>>
      BY <1>14 DEF vars, result
    <2>2. \A i : SuffixOf(i)' = SuffixOf(i)
      BY <2>1 DEF SuffixOf
    <2>3. Delivered' = Delivered
      BY <2>1 DEF Delivered
    <2>4. ListedInv' /\ GivenInv'
      BY <1>7, <2>1
    <2>5. FilesInv' /\ FinalsInv'
      BY <1>7, <2>1, <2>2, <2>3
    <2>6. PagesInv'
      BY <1>7, <2>1, <2>3
    <2> QED
      BY <2>4, <2>5, <2>6
  <1> QED
    BY <1>2, <1>3, <1>4, <1>5, <1>6, <1>8, <1>9, <1>10, <1>11, <1>12, <1>13, <1>14 DEF Next

\* A capture that is reported as succeeded delivers every page (SucceededDeliversPages):
\* however many pages the provider lists and whatever each stage converts, passes through or
\* falls back on, the final assets show the pages one by one, in their order.  The stages
\* share one directory and one list of assets, and no page takes another's file or place.
THEOREM CapturesDeliver == Spec => []SucceededDeliversPages
  <1>1. DeliverInv => SucceededDeliversPages
    BY DEF DeliverInv, PagesInv, SucceededDeliversPages, DeliveredPages
  <1> QED
    BY <1>1, InvInit, InvStep, DeliverInit, DeliverStep, PTL DEF Spec

\* An enhanced capture that is reported as succeeded was made of all its pages
\* (EnhancedFromAllPages), each given once and in its order, whichever thumbnails are given
\* with them.  The enhancement may go on after a conversion that was refused with the code
\* Ok, with the pages before it, but never makes the result a success.
THEOREM EnhancementsComplete == Spec => []EnhancedFromAllPages
  <1>1. DeliverInv => EnhancedFromAllPages
    BY DEF DeliverInv, GivenInv, EnhancedFromAllPages
  <1> QED
    BY <1>1, InvInit, InvStep, DeliverInit, DeliverStep, PTL DEF Spec
=============================================================================
