------------------------------ MODULE ImageTools ------------------------------
(***************************************************************************)
(* The image tools of the site, which work in the browser: image-tools.tsx,*)
(* image-advanced-tools.tsx, image-palette-extractor.tsx,                  *)
(* image-data-uri-workbench.tsx and qr-code-workbench.tsx under            *)
(* src/apps/web/src/features/tools/.                                       *)
(*                                                                         *)
(* A tool decodes the file that was picked and encodes a result of it;     *)
(* both take time, nothing orders one against the other, and neither is    *)
(* called off when the user picks another file or leaves.  The results are *)
(* object URLs: the browser holds the memory behind each one until it is   *)
(* revoked.  Bitmaps are known by the number of the pick, URLs by run and  *)
(* part.  What a tool says about a file or an error is left out.           *)
(***************************************************************************)
EXTENDS Naturals, FiniteSets

CONSTANTS
    MaxPicks,  \* bound of the model: files picked in one visit
    MaxRuns    \* bound of the model: results asked for in one visit

ASSUME ImageAssumption == MaxPicks \in Nat /\ MaxRuns \in Nat

VARIABLES
    imageTool,  \* the tool that is open
    opened,     \* it still is
    image,      \* the picked file whose bitmap the tool holds, 0 for none
    decoding,   \* the picked files that are being decoded
    closed,     \* the bitmaps that were closed
    picks,
    encoding,    \* run -> [image, done]: the runs that are under way
    runs,
    output,     \* the run whose result is shown, 0 for none
    urls,       \* the object URLs that were made
    revoked     \* and those of them that were revoked

imageVars == <<imageTool, opened, image, decoding, closed, picks, encoding, runs,
               output, urls, revoked>>

-----------------------------------------------------------------------------
(***************************************************************************)
(* Tools.  startsOver: a pick takes the result off; empties: and the image *)
(* before the new one is decoded; drops: an unreadable pick leaves no      *)
(* image; closes: a bitmap that is no longer held is closed; waits: how    *)
(* often a run waits for the browser; parts: how many URLs it makes;       *)
(* blanks: a run that fails takes the result off.                          *)
(***************************************************************************)
Raster ==
    [startsOver |-> FALSE, empties |-> FALSE, drops |-> FALSE, closes |-> FALSE,
     waits |-> 1, parts |-> 1, blanks |-> FALSE, given |-> FALSE]

ImageOptimizerTool       == Raster
ImageFormatConverterTool == Raster
ImageResizerTool         == Raster
ImageCropperTool         == Raster
AddWatermarkImageTool    == Raster
ImageMetadataViewerTool  == [Raster EXCEPT !.startsOver = TRUE]

\* FAVICON_ASSETS are five; two show how a run is overtaken between them.
FaviconGeneratorTool ==
    [Raster EXCEPT !.startsOver = TRUE, !.drops = TRUE, !.closes = TRUE,
                   !.waits = 2, !.parts = 2]

\* The source text is there from the start and is not decoded.
SvgOptimizerTool == [Raster EXCEPT !.waits = 0, !.given = TRUE]

ImagePaletteExtractorTool ==
    [Raster EXCEPT !.startsOver = TRUE, !.drops = TRUE, !.closes = TRUE,
                   !.waits = 0, !.parts = 0, !.blanks = TRUE]
QrCodeWorkbenchTool ==
    [ImagePaletteExtractorTool EXCEPT !.empties = TRUE, !.drops = FALSE]

\* It waits for the bytes of the file before it draws.
ImageDataUriWorkbenchTool == [QrCodeWorkbenchTool EXCEPT !.waits = 2]

ImageToolSet ==
    {ImageOptimizerTool, ImageFormatConverterTool, ImageResizerTool,
     ImageCropperTool, AddWatermarkImageTool, ImageMetadataViewerTool,
     FaviconGeneratorTool, SvgOptimizerTool, ImagePaletteExtractorTool,
     QrCodeWorkbenchTool, ImageDataUriWorkbenchTool}

Parts(run, count) == {<<run, part>> : part \in 1 .. count}
Urls(run) == IF run = 0 THEN {} ELSE Parts(run, imageTool.parts)

ImageInit ==
    /\ imageTool \in ImageToolSet
    /\ opened = TRUE
    /\ image = 0 /\ decoding = {} /\ closed = {} /\ picks = 0
    /\ encoding = [r \in {} |-> 0] /\ runs = 0
    /\ output = 0 /\ urls = {} /\ revoked = {}

-----------------------------------------------------------------------------
\* The effect that closes the bitmap the tool lets go of.
Closed(held) == IF imageTool.closes /\ held # 0 THEN {held} ELSE {}

Hold(next) ==
    /\ image' = next
    /\ closed' = IF next = image THEN closed ELSE closed \cup Closed(image)

\* Mutant: the state is set without the URL that was shown being revoked.
ReplaceOnly(next) == output' = next /\ UNCHANGED revoked

\* useObjectUrlResult, useImageResult: set the result and revoke the old URLs.
Replace(next) ==
    /\ output' = next
    /\ revoked' = IF next = output THEN revoked ELSE revoked \cup Urls(output)

\* load: a file is picked, or the picker is left without one.
PickFile ==
    /\ opened
    /\ picks < MaxPicks
    /\ picks' = picks + 1
    /\ \/ decoding' = decoding \cup {picks + 1}
          /\ Hold(IF imageTool.empties THEN 0 ELSE image)
       \/ UNCHANGED decoding
          /\ Hold(IF imageTool.drops \/ imageTool.empties THEN 0 ELSE image)
    /\ Replace(IF imageTool.startsOver THEN 0 ELSE output)
    /\ UNCHANGED <<imageTool, opened, encoding, runs, urls>>

\* createImageBitmap resolves; nothing is held once the tool is gone.
Decoded(pick) ==
    /\ pick \in decoding
    /\ decoding' = decoding \ {pick}
    /\ \/ Hold(IF opened THEN pick ELSE image)
       \/ Hold(IF opened /\ imageTool.drops THEN 0 ELSE image)
    /\ UNCHANGED <<imageTool, opened, picks, encoding, runs, output, urls, revoked>>

-----------------------------------------------------------------------------
Finished(run) == encoding' = [r \in DOMAIN encoding \ {run} |-> encoding[r]]

\* The catch of a run: what it had made goes; the result may.
GiveUp(run, made) ==
    /\ Finished(run)
    /\ urls' = urls \cup made
    /\ IF opened /\ imageTool.blanks
       THEN output' = 0 /\ revoked' = revoked \cup Urls(output) \cup made
       ELSE revoked' = revoked \cup made /\ UNCHANGED output

\* run, generate, create: up to the first wait; a run without one ends here.
StartRun ==
    /\ opened
    /\ image # 0 \/ imageTool.given
    /\ runs < MaxRuns
    /\ runs' = runs + 1
    /\ \/ /\ imageTool.waits > 0
          /\ encoding' = [r \in DOMAIN encoding \cup {runs + 1} |->
                           IF r = runs + 1 THEN [image |-> image, done |-> 0]
                           ELSE encoding[r]]
          /\ UNCHANGED <<urls, output, revoked>>
       \/ /\ imageTool.waits = 0
          /\ urls' = urls \cup Urls(runs + 1)
          /\ Replace(runs + 1)
          /\ UNCHANGED encoding
       \/ GiveUp(0, {})
    /\ UNCHANGED <<imageTool, opened, image, decoding, closed, picks>>

\* Drawing a bitmap that was closed throws.
CanDraw(run) == encoding[run].image \notin closed

\* A part is encoded and the next one is drawn.
NextPart(run) ==
    LET done == encoding[run].done + 1 IN
    /\ encoding' = [encoding EXCEPT ![run].done = done]
    /\ urls' = urls \cup (Parts(run, done) \cap Urls(run))
    /\ UNCHANGED <<output, revoked>>

\* The last part: the result is shown, unless the tool is gone.
ShowRun(run) ==
    /\ Finished(run)
    /\ urls' = urls \cup Urls(run)
    /\ IF opened THEN Replace(run) ELSE UNCHANGED <<output, revoked>>

ContinueRun(run) ==
    LET done == encoding[run].done + 1
        made == Parts(run, encoding[run].done) \cap Urls(run)
    IN
    /\ \/ done < imageTool.waits /\ CanDraw(run) /\ NextPart(run)
       \/ done < imageTool.waits /\ ~CanDraw(run)
          /\ GiveUp(run, Parts(run, done) \cap Urls(run))
       \/ done = imageTool.waits /\ ShowRun(run)
       \/ GiveUp(run, made)
    /\ UNCHANGED <<imageTool, opened, image, decoding, closed, picks, runs>>

\* The tool is left: the effects clean up after what it holds.
LeaveTool ==
    /\ opened
    /\ opened' = FALSE
    /\ closed' = closed \cup Closed(image)
    /\ revoked' = revoked \cup Urls(output)
    /\ image' = 0 /\ output' = 0
    /\ UNCHANGED <<imageTool, decoding, picks, encoding, runs, urls>>

ImageNext ==
    \/ PickFile
    \/ StartRun
    \/ LeaveTool
    \/ \E pick \in decoding : Decoded(pick)
    \/ \E run \in DOMAIN encoding : ContinueRun(run)

\* The browser decodes and encodes what it was asked to.
ImageFairness ==
    /\ WF_imageVars(\E pick \in decoding : Decoded(pick))
    /\ WF_imageVars(\E run \in DOMAIN encoding : ContinueRun(run))

ImageSpec == ImageInit /\ [][ImageNext]_imageVars /\ ImageFairness

-----------------------------------------------------------------------------
ImageTypeOK ==
    /\ imageTool \in ImageToolSet
    /\ opened \in BOOLEAN
    /\ {image} \cup decoding \cup closed \subseteq 0 .. picks
    /\ picks \in 0 .. MaxPicks
    /\ DOMAIN encoding \subseteq 1 .. runs
    /\ \A r \in DOMAIN encoding :
         encoding[r].image \in 0 .. picks /\ encoding[r].done < imageTool.waits
    /\ runs \in 0 .. MaxRuns
    /\ output \in 0 .. runs
    /\ revoked \subseteq urls

(***************************************************************************)
(* While a tool is open, the object URLs that are not revoked are those of *)
(* the result on the screen and of the runs that are under way: none is    *)
(* lost, and none on the screen is dead, in whatever order decoding,       *)
(* encoding, picks and runs follow each other.  The bitmap held is open.   *)
(***************************************************************************)
UrlsAreShownOrRevoked ==
    opened =>
      /\ urls \ revoked =
           Urls(output) \cup
           UNION {Parts(r, encoding[r].done) \cap Urls(r) : r \in DOMAIN encoding}
      /\ image \notin closed
=============================================================================
