----------------------------- MODULE PdfPipeline -----------------------------
(***************************************************************************)
(* The tiered document pipeline of uni-xervo-pdf: PdfExtractor::extract    *)
(* over router.rs, one document, page by page.                             *)
(*                                                                         *)
(* For each page the router plans a tier from cheap signals and the level  *)
(* policy, the budget may cap it, the tier runs, and one failure-driven    *)
(* climb may follow.  What models are configured, the policy, the source   *)
(* and what each page holds are chosen by the environment; so is whether a *)
(* model fails or finds nothing on a page.                                 *)
(*                                                                         *)
(* Texts are abstracted to what routing tells apart, pages to their        *)
(* outcome: only the page at work is kept, and a count of the finished.    *)
(***************************************************************************)
EXTENDS Naturals, Sequences

CONSTANTS
  Pages,    \* how many pages the document has
  Budgets,  \* values of Budget::max_vlm_pages, Nothing for no limit
  Nothing   \* Option::None

ASSUME PagesAssumption == Pages \in Nat
ASSUME BudgetsAssumption == Budgets \subseteq Nat \cup {Nothing} /\ Nothing \notin Nat

\* Tier, with its derived order.
Native == 0
Ocr == 1
Vlm == 2
Tiers == {Native, Ocr, Vlm}

\* LevelPolicy by the range of tiers it permits; Ceiling(t) is Auto with
\* min = Native.  Callers give min <= max.
Levels ==
  {l \in [fixed : BOOLEAN, min : Tiers, max : Tiers] :
     IF l.fixed THEN l.min = l.max ELSE l.min <= l.max}

\* What the text layer of a page is like: absent or blank, garbled,
\* covering too little of the page, or good.
Layers == {"blank", "garbled", "sparse", "good"}

Reasons == {"NoTextLayer", "GarbledText", "LowTextCoverage",
            "StructureRequested", "EmptyOutput",
            "FlatWhereStructureExpected", "BudgetExhausted"}

VARIABLES
  models,    \* which of ocr, vlm and rasterizer are configured
  source,    \* DocInput: "Pages" with images, or "Pdf"
  request,   \* DocExtractPolicy as the caller gave it
  level,     \* the level of the effective policy
  position,  \* where process_page is
  refusal,   \* why extract returned an error
  text,      \* the current page's text layer
  renders,   \* could the page be rendered again, for a reference?
  tier,      \* local `tier`
  trail,     \* local `escalations`
  blank,     \* did the tier produce no blocks?
  verified,  \* had VLM output a deterministic reference?
  vlmUsed,   \* local `vlm_used`
  pages,     \* pages finished
  vlmPages   \* history: pages finished by the VLM

setup == <<models, source, request>>
page == <<text, renders>>
counts == <<vlmUsed, pages, vlmPages>>
vars == <<setup, level, position, refusal, page, tier, trail, blank, verified, counts>>

Low(a, b) == IF a < b THEN a ELSE b
High(a, b) == IF a > b THEN a ELSE b

Init ==
  /\ models \in [ocr : BOOLEAN, vlm : BOOLEAN, rasterizer : BOOLEAN]
  /\ source \in {"Pages", "Pdf"}
  /\ request \in [level : Levels, structure : BOOLEAN, budget : Budgets,
                  crossTier : BOOLEAN]
  /\ level = request.level
  /\ position = "start"
  /\ refusal = Nothing
  /\ text = "blank" /\ renders = FALSE
  /\ tier = Native /\ trail = <<>>
  /\ blank = FALSE /\ verified = FALSE
  /\ vlmUsed = 0 /\ pages = 0 /\ vlmPages = 0

-----------------------------------------------------------------------------
(* Configuration and policy *)

\* PdfExtractorBuilder::build.
AvailableCeiling ==
  IF models.vlm THEN Vlm ELSE IF models.ocr THEN Ocr ELSE Native

Allows(t) == level.min <= t /\ t <= level.max
Clamp(t) == High(Low(t, level.max), level.min)

Effective(l) ==
  IF l.fixed THEN l
  ELSE [l EXCEPT !.min = Low(l.min, AvailableCeiling),
                 !.max = Low(l.max, AvailableCeiling)]

BudgetAllowsVlm == request.budget # Nothing => vlmUsed < request.budget

HaveImage == source = "Pages" \/ models.rasterizer

Runnable(t) ==
  \/ t = Native
  \/ t = Ocr /\ models.ocr /\ HaveImage
  \/ t = Vlm /\ models.vlm /\ HaveImage

\* resolve_image, at each call anew: a ready image always, a rasterized one if
\* it renders this time.
Resolves ==
  IF source = "Pages" THEN {TRUE} ELSE IF models.rasterizer THEN BOOLEAN ELSE {FALSE}

-----------------------------------------------------------------------------
(* The router *)

Climb(f, t, r) == [from |-> f, to |-> t, reason |-> r]

NeedsOcr(x) == x # "good"
OcrReason(x) ==
  CASE x = "blank" -> "NoTextLayer"
    [] x = "garbled" -> "GarbledText"
    [] OTHER -> "LowTextCoverage"

\* The climbs the signals ask for, in order: to OCR, and on to the VLM.
ToOcr(x) ==
  IF NeedsOcr(x) THEN <<Climb(Native, Ocr, OcrReason(x))>>
  ELSE IF request.structure THEN <<Climb(Native, Ocr, "StructureRequested")>>
  ELSE <<>>
ToVlm == IF request.structure THEN <<Climb(Ocr, Vlm, "StructureRequested")>> ELSE <<>>

Desired(x) ==
  IF request.structure THEN Vlm ELSE IF NeedsOcr(x) THEN Ocr ELSE Native

\* Variant: nothing clamps the tier the signals ask for.
TargetUnclamped(x) == High(Desired(x), level.min)

Target(x) ==
  IF level.fixed THEN level.max ELSE Clamp(High(Desired(x), level.min))

\* Variant: climbs above the target stay in the trail.
PlannedAll(x) == IF level.fixed THEN <<>> ELSE ToOcr(x) \o ToVlm

\* The climbs that do not lead above the target.
Planned(x) ==
  IF level.fixed THEN <<>>
  ELSE (IF Ocr <= Target(x) THEN ToOcr(x) ELSE <<>>) \o (IF Vlm <= Target(x) THEN ToVlm ELSE <<>>)

\* escalate_on_failure and the pipeline's own conditions on taking the step.
Flat == request.structure /\ ~blank
NextStep ==
  IF tier = Native /\ blank THEN Climb(Native, Ocr, "EmptyOutput")
  ELSE IF tier = Ocr /\ blank THEN Climb(Ocr, Vlm, "EmptyOutput")
  ELSE IF tier = Ocr /\ Flat THEN Climb(Ocr, Vlm, "FlatWhereStructureExpected")
  ELSE Nothing

WouldClimb ==
  /\ ~level.fixed
  /\ NextStep # Nothing
  /\ Allows(NextStep.to)
  /\ Runnable(NextStep.to)

\* Variant: the second run does not ask the budget.
MayClimbUnbudgeted == WouldClimb

MayClimb == WouldClimb /\ (NextStep.to = Vlm => BudgetAllowsVlm)

-----------------------------------------------------------------------------
(* The pipeline *)

GiveUp(why) ==
  /\ position' = "failed"
  /\ refusal' = why
  /\ UNCHANGED <<setup, level, page, tier, trail, blank, verified, counts>>

\* extract: narrow the policy, or refuse a fixed tier no model serves.
Unavailable == request.level.fixed /\ request.level.max > AvailableCeiling

Start ==
  /\ position = "start" /\ ~Unavailable
  /\ level' = Effective(request.level)
  /\ position' = "page"
  /\ UNCHANGED <<setup, refusal, page, tier, trail, blank, verified, counts>>

Refuse == position = "start" /\ Unavailable /\ GiveUp("capability")

\* The native extractor is missing or cannot read the document.
Unreadable ==
  position = "start" /\ ~Unavailable /\ source = "Pdf" /\ GiveUp("native")

\* The tier a page over the VLM budget drops to.
Capped == IF Allows(Ocr) /\ models.ocr THEN Ocr ELSE Native

Plan(x) ==
  /\ position = "page" /\ pages < Pages
  /\ text' = x
  /\ IF Target(x) = Vlm /\ ~BudgetAllowsVlm
     THEN /\ tier' = Capped
          /\ trail' = Append(Planned(x), Climb(Vlm, Capped, "BudgetExhausted"))
     ELSE /\ tier' = Target(x)
          /\ trail' = Planned(x)
  /\ position' = "run"
  /\ UNCHANGED <<setup, level, refusal, renders, blank, verified, counts>>

Running == position \in {"run", "rerun"}
AfterRun == position' = IF position = "run" THEN "observe" ELSE "close"

RunNative ==
  /\ Running /\ tier = Native
  /\ blank' = (text = "blank")
  /\ verified' = FALSE
  /\ AfterRun
  /\ UNCHANGED <<setup, level, refusal, page, tier, trail, counts>>

RunOcr ==
  /\ Running /\ tier = Ocr /\ models.ocr /\ TRUE \in Resolves
  /\ blank' \in BOOLEAN
  /\ verified' = FALSE
  /\ AfterRun
  /\ UNCHANGED <<setup, level, refusal, page, tier, trail, counts>>

\* deterministic_reference: the text layer, or a fresh OCR pass.
TextUsable == text \in {"sparse", "good"}

\* Variant: only the text layer is compared with.
HasTextReference(image) == TextUsable
HasReference(image) == TextUsable \/ (request.crossTier /\ models.ocr /\ image)

RunVlm ==
  /\ Running /\ tier = Vlm /\ models.vlm /\ TRUE \in Resolves
  /\ vlmUsed' = vlmUsed + 1
  /\ blank' \in BOOLEAN
  /\ \E image \in Resolves : renders' = image /\ verified' = HasReference(image)
  /\ AfterRun
  /\ UNCHANGED <<setup, level, refusal, text, tier, trail, pages, vlmPages>>

\* A tier without its model or without an image, and a model that fails
\* (for the VLM: before or after the page has been charged).
Unconfigured ==
  /\ Running
  /\ \/ tier = Ocr /\ ~models.ocr
     \/ tier = Vlm /\ ~models.vlm
  /\ GiveUp("capability")

NoImage ==
  /\ Running
  /\ \/ tier = Ocr /\ models.ocr
     \/ tier = Vlm /\ models.vlm
  /\ FALSE \in Resolves
  /\ GiveUp("image")

OcrFails ==
  /\ Running /\ models.ocr /\ TRUE \in Resolves
  /\ \/ tier = Ocr
     \/ tier = Vlm /\ models.vlm /\ ~TextUsable /\ request.crossTier
  /\ GiveUp("model")

VlmFails ==
  /\ Running /\ tier = Vlm /\ models.vlm /\ TRUE \in Resolves
  /\ vlmUsed' = vlmUsed + 1
  /\ position' = "failed"
  /\ refusal' = "model"
  /\ UNCHANGED <<setup, level, page, tier, trail, blank, verified, pages, vlmPages>>

Escalate ==
  /\ position = "observe" /\ MayClimb
  /\ trail' = Append(trail, NextStep)
  /\ tier' = NextStep.to
  /\ position' = "rerun"
  /\ UNCHANGED <<setup, level, refusal, page, blank, verified, counts>>

Accept ==
  /\ position = "observe" /\ ~MayClimb
  /\ position' = "close"
  /\ UNCHANGED <<setup, level, refusal, page, tier, trail, blank, verified, counts>>

Close ==
  /\ position = "close"
  /\ pages' = pages + 1
  /\ vlmPages' = IF tier = Vlm THEN vlmPages + 1 ELSE vlmPages
  /\ position' = "page"
  /\ UNCHANGED <<setup, level, refusal, page, tier, trail, blank, verified, vlmUsed>>

Finish ==
  /\ position = "page" /\ pages = Pages
  /\ position' = "finished"
  /\ UNCHANGED <<setup, level, refusal, page, tier, trail, blank, verified, counts>>

Next ==
  \/ Start \/ Refuse \/ Unreadable
  \/ \E x \in Layers : Plan(x)
  \/ RunNative \/ RunOcr \/ RunVlm
  \/ Unconfigured \/ NoImage \/ OcrFails \/ VlmFails
  \/ Escalate \/ Accept \/ Close \/ Finish

Spec == Init /\ [][Next]_vars

-----------------------------------------------------------------------------
(* Properties *)

Positions == {"start", "page", "run", "observe", "rerun", "close", "failed", "finished"}

TypeOK ==
  /\ models \in [ocr : BOOLEAN, vlm : BOOLEAN, rasterizer : BOOLEAN]
  /\ source \in {"Pages", "Pdf"}
  /\ request \in [level : Levels, structure : BOOLEAN, budget : Budgets,
                  crossTier : BOOLEAN]
  /\ level \in Levels
  /\ position \in Positions
  /\ refusal \in {Nothing, "capability", "native", "image", "model"}
  /\ text \in Layers /\ renders \in BOOLEAN
  /\ tier \in Tiers
  /\ blank \in BOOLEAN /\ verified \in BOOLEAN
  /\ vlmUsed \in Nat /\ pages \in Nat /\ vlmPages \in Nat

(* "Maximum number of pages allowed to reach the Vlm tier": the counter    *)
(* that two checks in two functions guard never passes the maximum, and it *)
(* counts pages: each call of the VLM finishes one page or the document.   *)
Charged == IF tier = Vlm /\ position \in {"observe", "close"} THEN 1 ELSE 0

BudgetKept ==
  /\ request.budget # Nothing => vlmUsed <= request.budget
  /\ position # "failed" => vlmUsed = vlmPages + Charged

(* "A memory-critical caller sets Ceiling(Tier::Ocr) to forbid generative  *)
(* extraction entirely": no page is run, or charged, above the highest     *)
(* tier the caller asked for, whatever the signals, the failures of lower  *)
(* tiers and the models configured.                                        *)
CeilingHolds ==
  /\ position \in {"run", "observe", "rerun", "close"} => tier <= request.level.max
  /\ vlmUsed > 0 => request.level.max = Vlm

(* "Audit trail of routing decisions": unless the policy forces a minimum  *)
(* or fixes the tier, the trail of a finished page leads from Native to    *)
(* the tier that produced it without a gap.                                *)
Leads(climbs, t) ==
  /\ \A i \in 1 .. Len(climbs) :
       climbs[i].from = IF i = 1 THEN Native ELSE climbs[i - 1].to
  /\ t = IF climbs = <<>> THEN Native ELSE climbs[Len(climbs)].to

TrailExplains ==
  position = "close" /\ ~request.level.fixed /\ request.level.min = Native =>
    Leads(trail, tier)

(* With cross-tier verification on and an OCR model configured, a page of  *)
(* the VLM goes out without a deterministic reference to compare its       *)
(* numbers with for one reason only: it has no usable text layer and the   *)
(* rasterizer, which gave the VLM its image, gave no second one for OCR    *)
(* (deterministic_reference, which passes over that error).                *)
VlmIsVerified ==
  position = "close" /\ tier = Vlm /\ request.crossTier /\ models.ocr =>
    verified \/ (source = "Pdf" /\ ~TextUsable /\ ~renders)

(* "Omitted tiers simply make the pipeline degrade to the highest          *)
(* available tier": without a fixed tier, a model that is not configured   *)
(* is never the reason of an error.                                        *)
MissingTierDegrades == refusal = "capability" => request.level.fixed

=============================================================================
