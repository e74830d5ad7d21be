-------------------------- MODULE PdfPipelineProofs --------------------------
(***************************************************************************)
(* Theorems of PdfPipeline, for documents of any length and any budget.    *)
(*                                                                         *)
(* The budget is checked before a tier runs and charged while it runs, the *)
(* ceiling holds of the tier about to run: Inv carries both from the check *)
(* to the charge, and the narrowed policy below the requested one.         *)
(***************************************************************************)
EXTENDS PdfPipeline, TLAPS

USE PagesAssumption, BudgetsAssumption DEF Native, Ocr, Vlm, Tiers

(* The effective policy stays within the requested one. *)
Narrowed == level.max <= request.level.max

(* A page is worked on in these positions, with a tier the policy allows. *)
AtWork == position \in {"run", "observe", "rerun", "close"}
TierAllowed == AtWork => tier <= level.max

(* A VLM run that is due has been granted by the budget. *)
Granted == position \in {"run", "rerun"} /\ tier = Vlm => BudgetAllowsVlm

(* A VLM run was allowed by the policy. *)
ChargedAllowed == vlmUsed > 0 => level.max = Vlm

(* Nothing is charged before the first page. *)
Untouched == position = "start" => vlmUsed = 0

(* What RunVlm left behind. *)
Referenced ==
  position \in {"observe", "close"} /\ tier = Vlm /\ request.crossTier /\ models.ocr
    => verified \/ (source = "Pdf" /\ ~TextUsable /\ ~renders)

Inv ==
  /\ TypeOK
  /\ Narrowed
  /\ TierAllowed
  /\ Granted
  /\ ChargedAllowed
  /\ Untouched
  /\ BudgetKept
  /\ Referenced

-----------------------------------------------------------------------------

(* The tier planned is one the policy permits. *)
LEMMA TargetAllowed ==
  ASSUME level \in Levels, NEW x
  PROVE  Target(x) \in Tiers /\ Target(x) <= level.max
<1> USE DEF Levels
<1>1. level.max \in Tiers /\ level.min \in Tiers /\ level.fixed \in BOOLEAN
  OBVIOUS
<1>2. CASE level.fixed
  BY <1>1, <1>2 DEF Target
<1>3. CASE ~level.fixed
  <2>1. level.min <= level.max
    BY <1>3
  <2>2. Desired(x) \in Tiers
    BY DEF Desired
  <2>. QED
    BY <1>1, <1>3, <2>1, <2>2 DEF Target, Clamp, High, Low
<1>. QED
  BY <1>1, <1>2, <1>3

(* Where a page over the budget drops to is permitted from above. *)
LEMMA CappedAllowed ==
  ASSUME level \in Levels
  PROVE  Capped \in {Native, Ocr} /\ Capped <= level.max
  BY DEF Capped, Allows, Levels

(* A climb goes up one tier, within the policy and the budget. *)
LEMMA ClimbAllowed ==
  ASSUME tier \in Tiers, Nothing \notin Nat, MayClimb
  PROVE  /\ NextStep.to \in Tiers /\ NextStep.to <= level.max
         /\ tier # Vlm
         /\ NextStep.to = Vlm => BudgetAllowsVlm
  BY DEF MayClimb, WouldClimb, NextStep, Climb, Allows

(* Narrowing keeps a policy well formed and below what was asked. *)
LEMMA EffectiveNarrows ==
  ASSUME NEW l \in Levels, models \in [ocr : BOOLEAN, vlm : BOOLEAN, rasterizer : BOOLEAN]
  PROVE  Effective(l) \in Levels /\ Effective(l).max <= l.max
<1>1. AvailableCeiling \in Tiers
  BY DEF AvailableCeiling
<1>2. CASE l.fixed
  BY <1>2 DEF Effective, Levels
<1>3. CASE ~l.fixed
  <2>1. /\ l \in [fixed : BOOLEAN, min : Tiers, max : Tiers]
        /\ l.min <= l.max
    BY <1>3 DEF Levels
  <2>2. /\ Low(l.min, AvailableCeiling) \in Tiers
        /\ Low(l.max, AvailableCeiling) \in Tiers
        /\ Low(l.max, AvailableCeiling) <= l.max
        /\ Low(l.min, AvailableCeiling) <= Low(l.max, AvailableCeiling)
    BY <1>1, <2>1 DEF Low
  <2> DEFINE m == [l EXCEPT !.min = Low(l.min, AvailableCeiling),
                            !.max = Low(l.max, AvailableCeiling)]
  <2>3. /\ m \in [fixed : BOOLEAN, min : Tiers, max : Tiers]
        /\ m.fixed = l.fixed
        /\ m.min = Low(l.min, AvailableCeiling)
        /\ m.max = Low(l.max, AvailableCeiling)
    BY <2>1, <2>2
  <2>4. Effective(l) = m
    BY <1>3 DEF Effective
  <2>. QED
    BY <1>3, <2>2, <2>3, <2>4 DEF Levels
<1>. QED
  BY <1>2, <1>3

(* The initial states satisfy the invariant. *)
LEMMA InitInv == Init => Inv
<1> SUFFICES ASSUME Init PROVE Inv
  OBVIOUS
<1>1. request.level \in Levels
  BY DEF Init
<1>2. TypeOK
  BY <1>1 DEF Init, TypeOK, Positions, Layers
<1>3. Narrowed
  BY <1>1 DEF Init, Narrowed, Levels
<1>4. BudgetKept
  <2>1. request.budget \in Nat \cup {Nothing}
    BY DEF Init
  <2>2. vlmUsed = 0 /\ vlmPages = 0 /\ position = "start"
    BY DEF Init
  <2>. QED
    BY <2>1, <2>2 DEF BudgetKept, Charged
<1>5. TierAllowed /\ Granted /\ ChargedAllowed /\ Untouched /\ Referenced
  BY DEF Init, Untouched, TierAllowed, AtWork, Granted, ChargedAllowed, Referenced
<1>. QED
  BY <1>2, <1>3, <1>4, <1>5 DEF Inv

(* Giving up disturbs nothing. *)
LEMMA GiveUpInv ==
  ASSUME Inv, NEW why \in {"capability", "native", "image", "model"}, GiveUp(why)
  PROVE  Inv'
<1> USE DEF Inv
<1>1. TypeOK'
  BY DEF GiveUp, TypeOK, Positions, setup, page, counts
<1>2. UNCHANGED <<models, request, level, tier, vlmUsed, vlmPages>> /\ position' = "failed"
  BY DEF GiveUp, setup, counts
<1>. QED
  BY <1>1, <1>2 DEF Narrowed, TierAllowed, AtWork, Granted, ChargedAllowed,
                    BudgetKept, Untouched, Referenced

(* Every step preserves the invariant. *)
LEMMA InvStep == Inv /\ [Next]_vars => Inv'
<1> SUFFICES ASSUME Inv, [Next]_vars PROVE Inv'
  OBVIOUS
<1> USE DEF Inv
<1>t. /\ level \in Levels /\ request.level \in Levels
      /\ level.max \in Tiers /\ request.level.max \in Tiers
      /\ request.budget \in Nat \cup {Nothing}
      /\ tier \in Tiers
      /\ vlmUsed \in Nat /\ vlmPages \in Nat /\ pages \in Nat
  BY DEF TypeOK, Levels
<1> USE DEF Narrowed, TierAllowed, AtWork, Granted, ChargedAllowed,
            BudgetKept, Charged, Referenced, Untouched, BudgetAllowsVlm
<1>1. CASE Start
  <2>1. /\ level' = Effective(request.level) /\ position' = "page"
        /\ UNCHANGED <<setup, refusal, page, tier, trail, blank, verified, counts>>
    BY <1>1 DEF Start
  <2>2. level' \in Levels /\ level'.max <= request.level.max
    BY <1>t, <2>1, EffectiveNarrows DEF TypeOK
  <2>3. TypeOK'
    BY <2>1, <2>2 DEF TypeOK, Positions, setup, page, counts
  <2>4. vlmUsed = 0 /\ position = "start"
    BY <1>1 DEF Start
  <2>5. UNCHANGED <<request, models, tier, vlmUsed, vlmPages>>
    BY <2>1 DEF setup, counts
  <2>6. BudgetKept'
    BY <1>t, <2>1, <2>4, <2>5
  <2>7. Narrowed' /\ TierAllowed' /\ Granted' /\ ChargedAllowed' /\ Untouched' /\ Referenced'
    BY <2>1, <2>2, <2>4, <2>5
  <2>. QED
    BY <2>3, <2>6, <2>7
<1>2. CASE Refuse
  BY <1>2, GiveUpInv DEF Refuse
<1>3. CASE Unreadable
  BY <1>3, GiveUpInv DEF Unreadable
<1>4. ASSUME NEW x \in Layers, Plan(x) PROVE Inv'
  <2>1. /\ tier' \in Tiers /\ tier' <= level.max
        /\ tier' = Vlm => BudgetAllowsVlm
    BY <1>4, <1>t, TargetAllowed, CappedAllowed DEF Plan
  <2>2. /\ position = "page" /\ position' = "run"
        /\ UNCHANGED <<setup, level, refusal, renders, blank, verified, counts>>
        /\ text' = x
    BY <1>4 DEF Plan
  <2>3. TypeOK'
    BY <2>1, <2>2 DEF TypeOK, Positions, setup, counts
  <2>. QED
    BY <1>t, <2>1, <2>2, <2>3 DEF setup, counts
<1>5. CASE RunNative \/ RunOcr
  <2>1. /\ position \in {"run", "rerun"} /\ position' \in {"observe", "close"}
        /\ tier # Vlm
        /\ blank' \in BOOLEAN /\ verified' = FALSE
        /\ UNCHANGED <<setup, level, refusal, page, tier, trail, counts>>
    <3>1. CASE RunNative
      BY <3>1 DEF RunNative, Running, AfterRun
    <3>2. CASE RunOcr
      BY <3>2 DEF RunOcr, Running, AfterRun
    <3>. QED
      BY <1>5, <3>1, <3>2
  <2>2. TypeOK'
    BY <2>1 DEF TypeOK, Positions, setup, page, counts
  <2>. QED
    BY <1>t, <2>1, <2>2 DEF setup, counts
<1>6. CASE RunVlm
  <2>1. /\ position \in {"run", "rerun"} /\ position' \in {"observe", "close"}
        /\ tier = Vlm
        /\ vlmUsed' = vlmUsed + 1
        /\ blank' \in BOOLEAN
        /\ renders' \in Resolves /\ verified' = HasReference(renders')
        /\ UNCHANGED <<setup, level, refusal, text, tier, trail, pages, vlmPages>>
    BY <1>6 DEF RunVlm, Running, AfterRun
  <2>2. verified' \in BOOLEAN /\ renders' \in BOOLEAN
    BY <2>1 DEF HasReference, Resolves, TextUsable, TypeOK
  <2>3. TypeOK'
    BY <1>t, <2>1, <2>2 DEF TypeOK, Positions, setup
  <2>4. Referenced'
    BY <2>1, <2>2 DEF HasReference, Resolves, TextUsable, TypeOK, setup
  <2>5. BudgetKept' /\ Granted'
    BY <1>t, <2>1 DEF setup
  <2>6. Narrowed' /\ TierAllowed' /\ ChargedAllowed' /\ Untouched'
    BY <1>t, <2>1 DEF setup
  <2>. QED
    BY <2>3, <2>4, <2>5, <2>6
<1>7. CASE Unconfigured \/ NoImage \/ OcrFails
  BY <1>7, GiveUpInv DEF Unconfigured, NoImage, OcrFails
<1>8. CASE VlmFails
  <2>1. /\ position \in {"run", "rerun"} /\ position' = "failed" /\ refusal' = "model"
        /\ tier = Vlm /\ vlmUsed' = vlmUsed + 1
        /\ UNCHANGED <<setup, level, page, tier, trail, blank, verified, pages, vlmPages>>
    BY <1>8 DEF VlmFails, Running
  <2>2. TypeOK'
    BY <1>t, <2>1 DEF TypeOK, Positions, setup, page
  <2>. QED
    BY <1>t, <2>1, <2>2 DEF setup
<1>9. CASE Escalate
  <2>1. /\ position = "observe" /\ position' = "rerun" /\ tier' = NextStep.to
        /\ UNCHANGED <<setup, level, refusal, page, blank, verified, counts>>
        /\ MayClimb
    BY <1>9 DEF Escalate
  <2>2. /\ NextStep.to \in Tiers /\ NextStep.to <= level.max /\ tier # Vlm
        /\ NextStep.to = Vlm => BudgetAllowsVlm
    BY <1>t, <2>1, ClimbAllowed
  <2>3. TypeOK'
    BY <2>1, <2>2 DEF TypeOK, Positions, setup, page, counts
  <2>. QED
    BY <1>t, <2>1, <2>2, <2>3 DEF setup, counts
<1>10. CASE Accept
  <2>1. /\ position = "observe" /\ position' = "close"
        /\ UNCHANGED <<setup, level, refusal, page, tier, trail, blank, verified, counts>>
    BY <1>10 DEF Accept
  <2>2. TypeOK'
    BY <2>1 DEF TypeOK, Positions, setup, page, counts
  <2>. QED
    BY <1>t, <2>1, <2>2 DEF setup, page, counts, TextUsable
<1>11. CASE Close
  <2>1. /\ position = "close" /\ position' = "page" /\ pages' = pages + 1
        /\ vlmPages' = IF tier = Vlm THEN vlmPages + 1 ELSE vlmPages
        /\ UNCHANGED <<setup, level, refusal, page, tier, trail, blank, verified, vlmUsed>>
    BY <1>11 DEF Close
  <2>2. TypeOK'
    BY <1>t, <2>1 DEF TypeOK, Positions, setup, page
  <2>. QED
    BY <1>t, <2>1, <2>2 DEF setup
<1>12. CASE Finish
  <2>1. /\ position = "page" /\ position' = "finished"
        /\ UNCHANGED <<setup, level, refusal, page, tier, trail, blank, verified, counts>>
    BY <1>12 DEF Finish
  <2>2. TypeOK'
    BY <2>1 DEF TypeOK, Positions, setup, page, counts
  <2>. QED
    BY <1>t, <2>1, <2>2 DEF setup, counts
<1>13. CASE UNCHANGED vars
  BY <1>13 DEF vars, setup, page, counts, TypeOK, TextUsable
<1>. QED
  BY <1>1, <1>2, <1>3, <1>4, <1>5, <1>6, <1>7, <1>8, <1>9, <1>10, <1>11,
     <1>12, <1>13 DEF Next

(* The invariant holds throughout. *)
LEMMA Invariance == Spec => []Inv
  BY InitInv, InvStep, PTL DEF Spec

(* The pipeline's variables keep their types. *)
THEOREM PdfTypeCorrect == Spec => []TypeOK
<1>1. Inv => TypeOK
  BY DEF Inv
<1>. QED
  BY <1>1, Invariance, PTL

(* The VLM budget is never exceeded, and it counts pages, for documents of *)
(* any length. *)
THEOREM VlmBudgetIsKept == Spec => []BudgetKept
<1>1. Inv => BudgetKept
  BY DEF Inv
<1>. QED
  BY <1>1, Invariance, PTL

(* No tier above the caller's ceiling is ever run or charged. *)
THEOREM CeilingIsHonored == Spec => []CeilingHolds
<1>1. Inv => CeilingHolds
  BY DEF Inv, CeilingHolds, Narrowed, TierAllowed, AtWork, ChargedAllowed,
         TypeOK, Levels
<1>. QED
  BY <1>1, Invariance, PTL

(* With verification on, a page of the VLM lacks a reference only when it   *)
(* has no usable text and no second image of it could be had.               *)
THEOREM VlmPagesAreVerified == Spec => []VlmIsVerified
<1>1. Inv => VlmIsVerified
  BY DEF Inv, VlmIsVerified, Referenced
<1>. QED
  BY <1>1, Invariance, PTL

-----------------------------------------------------------------------------
(* The audit trail.  It leads to the tier at work from the plan on, and    *)
(* the narrowed policy forces a tier only if the request does.             *)

Climbs == [from : Tiers, to : Tiers, reason : Reasons]

Unforced(l) == ~l.fixed /\ l.min = Native

TrailInv ==
  /\ trail \in Seq(Climbs)
  /\ Unforced(request.level) => Unforced(level)
  /\ Unforced(request.level) /\ AtWork => Leads(trail, tier)

(* One more climb, from where the trail leads. *)
LEMMA LeadsOn ==
  ASSUME NEW tr \in Seq(Climbs), NEW e \in Climbs, Leads(tr, e.from)
  PROVE  Append(tr, e) \in Seq(Climbs) /\ Leads(Append(tr, e), e.to)
<1> DEFINE all == Append(tr, e)
<1>1. /\ all \in Seq(Climbs) /\ Len(all) = Len(tr) + 1 /\ Len(tr) \in Nat
      /\ \A i \in 1 .. Len(tr) : all[i] = tr[i]
      /\ all[Len(all)] = e
      /\ all # <<>>
  OBVIOUS
<1>2. Len(tr) = 0 <=> tr = <<>>
  OBVIOUS
<1>. HIDE DEF all
<1>3. ASSUME NEW i \in 1 .. Len(all)
      PROVE  all[i].from = IF i = 1 THEN Native ELSE all[i - 1].to
  <2>1. CASE i \in 1 .. Len(tr)
    BY <1>1, <2>1 DEF Leads
  <2>2. CASE i = Len(all)
    BY <1>1, <1>2, <2>2 DEF Leads
  <2>. QED
    BY <1>1, <2>1, <2>2
<1>4. Leads(all, e.to)
  BY <1>1, <1>3 DEF Leads
<1>. QED
  BY <1>1, <1>4 DEF all

(* A planned trail leads to the target. *)
LEMMA PlanLeads ==
  ASSUME level \in Levels, Unforced(level), request.structure \in BOOLEAN, NEW x
  PROVE  Planned(x) \in Seq(Climbs) /\ Leads(Planned(x), Target(x))
<1> DEFINE first == Climb(Native, Ocr, IF NeedsOcr(x) THEN OcrReason(x) ELSE "StructureRequested")
           second == Climb(Ocr, Vlm, "StructureRequested")
<1>1. first \in Climbs /\ second \in Climbs
  BY DEF Climbs, Climb, OcrReason, Reasons
<1>2. first.from = Native /\ first.to = Ocr /\ second.from = Ocr /\ second.to = Vlm
  BY DEF Climb
<1>3. Target(x) = Low(Desired(x), level.max) /\ Target(x) \in Tiers
  BY DEF Target, Clamp, High, Low, Desired, Levels, Unforced
<1>4. CASE Target(x) = Native
  <2>1. Planned(x) = <<>>
    BY <1>4 DEF Planned, Unforced
  <2>. QED
    BY <1>4, <2>1 DEF Leads
<1>5. CASE Target(x) = Ocr
  <2>1. NeedsOcr(x) \/ request.structure
    BY <1>3, <1>5 DEF Desired, Low
  <2>2. ToOcr(x) = <<first>>
    BY <2>1 DEF ToOcr
  <2>3. Planned(x) = <<first>>
    BY <1>5, <2>2 DEF Planned, Unforced
  <2>. HIDE DEF first
  <2>. QED
    BY <1>1, <1>2, <1>5, <2>3 DEF Leads
<1>6. CASE Target(x) = Vlm
  <2>1. request.structure
    BY <1>3, <1>6 DEF Desired, Low, Levels
  <2>2. ToOcr(x) = <<first>> /\ ToVlm = <<second>>
    BY <2>1 DEF ToOcr, ToVlm
  <2>3. Planned(x) = <<first>> \o <<second>>
    BY <1>6, <2>2 DEF Planned, Unforced
  <2>. HIDE DEF first, second
  <2> DEFINE both == <<first>> \o <<second>>
  <2>4. /\ both \in Seq(Climbs) /\ Len(both) = 2 /\ both # <<>>
        /\ both[1] = first /\ both[2] = second
    BY <1>1
  <2>. HIDE DEF both
  <2>5. Leads(both, Target(x))
    BY <1>2, <1>6, <2>4 DEF Leads
  <2>. QED
    BY <2>3, <2>4, <2>5 DEF both
<1>. QED
  BY <1>3, <1>4, <1>5, <1>6

(* Whatever the policy, a planned trail is one of climbs. *)
LEMMA PlanIsTrail ==
  ASSUME request.structure \in BOOLEAN, NEW x
  PROVE  Planned(x) \in Seq(Climbs)
<1> DEFINE first(why) == Climb(Native, Ocr, why)
           second == Climb(Ocr, Vlm, "StructureRequested")
<1>1. /\ first(OcrReason(x)) \in Climbs /\ first("StructureRequested") \in Climbs
      /\ second \in Climbs
  BY DEF Climbs, Climb, OcrReason, Reasons
<1>2. ToOcr(x) \in {<<>>, <<first(OcrReason(x))>>, <<first("StructureRequested")>>}
  BY DEF ToOcr
<1>3. ToVlm \in {<<>>, <<second>>}
  BY DEF ToVlm
<1>. HIDE DEF first, second
<1>4. <<>> \in Seq(Climbs) /\ \A c \in Climbs : <<c>> \in Seq(Climbs)
  OBVIOUS
<1>5. ToOcr(x) \in Seq(Climbs) /\ ToVlm \in Seq(Climbs)
  BY <1>1, <1>2, <1>3, <1>4
<1>. QED
  BY <1>5 DEF Planned

LEMMA TrailInit == Init => TrailInv
  BY DEF Init, TrailInv, AtWork

(* Only the plan and the climb after a failure touch the trail. *)
LEMMA TrailStep == Inv /\ TrailInv /\ [Next]_vars => TrailInv'
<1> SUFFICES ASSUME Inv, TrailInv, [Next]_vars PROVE TrailInv'
  OBVIOUS
<1>t. /\ level \in Levels /\ request.level \in Levels /\ tier \in Tiers
      /\ request.structure \in BOOLEAN
      /\ models \in [ocr : BOOLEAN, vlm : BOOLEAN, rasterizer : BOOLEAN]
  BY DEF Inv, TypeOK
<1>1. CASE Start
  <2>1. /\ level' = Effective(request.level) /\ position' = "page"
        /\ UNCHANGED <<trail, request>>
    BY <1>1 DEF Start, setup
  <2>2. Unforced(request.level) => Unforced(level')
    <3>1. AvailableCeiling \in Tiers
      BY DEF AvailableCeiling
    <3>. QED
      BY <1>t, <2>1, <3>1 DEF Unforced, Effective, Levels, Low
  <2>. QED
    BY <2>1, <2>2 DEF TrailInv, AtWork
<1>2. ASSUME NEW x \in Layers, Plan(x) PROVE TrailInv'
  <2>1. UNCHANGED <<level, request>>
    BY <1>2 DEF Plan, setup
  <2>2. CASE Target(x) = Vlm /\ ~BudgetAllowsVlm
    <3> DEFINE e == Climb(Vlm, Capped, "BudgetExhausted")
    <3>1. tier' = Capped /\ trail' = Append(Planned(x), e)
      BY <1>2, <2>2 DEF Plan
    <3>2. e \in Climbs /\ e.from = Vlm /\ e.to = Capped
      BY DEF Climb, Climbs, Capped, Reasons
    <3>3. trail' \in Seq(Climbs)
      BY <1>t, <3>1, <3>2, PlanIsTrail
    <3>4. ASSUME Unforced(request.level) PROVE Leads(trail', tier')
      <4>1. Planned(x) \in Seq(Climbs) /\ Leads(Planned(x), e.from)
        BY <1>t, <2>2, <3>2, <3>4, PlanLeads DEF TrailInv
      <4>. QED
        BY <3>1, <3>2, <4>1, LeadsOn
    <3>. QED
      BY <2>1, <3>3, <3>4 DEF TrailInv
  <2>3. CASE ~(Target(x) = Vlm /\ ~BudgetAllowsVlm)
    <3>1. tier' = Target(x) /\ trail' = Planned(x)
      BY <1>2, <2>3 DEF Plan
    <3>2. trail' \in Seq(Climbs)
      BY <1>t, <3>1, PlanIsTrail
    <3>3. ASSUME Unforced(request.level) PROVE Leads(trail', tier')
      BY <1>t, <3>1, <3>3, PlanLeads DEF TrailInv
    <3>. QED
      BY <2>1, <3>2, <3>3 DEF TrailInv
  <2>. QED
    BY <2>2, <2>3
<1>3. CASE Escalate
  <2>1. /\ trail' = Append(trail, NextStep) /\ tier' = NextStep.to
        /\ UNCHANGED <<level, request>> /\ AtWork /\ NextStep # Nothing
    BY <1>3 DEF Escalate, setup, AtWork, MayClimb, WouldClimb
  <2>2. NextStep \in Climbs /\ NextStep.from = tier
    BY <2>1 DEF NextStep, Climb, Climbs, Reasons
  <2>. QED
    BY <2>1, <2>2, LeadsOn DEF TrailInv
<1>4. CASE RunNative \/ RunOcr \/ RunVlm \/ Accept
  <2>1. AtWork /\ UNCHANGED <<trail, tier, level, request>>
    BY <1>4 DEF RunNative, RunOcr, RunVlm, Accept, Running, AtWork, setup
  <2>. QED
    BY <2>1 DEF TrailInv
<1>5. CASE \/ Refuse \/ Unreadable \/ Unconfigured \/ NoImage \/ OcrFails
           \/ VlmFails \/ Close \/ Finish
  <2>1. position' \in {"failed", "page", "finished"} /\ UNCHANGED <<trail, level, request>>
    BY <1>5 DEF Refuse, Unreadable, Unconfigured, NoImage, OcrFails, VlmFails, Close,
                Finish, GiveUp, setup
  <2>. QED
    BY <2>1 DEF TrailInv, AtWork
<1>6. CASE UNCHANGED vars
  BY <1>6 DEF vars, setup, TrailInv, AtWork
<1>. QED
  BY <1>1, <1>2, <1>3, <1>4, <1>5, <1>6 DEF Next

(* Unless the policy forces a tier, the trail of a page leads from the     *)
(* text layer to the tier that produced it without a gap.                  *)
THEOREM TrailIsGapless == Spec => []TrailExplains
<1>1. Spec => []TrailInv
  BY TrailInit, TrailStep, Invariance, PTL DEF Spec
<1>2. TrailInv => TrailExplains
  BY DEF TrailInv, TrailExplains, Unforced, AtWork
<1>. QED
  BY <1>1, <1>2, PTL

=============================================================================
