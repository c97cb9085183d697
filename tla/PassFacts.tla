----------------------------- MODULE PassFacts -----------------------------
(***************************************************************************)
(* run_pass with its analysis (opt/optimizer.rs): each pass gets the facts     *)
(* that the solver finds on the graph as it is.                              *)
(***************************************************************************)
EXTENDS Passes

LiveFacts  == INSTANCE Solution WITH Cfgs <- {}, Direction <- L!Direction, FlowBlock <- L!FlowBlock,
                Combine <- L!Combine, InitIn <- L!InitIn, InitOut <- L!InitOut
ReachFacts == INSTANCE Solution WITH Cfgs <- {}, Direction <- R!Direction, FlowBlock <- R!FlowBlock,
                Combine <- R!Combine, InitIn <- R!InitIn, InitOut <- R!InitOut
CopyFacts  == INSTANCE Solution WITH Cfgs <- {}, Direction <- A!Direction, FlowBlock <- A!FlowBlock,
                Combine <- A!Combine, InitIn <- A!InitIn, InitOut <- A!InitOut
PtrFacts   == INSTANCE Solution WITH Cfgs <- {}, Direction <- P!Direction, FlowBlock <- P!FlowBlock,
                Combine <- P!Combine, InitIn <- P!InitIn, InitOut <- P!InitOut
LoadFacts  == INSTANCE Solution WITH Cfgs <- {}, Direction <- M!Direction, FlowBlock <- M!FlowBlock,
                Combine <- M!Combine, InitIn <- M!InitIn, InitOut <- M!InitOut

\* What the analysis of a pass finds; constant folding has none.
FactsFor(pass, c) ==
  CASE pass = "cp"   -> ReachFacts!Facts(c)
    [] pass = "copy" -> CopyFacts!Facts(c)
    [] pass = "dce"  -> LiveFacts!Facts(c)
    [] pass = "ptr"  -> PtrFacts!Facts(c)
    [] pass = "stl"  -> LoadFacts!Facts(c)
    [] pass = "cf"   -> [in |-> <<>>, out |-> <<>>]

RunPass(c, pass) == run_pass(c, pass, FactsFor(pass, c))
=============================================================================
