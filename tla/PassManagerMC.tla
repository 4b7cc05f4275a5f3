---------------------------- MODULE PassManagerMC ----------------------------
(* PassManager with the passes of the repository, when the plugins of       *)
(* FrontTransforms and Analysis are loaded and that of Transforms is not,   *)
(* and a pass of an application that asks for what they may not supply.     *)
EXTENDS PassManager

StageService ==
  {"NoCanto", "RepriseCanonical", "NamesResolved", "AliasCanonicalForm",
   "LoopToMarksMap", "LoopDistributionDone"}

StageProvides ==
  [Generate |-> {}, C2R |-> {"NoCanto"}, Canonize |-> {"RepriseCanonical"},
   Resolver |-> {"NamesResolved"}, CanonicalForm |-> {"AliasCanonicalForm"},
   FindParallelLoops |-> {"LoopToMarksMap"}, LoopFragmentation |-> {},
   Client |-> {}, Serialize |-> {}]

StageRequires ==
  [Generate |-> {}, C2R |-> {}, Canonize |-> {}, Resolver |-> {},
   CanonicalForm |-> {"NoCanto", "RepriseCanonical"},
   FindParallelLoops |-> {"AliasCanonicalForm"},
   LoopFragmentation |-> {"NoCanto", "RepriseCanonical"},
   Client |-> {"NamesResolved", "LoopDistributionDone"}, Serialize |-> {}]

StageRegistered ==
  [NoCanto |-> "C2R", RepriseCanonical |-> "Canonize", NamesResolved |-> "Resolver",
   AliasCanonicalForm |-> "CanonicalForm", LoopToMarksMap |-> "FindParallelLoops"]

StagePass == DOMAIN StageProvides

Listed == StagePass \ {"Generate", "Serialize"}

(* Two passes in any order, the second perhaps brought in by the first.     *)
AnyPipeline == UNION {[1..n -> Listed] : n \in 0..2}
==============================================================================
