--------------------------- MODULE MCModelLibrary ---------------------------
(* A folder with two paths a and b and a path l behind a link, which its   *)
(* walk does not follow and which may be scanned itself; a vision model,   *)
(* its projector and a malformed file.                                     *)
EXTENDS ModelLibrary, TLC

CONSTANTS a, b, l

MCPaths == {a, b, l}
MCInfo ==
    "V" :> [kind |-> "model", arch |-> "qwen2vl", complete |-> TRUE, modalities |-> {}]
    @@ "P" :> [kind |-> "projector", arch |-> "clip", complete |-> TRUE, modalities |-> {"vision"}]
    @@ "bad" :> [kind |-> "malformed", arch |-> "", complete |-> FALSE, modalities |-> {}]

MCRuntimes ==
    {[id |-> "r", server |-> s, modelOption |-> TRUE, mmproj |-> TRUE] : s \in BOOLEAN}
MCBeneath == "all" :> {a, b, l} @@ "linked" :> {l}
MCListed == "all" :> {a, b} @@ "linked" :> {l}
MCDisk == a :> [content |-> "V", stamp |-> 0]
          @@ b :> [content |-> "P", stamp |-> 0]
          @@ l :> [content |-> "V", stamp |-> 0]

Op(kind, arg, target) == [kind |-> kind, arg |-> arg, target |-> target]
MCOperations ==
    {Op("Scan", f, None) : f \in {"all", "linked"}} \cup
    {Op("AddModel", l, None), Op("AddProjector", a, None),
     Op("RelinkModel", b, "V"), Op("RelinkProjector", a, "P"),
     Op("Associate", "V", "P"), Op("RemoveModel", None, "V"), Op("RemoveProjector", None, "P"),
     Op("Refresh", None, None), Op("Recheck", None, None)}
=============================================================================
