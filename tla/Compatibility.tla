---------------------------- MODULE Compatibility ----------------------------
(***************************************************************************)
(* Whether a runtime can load a model (compatibility.rs) and whether a     *)
(* projector fits it (multimodal.rs), as far as the status goes: a content *)
(* is what a GGUF file says, identified by its hash.                       *)
(***************************************************************************)
EXTENDS Integers, FiniteSets

CONSTANTS
    None,
    Info,           \* content -> [kind, arch, complete, modalities]
    KnownArchs,     \* known_upstream_architecture
    RequiresVision, \* architectures of projector_requirement, by answer
    MayHaveVision,
    RequiresNothing

Contents == DOMAIN Info
ModelIds == {c \in Contents : Info[c].kind = "model"}
ProjectorIds == {c \in Contents : Info[c].kind = "projector"}

Requirement(model) ==
    LET arch == Info[model].arch IN
    CASE arch \in RequiresVision -> "Required"
      [] arch \in MayHaveVision -> "Optional"
      [] arch \in RequiresNothing -> "NotRequired"
      [] OTHER -> "Unknown"

RequiredModalities(model) ==
    IF Requirement(model) \in {"Required", "Optional"} THEN {"vision"} ELSE {}

Pairing(model, projector) ==
    LET required == RequiredModalities(model)
        offered == Info[projector].modalities
    IN  CASE Requirement(model) = "NotRequired" \/ required = {} \/ offered = {} -> "Unknown"
          [] required # {} /\ offered # {} /\ ~(required \subseteq offered) -> "Incompatible"
          [] OTHER -> "Compatible"

(* The status of what evaluate_compatibility finds once the model can be   *)
(* loaded at all; limited tells whether the metadata is incomplete.        *)
WithProjector(model, runtime, projector, limited) ==
    LET base == IF limited THEN "Limited" ELSE "Compatible"
        pairing == Pairing(model, projector)
    IN  CASE Requirement(model) = "Required" ->
               (CASE projector = None -> "Limited"
                  [] projector # None /\ ~runtime.mmproj -> "Incompatible"
                  [] projector # None /\ runtime.mmproj /\ pairing = "Compatible" -> base
                  [] projector # None /\ runtime.mmproj /\ pairing = "Unknown" -> "Limited"
                  [] OTHER -> "Incompatible")
          [] Requirement(model) = "Optional" ->
               IF projector # None /\ pairing = "Incompatible" THEN "Incompatible" ELSE "Limited"
          [] Requirement(model) = "Unknown" -> "Limited"
          [] OTHER -> base

(* A runtime is an installation: [id, server, modelOption, mmproj].        *)
Evaluate(model, runtime, projector) ==
    CASE ~runtime.server \/ ~runtime.modelOption -> "Incompatible"
      [] runtime.server /\ runtime.modelOption /\ Info[model].arch \notin KnownArchs -> "Unknown"
      [] OTHER -> WithProjector(model, runtime, projector, ~Info[model].complete)

(* What is stored: the status with the evidence it was computed from.      *)
Evaluation(model, runtime, projector) ==
    [status |-> Evaluate(model, runtime, projector), runtime |-> runtime]

(* Mutant: only another installation makes a result stale.                *)
IsStaleByIdOnly(result, runtime) == result.runtime.id # runtime.id

(* is_stale: the model's hash is its identity; the fingerprint stands for  *)
(* the runtime's tools and capabilities.                                   *)
IsStale(result, runtime) == result.runtime # runtime
=============================================================================
