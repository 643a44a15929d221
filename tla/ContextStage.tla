---------------------------- MODULE ContextStage ----------------------------
(***************************************************************************)
(* offline/enrichment/context: one row per frame, joined from the          *)
(* published captions, OCR and objects, when they belong together.         *)
(***************************************************************************)
EXTENDS CaptionStage, OcrStage, ObjectStage

VARIABLE
    context     \* the published bundle: frame_context_v1.parquet and manifest.json

\* A text is known by where it comes from.
NoText == [lineage |-> 0, version |-> 0, by |-> Unmade]
Text(row) == IF Usable(row) THEN [lineage |-> row.lineage, version |-> row.version, by |-> row.by]
             ELSE NoText

NoContext == [rows |-> [f \in Frames |-> [caption |-> NoText, ocr |-> NoText, objects |-> NoText]],
              manifest |-> NoManifest]

InitContext == context = NoContext

\* OCR and objects are optional: they take part once their frames.parquet is there.
Present(bundle) == bundle # NoBundle
Bundles == {captions} \cup {bundle \in {ocr, objects} : Present(bundle)}

\* _required_manifest(): one that states its version, so not the one of a checkpoint.
Stated(bundle) == Present(bundle) /\ bundle.manifest.kind = "complete"

\* _resolve_lineage(): the frames' and every manifest's.
SameLineage == \A bundle \in Bundles : bundle.manifest.lineage = lineage

\* _validated_rows(): every row is of the manifest's version and of the frame store.
Validated(bundle) ==
    \A f \in Frames : bundle.rows[f] # Missing =>
        /\ bundle.rows[f].version = bundle.manifest.config.version
        /\ bundle.rows[f].lineage = lineage

VersionOf(bundle) == IF Present(bundle) THEN bundle.manifest.config.version ELSE 0

Identity ==
    [kind |-> "context", caption |-> VersionOf(captions), ocr |-> VersionOf(ocr),
     objects |-> VersionOf(objects), lineage |-> lineage, policy |-> config.setting]

\* _build_context_rows()
Derived ==
    [f \in Frames |-> [caption |-> Text(captions.rows[f]), ocr |-> Text(ocr.rows[f]),
                       objects |-> Text(objects.rows[f])]]

ContextReady ==
    /\ \A bundle \in Bundles : Stated(bundle)
    /\ SameLineage
    /\ \A bundle \in Bundles : Validated(bundle)

\* _valid_existing_bundle(): the identity and every row.
ExistingContext == context.manifest = Identity /\ context.rows = Derived

SourcesUnchanged == UNCHANGED <<captions, ocr, regions, raw, objects>>

BuildContext ==
    /\ ContextReady /\ AtOnce("context", TRUE)
    /\ context' = IF ExistingContext THEN context ELSE [rows |-> Derived, manifest |-> Identity]
    /\ SourcesUnchanged
RefuseContext == ~ContextReady /\ AtOnce("context", FALSE) /\ UNCHANGED context /\ SourcesUnchanged

ContextNext == BuildContext \/ RefuseContext
=============================================================================
