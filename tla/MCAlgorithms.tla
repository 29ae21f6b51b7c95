---------------------------- MODULE MCAlgorithms ----------------------------
(***************************************************************************)
(* The pure algorithms for TLC, over all the inputs that their modules     *)
(* build up: titles, comments and variations of them, documents, and the   *)
(* tables of a database.  A behaviour builds one of these; the others stay *)
(* empty.                                                                  *)
(***************************************************************************)
EXTENDS MCSlugs, MCFingerprints, MCPostContent, MCSchemaInspection

VARIABLE part

SchemaAtRest ==
    /\ tables = <<>> /\ others = FALSE /\ version = 0 /\ phase = "off"
    /\ changes = 0 /\ additions = TRUE

AlgorithmsInit ==
    /\ part \in {"slugs", "text", "fingerprints", "content", "schema"}
    /\ TitlesInit /\ TextInit /\ VariationInit /\ DocumentInit
    /\ IF part = "schema" THEN SchemaInit ELSE SchemaAtRest

AlgorithmsNext ==
    /\ UNCHANGED part
    /\ \/ part = "slugs" /\ TitlesNext
          /\ UNCHANGED <<text, variationVars, document, schemaVars>>
       \/ part = "text" /\ TextNext
          /\ UNCHANGED <<titles, variationVars, document, schemaVars>>
       \/ part = "fingerprints" /\ VariationNext
          /\ UNCHANGED <<titles, text, document, schemaVars>>
       \/ part = "content" /\ DocumentNext
          /\ UNCHANGED <<titles, text, variationVars, schemaVars>>
       \/ part = "schema" /\ SchemaNext
          /\ UNCHANGED <<titles, text, variationVars, document>>

AlgorithmsSpec ==
    AlgorithmsInit
    /\ [][AlgorithmsNext]_<<part, titles, text, variationVars, document, schemaVars>>
=============================================================================
