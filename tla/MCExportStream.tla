--------------------------- MODULE MCExportStream ---------------------------
(***************************************************************************)
(* An instance of ExportStream for TLC, and a claim of the code's comments.*)
(***************************************************************************)
EXTENDS ExportStream

\* backend/src/handlers/admin.rs:1162: on an error "the GeoJSON remains
\* syntactically valid".  The error feature is written with a comma before
\* it, also when it is the first feature.
GeoJsonParses ==
    \A e \in Export : Received(e) /\ kind[e] = "geojson" => Parses(e)

=============================================================================
