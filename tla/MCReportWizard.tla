--------------------------- MODULE MCReportWizard ---------------------------
(***************************************************************************)
(* Instances of ReportWizard for TLC, and three claims that it refutes.    *)
(***************************************************************************)
EXTENDS ReportWizard, TLC

(***************************************************************************)
(* What the documentation says of location_source and the page does not    *)
(* do.                                                                     *)
(***************************************************************************)
\* .planning/phases/05-uat-stabilisation/05-CONTEXT.md:72: "`GPS_API` —
\* location captured via browser Geolocation API".  The page also sends it
\* while the geolocation is pending and after it failed.
GpsApiIsDevice == \A r \in rows : r.source = "GPS_API" => r.loc \in Fix

\* The ward on the success card, "Auto-detected" (SuccessCard.tsx:242), is the ward
\* of what was submitted.
CardWardIsSubmitted == \A card \in SuccessCard : card.ward \in {None, post.loc}

\* The success card stands for a row with the location and the source of the submission
\* that it follows.  A retry whose first POST was stored without an answer is told so
\* too, and a pin moved in between is not in the table (reports.rs:237-240).
CardIsWhatWasSent == \A card \in SuccessCard : post \in rows \/ post.trap

=============================================================================
